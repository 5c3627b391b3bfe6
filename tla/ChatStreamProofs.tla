-------------------------- MODULE ChatStreamProofs --------------------------
(***************************************************************************)
(* Theorems about ChatStream for any number of items and of deltas.        *)
(*                                                                         *)
(* The writer of the client is compared with an ideal one, whose writes    *)
(* all succeed: what that one has written is known from the events alone,  *)
(* and the real one is in step with it until a write fails.  The chunks of *)
(* a sequence of events are the value of a recursive function; a least     *)
(* counterexample stands for induction on its length.                      *)
(***************************************************************************)
EXTENDS ChatStream, FiniteSetTheorems, SequenceTheorems, WellFoundedInduction, TLAPS

-----------------------------------------------------------------------------
(* The recursion of Consumed                                               *)

\* The writer after n events, as a function of n.
After(w, evs) == CHOOSE f : f = [n \in 0..Len(evs) |-> IF n = 0 THEN w ELSE Consume(f[n - 1], evs[n])]

LEMMA ConsumedIsAfter ==
  ASSUME NEW w, NEW evs
  PROVE  Consumed(w, evs) = After(w, evs)[Len(evs)]
BY DEF Consumed, After

LEMMA LeastNumber ==
  ASSUME NEW S \in SUBSET Nat, S # {}
  PROVE  \E i \in S : \A j \in S : i <= j
<1>. DEFINE R == {q \in Nat \X Nat : q[1] < q[2]}
<1>1. IsWellFoundedOn(R, Nat)
  <2>1. R = OpToRel(<, Nat)
    BY DEF OpToRel
  <2>. QED BY <2>1, NatLessThanWellFounded
<1>2. PICK i \in S : \A j \in S : <<j, i>> \notin R
  BY <1>1, WFMin
<1>3. ASSUME NEW j \in S
      PROVE  i <= j
  <2>1. <<j, i>> \in Nat \X Nat /\ <<j, i>> \notin R
    BY <1>2
  <2>2. ~(j < i)
    BY <2>1
  <2>. QED BY <2>2
<1>. QED BY <1>3

Recursion(f, w, evs, n) ==
  f = [m \in 0..n |-> IF m = 0 THEN w ELSE Consume(f[m - 1], evs[m])]

LEMMA Extended ==
  ASSUME NEW f, NEW w, NEW evs, NEW n \in Nat, Recursion(f, w, evs, n)
  PROVE  \E g : Recursion(g, w, evs, n + 1)
<1>. DEFINE g == [m \in 0..(n + 1) |-> IF m = n + 1 THEN Consume(f[n], evs[n + 1]) ELSE f[m]]
            h == [m \in 0..(n + 1) |-> IF m = 0 THEN w ELSE Consume(g[m - 1], evs[m])]
<1>1. ASSUME NEW m \in 0..(n + 1)
      PROVE  g[m] = IF m = 0 THEN w ELSE Consume(g[m - 1], evs[m])
  <2>1. CASE m = n + 1
    <3>1. g[m] = Consume(f[n], evs[n + 1]) /\ g[n] = f[n] /\ m - 1 = n /\ m # 0
      BY <2>1
    <3>. QED BY <3>1, <2>1
  <2>2. CASE m = 0
    <3>1. g[m] = f[m] /\ 0 \in 0..n
      BY <2>2
    <3>. QED BY <3>1, <2>2 DEF Recursion
  <2>3. CASE m \in 1..n
    <3>1. g[m] = f[m] /\ g[m - 1] = f[m - 1] /\ m \in 0..n /\ m # 0
      BY <2>3
    <3>2. f[m] = Consume(f[m - 1], evs[m])
      BY <3>1 DEF Recursion
    <3>. QED BY <3>1, <3>2
  <2>. QED BY <2>1, <2>2, <2>3
<1>2. g = h
  BY <1>1
<1>3. Recursion(g, w, evs, n + 1)
  BY <1>2 DEF Recursion
<1>. QED BY <1>3

LEMMA Exists ==
  ASSUME NEW w, NEW evs, NEW n \in Nat
  PROVE  \E f : Recursion(f, w, evs, n)
<1>. DEFINE Bad == {m \in Nat : ~\E f : Recursion(f, w, evs, m)}
<1>1. SUFFICES ASSUME Bad # {}
               PROVE  FALSE
  OBVIOUS
<1>2. PICK m \in Bad : \A k \in Bad : m <= k
  BY <1>1, LeastNumber
<1>3. CASE m = 0
  <2>. DEFINE f == [k \in 0..0 |-> w]
              h == [k \in 0..0 |-> IF k = 0 THEN w ELSE Consume(f[k - 1], evs[k])]
  <2>1. f = h
    OBVIOUS
  <2>2. Recursion(f, w, evs, 0)
    BY <2>1 DEF Recursion
  <2>. QED BY <1>2, <1>3, <2>2
<1>4. CASE m # 0
  <2>1. m - 1 \in Nat /\ m - 1 \notin Bad /\ (m - 1) + 1 = m
    BY <1>2, <1>4
  <2>2. PICK f : Recursion(f, w, evs, m - 1)
    BY <2>1
  <2>3. \E g : Recursion(g, w, evs, m)
    BY <2>1, <2>2, Extended
  <2>. QED BY <1>2, <2>3
<1>. QED BY <1>3, <1>4

LEMMA AfterRecursion ==
  ASSUME NEW w, NEW evs, Len(evs) \in Nat
  PROVE  Recursion(After(w, evs), w, evs, Len(evs))
BY Exists DEF Recursion, After

\* Two of them agree where both are defined.
LEMMA Agree ==
  ASSUME NEW w, NEW S, NEW evs \in Seq(S), NEW e \in S,
         NEW f, Recursion(f, w, evs, Len(evs)),
         NEW g, Recursion(g, w, Append(evs, e), Len(evs) + 1)
  PROVE  \A n \in 0..Len(evs) : f[n] = g[n]
<1>. DEFINE Bad == {m \in 0..Len(evs) : f[m] # g[m]}
<1>1. SUFFICES ASSUME Bad # {}
               PROVE  FALSE
  OBVIOUS
<1>2. Len(evs) \in Nat
  OBVIOUS
<1>3. PICK m \in Bad : \A k \in Bad : m <= k
  <2>1. Bad \in SUBSET Nat
    BY <1>2
  <2>. HIDE DEF Bad
  <2>. QED BY <1>1, <2>1, LeastNumber
<1>4. m \in 0..Len(evs) /\ m \in 0..(Len(evs) + 1)
  BY <1>2, <1>3
<1>5. CASE m = 0
  <2>1. f[m] = w /\ g[m] = w
    BY <1>4, <1>5 DEF Recursion
  <2>. QED BY <2>1, <1>3
<1>6. CASE m # 0
  <2>1. f[m] = Consume(f[m - 1], evs[m]) /\ g[m] = Consume(g[m - 1], Append(evs, e)[m])
    BY <1>4, <1>6 DEF Recursion
  <2>2. Append(evs, e)[m] = evs[m]
    BY <1>4, <1>6
  <2>3. m - 1 \in 0..Len(evs) /\ m - 1 \notin Bad
    BY <1>3, <1>4, <1>6
  <2>4. f[m - 1] = g[m - 1]
    BY <2>3
  <2>. QED BY <2>1, <2>2, <2>4, <1>3
<1>. QED BY <1>5, <1>6

\* What a writer does with nothing, and with one event more.
LEMMA ConsumedNone ==
  ASSUME NEW w
  PROVE  Consumed(w, <<>>) = w
<1>. DEFINE f == After(w, <<>>)
<1>1. Len(<<>>) = 0
  OBVIOUS
<1>2. Recursion(f, w, <<>>, 0)
  BY <1>1, AfterRecursion
<1>3. f[0] = w
  <2>. HIDE DEF f
  <2>. QED BY <1>2 DEF Recursion
<1>. QED BY <1>1, <1>3, ConsumedIsAfter

LEMMA ConsumedMore ==
  ASSUME NEW w, NEW S, NEW evs \in Seq(S), NEW e \in S
  PROVE  Consumed(w, Append(evs, e)) = Consume(Consumed(w, evs), e)
<1>. DEFINE n == Len(evs)
            f == After(w, evs)
            g == After(w, Append(evs, e))
<1>1. n \in Nat /\ Len(Append(evs, e)) = n + 1 /\ Append(evs, e)[n + 1] = e
  OBVIOUS
<1>2. Recursion(f, w, evs, n) /\ Recursion(g, w, Append(evs, e), n + 1)
  <2>1. Recursion(f, w, evs, n)
    BY <1>1, AfterRecursion
  <2>2. PICK E : E = Append(evs, e)
    OBVIOUS
  <2>3. Len(E) = n + 1 /\ Len(E) \in Nat
    BY <1>1, <2>2
  <2>4. Recursion(After(w, E), w, E, Len(E))
    BY <2>3, AfterRecursion
  <2>. QED BY <2>1, <2>2, <2>3, <2>4
<1>3. f[n] = g[n]
  BY <1>1, <1>2, Agree
<1>4. g[n + 1] = Consume(g[n], e)
  <2>1. n + 1 \in 0..(n + 1) /\ n + 1 # 0 /\ (n + 1) - 1 = n
    BY <1>1
  <2>2. PICK N, G, E : N = n /\ G = g /\ E = Append(evs, e)
    OBVIOUS
  <2>3. G[N + 1] = Consume(G[(N + 1) - 1], E[N + 1])
    BY <1>2, <2>1, <2>2 DEF Recursion
  <2>. QED BY <1>1, <2>1, <2>2, <2>3
<1>. QED BY <1>1, <1>3, <1>4, ConsumedIsAfter

LEMMA ConsumedOne ==
  ASSUME NEW w, NEW e
  PROVE  Consumed(w, <<e>>) = Consume(w, e)
<1>1. PICK S, none : S = {e} /\ none = <<>>
  OBVIOUS
<1>2. none \in Seq(S) /\ e \in S /\ Append(none, e) = <<e>>
  BY <1>1
<1>3. Consumed(w, Append(none, e)) = Consume(Consumed(w, none), e)
  BY <1>2, ConsumedMore
<1>. QED BY <1>1, <1>2, <1>3, ConsumedNone

-----------------------------------------------------------------------------
(* The invariant                                                           *)

\* The writer of a client that takes everything, after some events.
Ideal(evs) == Consumed(NewWriter, evs)

Added(evs) == ItemsOf(evs, "added")
CallsOf(evs) == {evs[i].item : i \in {j \in Where(evs, "added") : evs[j].kind = "call"}}
Announced(evs, e) ==
  \E i \in Where(evs, "added") : evs[i].item = e.item /\ evs[i].kind = e.kind

\* Items are added in order and once each, before anything is said of them; nothing
\* follows an end; an answer without output comes when all items are done.
WellFormed(evs) ==
  /\ evs \in Seq(Event)
  /\ Added(evs) = 1..Cardinality(Added(evs)) /\ Added(evs) \subseteq Items
  /\ \A i, j \in Where(evs, "added") : evs[i].item = evs[j].item => i = j
  /\ \A i \in Where(evs, "added") : evs[i].kind \in {"message", "call"}
  /\ \A i \in Where(evs, "delta") \cup Where(evs, "itemDone") : Announced(evs, evs[i])
  /\ \A i \in DOMAIN evs : evs[i].type # "end" /\ (evs[i].type \in Ends => i = Len(evs))
  /\ \A i \in Where(evs, "completed") :
       evs[i].kind = "full" \/ Added(evs) \subseteq ItemsOf(evs, "itemDone")

Ended(evs) == \E i \in DOMAIN evs : evs[i].type \in Ends

\* An event that may follow them.
Fits(evs, e) ==
  /\ e \in Event /\ e.type # "end" /\ ~Ended(evs)
  /\ e.type = "added" =>
       e.item = Cardinality(Added(evs)) + 1 /\ e.item \in Items /\ e.kind \in {"message", "call"}
  /\ e.type \in {"delta", "itemDone"} => Announced(evs, e)
  /\ e.type = "completed" =>
       e.kind = "full" \/ Added(evs) \subseteq ItemsOf(evs, "itemDone")

\* The calls have indexes of their own, and so have their arguments.
IndexTrack(w, evs) ==
  /\ w.next <= Cardinality(Added(evs))
  /\ \A k \in CallsOf(evs) : 0 <= w.index[k] /\ w.index[k] < w.next
  /\ \A k, l \in CallsOf(evs) : w.index[k] = w.index[l] => k = l
  /\ w.tool <=> CallsOf(evs) # {}

CallTrack(w, evs) ==
  /\ \A i \in Where(w.out, "call") :
       w.out[i].item \in CallsOf(evs) /\ w.out[i].index = w.index[w.out[i].item]
  /\ \A k \in CallsOf(evs) : \E i \in Where(w.out, "call") : w.out[i].item = k

ArgsOf(out, index) == {j \in Where(out, "args") : out[j].index = index}
ArgsTrack(w, evs) ==
  /\ \A i \in Where(w.out, "args") : w.out[i].index < w.next
  /\ \A k \in CallsOf(evs) : Cardinality(ArgsOf(w.out, w.index[k])) = Deltas(evs, k)

Texts(evs) == {i \in Where(evs, "delta") : evs[i].kind = "message"}
TextTrack(w, evs) == Cardinality(Where(w.out, "text")) = Cardinality(Texts(evs))

\* A finish reason and [DONE] are the last two chunks, once there was an end.
Closes(type) == type \in {"stop", "tool_calls", "[DONE]"}
EndTrack(w, evs) ==
  /\ w.done <=> Ended(evs)
  /\ ~w.done => \A i \in DOMAIN w.out : ~Closes(w.out[i].type)
  /\ w.done =>
       /\ Len(w.out) >= 2 /\ w.out[Len(w.out)].type = "[DONE]"
       /\ w.out[Len(w.out) - 1].type = IF w.tool THEN "tool_calls" ELSE "stop"
       /\ \A i \in 1..(Len(w.out) - 2) : ~Closes(w.out[i].type)

\* What the writer of a client that takes everything knows and has written.
Tracks(w, evs) ==
  /\ w \in Writer /\ ~w.err /\ w.tail = <<>>
  /\ IndexTrack(w, evs) /\ CallTrack(w, evs) /\ ArgsTrack(w, evs)
  /\ TextTrack(w, evs) /\ EndTrack(w, evs)

Good(evs) == WellFormed(evs) /\ Tracks(Ideal(evs), evs)

TheEnd == Plain("end")

\* The writer is that of a client that takes everything, but for a frame that is still
\* in its buffer; or a write has failed; or it has finished.
InStep(front) == sent = front \o chat.tail /\ ~chat.err /\ chat = [Ideal(front) EXCEPT !.tail = chat.tail]
Broken ==
  /\ chat.err /\ ~chat.done
  /\ \/ IsPrefix(chat.out, Ideal(sent).out)
     \/ pc = "done" /\ IsPrefix(chat.out, Consume(Ideal(sent), TheEnd).out)
Finished == pc = "done" /\ chat.done /\ chat.out = Consume(Ideal(sent), TheEnd).out

ChatInv ==
  IF req.stream THEN (\E front \in Seq(Event) : Good(front) /\ InStep(front)) \/ Broken \/ Finished
  ELSE chat = NewWriter

\* Where the request stands, and what has gone wrong until then.
PhaseInv ==
  /\ pc = "open" => sent = <<>> /\ chat = NewWriter
  /\ pc \in {"open", "streaming"} => ~cca.failed /\ ~trace.readError /\ chat.tail = <<>>
  /\ pc \in {"open", "streaming"} /\ req.provider = "google" => ~Ended(sent)
  /\ Len(chat.tail) <= 1
  /\ pc \in {"served", "answering"} /\ Where(sent, "completed") # {} =>
       ~cca.failed /\ ~trace.readError
  /\ pc \in {"open", "streaming", "served", "answering"} /\ req.provider = "codex" => ~chat.err
  /\ pc \in {"open", "streaming", "served", "aborting"} => trace.outcome = "none"
  /\ pc # "done" => answer.status = "none"
  /\ req.provider = "google" /\ cca.message # 0 =>
       Announced(sent, [type |-> "delta", item |-> cca.message, kind |-> "message"])
  /\ req.provider = "google" => chat.tail = <<>>
  /\ user = "there" => ~chat.err

\* What was observed, and what is logged of it.
LogInv ==
  /\ trace.semantic = "completed" => Where(sent, "completed") # {}
  /\ trace.semantic \in {"failed", "incomplete"} => Where(sent, "completed") = {}
  /\ req.provider = "codex" /\ trace.semantic # "unobserved" => Ended(sent)
  /\ req.provider = "codex" /\ trace.semantic = "completed" /\ pc # "done" => chat.tail = <<>>
  /\ pc \in {"open", "streaming"} => ~trace.writeError
  /\ pc = "aborting" => req.provider = "codex" /\ (trace.readError \/ trace.writeError)
  /\ pc = "served" /\ req.provider = "codex" =>
       ~trace.writeError /\ (trace.eof \/ trace.readError)
  /\ pc = "answering" /\ Where(sent, "completed") # {} =>
       trace.outcome \in {"body_eof", "client_cancel"}
  /\ trace.outcome = "body_eof" /\ trace.semantic = "completed" /\ req.stream
       /\ (req.provider = "codex" \/ user = "there") => chat.done
  /\ trace.outcome = "body_eof" /\ trace.semantic = "completed" /\ ~req.stream /\ pc = "done"
       => answer.status = "ok"
  /\ answer.status = "ok" =>
       /\ trace.outcome \in {"body_eof", "client_cancel"}
       /\ trace.semantic \in {"completed", "unobserved"}

Inv ==
  /\ TypeOK /\ Good(sent) /\ ChatInv /\ PhaseInv
  /\ OnlyCompletedAnswered /\ LogInv

-----------------------------------------------------------------------------
(* Sequences and sets that grow                                            *)

LEMMA AppendFacts ==
  ASSUME NEW S, NEW s \in Seq(S), NEW e \in S
  PROVE  /\ Len(s) \in Nat /\ DOMAIN s = 1..Len(s) /\ Append(s, e) \in Seq(S)
         /\ Len(Append(s, e)) = Len(s) + 1
         /\ DOMAIN Append(s, e) = 1..(Len(s) + 1)
         /\ \A i \in 1..Len(s) : Append(s, e)[i] = s[i] /\ i # Len(s) + 1
         /\ Append(s, e)[Len(s) + 1] = e
OBVIOUS

LEMMA CountMore ==
  ASSUME NEW S, NEW s \in Seq(S), NEW T, T \subseteq 1..Len(s)
  PROVE  /\ IsFiniteSet(T) /\ Cardinality(T) \in Nat
         /\ Cardinality(T \cup {Len(s) + 1}) = Cardinality(T) + 1
<1>1. PICK n \in Nat : n = Len(s)
  OBVIOUS
<1>2. IsFiniteSet(1..n)
  BY FS_Interval
<1>3. IsFiniteSet(T) /\ Cardinality(T) \in Nat
  BY <1>1, <1>2, FS_Subset, FS_CardinalityType
<1>4. n + 1 \notin T
  BY <1>1
<1>. QED BY <1>1, <1>3, <1>4, FS_AddElement

\* Of events and of chunks: those of a type when there is one more.
LEMMA WhereMore ==
  ASSUME NEW S, NEW s \in Seq(S), NEW e \in S, NEW t
  PROVE  /\ Where(s, t) \subseteq 1..Len(s)
         /\ Where(Append(s, e), t) = Where(s, t) \cup (IF e.type = t THEN {Len(s) + 1} ELSE {})
         /\ \A i \in Where(s, t) : Append(s, e)[i] = s[i]
<1>. USE AppendFacts
<1>1. Where(s, t) \subseteq 1..Len(s)
  BY DEF Where
<1>2. Where(Append(s, e), t) \subseteq Where(s, t) \cup (IF e.type = t THEN {Len(s) + 1} ELSE {})
  BY DEF Where
<1>3. Where(s, t) \cup (IF e.type = t THEN {Len(s) + 1} ELSE {}) \subseteq Where(Append(s, e), t)
  BY DEF Where
<1>4. \A i \in Where(s, t) : Append(s, e)[i] = s[i]
  BY <1>1
<1>. QED BY <1>1, <1>2, <1>3, <1>4

LEMMA WhereOther ==
  ASSUME NEW S, NEW s \in Seq(S), NEW e \in S, NEW t, e.type # t
  PROVE  Where(Append(s, e), t) = Where(s, t) /\ \A i \in Where(s, t) : Append(s, e)[i] = s[i]
<1>1. Where(Append(s, e), t) = Where(s, t) \cup (IF e.type = t THEN {Len(s) + 1} ELSE {})
  BY WhereMore
<1>2. \A i \in Where(s, t) : Append(s, e)[i] = s[i]
  BY WhereMore
<1>. QED BY <1>1, <1>2

LEMMA ItemsMore ==
  ASSUME NEW S, NEW s \in Seq(S), NEW e \in S, NEW t
  PROVE  ItemsOf(Append(s, e), t) = ItemsOf(s, t) \cup (IF e.type = t THEN {e.item} ELSE {})
<1>1. \A i \in Where(s, t) : Append(s, e)[i].item = s[i].item
  BY WhereMore
<1>2. Append(s, e)[Len(s) + 1].item = e.item
  BY AppendFacts
<1>3. Where(Append(s, e), t) = Where(s, t) \cup (IF e.type = t THEN {Len(s) + 1} ELSE {})
  BY WhereMore
<1>. QED BY <1>1, <1>2, <1>3 DEF ItemsOf

LEMMA CallsMore ==
  ASSUME NEW S, NEW s \in Seq(S), NEW e \in S
  PROVE  /\ e.type = "added" /\ e.kind = "call" => CallsOf(Append(s, e)) = CallsOf(s) \cup {e.item}
         /\ ~(e.type = "added" /\ e.kind = "call") => CallsOf(Append(s, e)) = CallsOf(s)
<1>1. \A i \in Where(s, "added") : Append(s, e)[i] = s[i]
  BY WhereMore
<1>2. Append(s, e)[Len(s) + 1] = e
  BY AppendFacts
<1>3. Where(Append(s, e), "added")
        = Where(s, "added") \cup (IF e.type = "added" THEN {Len(s) + 1} ELSE {})
  BY WhereMore
<1>. QED BY <1>1, <1>2, <1>3 DEF CallsOf

LEMMA TextsMore ==
  ASSUME NEW S, NEW s \in Seq(S), NEW e \in S
  PROVE  /\ Cardinality(Texts(s)) \in Nat
         /\ Cardinality(Texts(Append(s, e))) =
              Cardinality(Texts(s)) + IF e.type = "delta" /\ e.kind = "message" THEN 1 ELSE 0
<1>1. Texts(s) \subseteq 1..Len(s)
  BY WhereMore DEF Texts
<1>2. Texts(Append(s, e)) = IF e.type = "delta" /\ e.kind = "message"
                            THEN Texts(s) \cup {Len(s) + 1} ELSE Texts(s)
  <2>1. \A i \in Where(s, "delta") : Append(s, e)[i] = s[i]
    BY WhereMore
  <2>2. Append(s, e)[Len(s) + 1] = e
    BY AppendFacts
  <2>3. Where(Append(s, e), "delta")
          = Where(s, "delta") \cup (IF e.type = "delta" THEN {Len(s) + 1} ELSE {})
    BY WhereMore
  <2>. QED BY <2>1, <2>2, <2>3 DEF Texts
<1>3. /\ Cardinality(Texts(s)) \in Nat
      /\ Cardinality(Texts(s) \cup {Len(s) + 1}) = Cardinality(Texts(s)) + 1
  BY <1>1, CountMore
<1>. QED BY <1>2, <1>3

LEMMA DeltasMore ==
  ASSUME NEW S, NEW s \in Seq(S), NEW e \in S, NEW k
  PROVE  /\ Deltas(s, k) \in Nat
         /\ Deltas(Append(s, e), k) =
              Deltas(s, k) + IF e.type = "delta" /\ e.item = k THEN 1 ELSE 0
<1>. DEFINE D(q) == {i \in Where(q, "delta") : q[i].item = k}
<1>1. D(s) \subseteq 1..Len(s)
  BY WhereMore
<1>2. D(Append(s, e)) = IF e.type = "delta" /\ e.item = k
                        THEN D(s) \cup {Len(s) + 1} ELSE D(s)
  <2>1. \A i \in Where(s, "delta") : Append(s, e)[i] = s[i]
    BY WhereMore
  <2>2. Append(s, e)[Len(s) + 1] = e
    BY AppendFacts
  <2>3. Where(Append(s, e), "delta")
          = Where(s, "delta") \cup (IF e.type = "delta" THEN {Len(s) + 1} ELSE {})
    BY WhereMore
  <2>. QED BY <2>1, <2>2, <2>3
<1>3. Deltas(s, k) = Cardinality(D(s)) /\ Deltas(Append(s, e), k) = Cardinality(D(Append(s, e)))
  BY DEF Deltas
<1>. HIDE DEF D
<1>4. /\ Cardinality(D(s)) \in Nat
      /\ Cardinality(D(s) \cup {Len(s) + 1}) = Cardinality(D(s)) + 1
  BY <1>1, CountMore
<1>. QED BY <1>2, <1>3, <1>4

LEMMA ArgsMore ==
  ASSUME NEW S, NEW s \in Seq(S), NEW c \in S, NEW k
  PROVE  /\ Cardinality(ArgsOf(s, k)) \in Nat
         /\ Cardinality(ArgsOf(Append(s, c), k)) =
              Cardinality(ArgsOf(s, k)) + IF c.type = "args" /\ c.index = k THEN 1 ELSE 0
<1>1. ArgsOf(s, k) \subseteq 1..Len(s)
  BY WhereMore DEF ArgsOf
<1>2. ArgsOf(Append(s, c), k) = IF c.type = "args" /\ c.index = k
                                THEN ArgsOf(s, k) \cup {Len(s) + 1} ELSE ArgsOf(s, k)
  <2>1. \A i \in Where(s, "args") : Append(s, c)[i] = s[i]
    BY WhereMore
  <2>2. Append(s, c)[Len(s) + 1] = c
    BY AppendFacts
  <2>3. Where(Append(s, c), "args")
          = Where(s, "args") \cup (IF c.type = "args" THEN {Len(s) + 1} ELSE {})
    BY WhereMore
  <2>. QED BY <2>1, <2>2, <2>3 DEF ArgsOf
<1>3. /\ Cardinality(ArgsOf(s, k)) \in Nat
      /\ Cardinality(ArgsOf(s, k) \cup {Len(s) + 1}) = Cardinality(ArgsOf(s, k)) + 1
  BY <1>1, CountMore
<1>. QED BY <1>2, <1>3

LEMMA TypeMore ==
  ASSUME NEW S, NEW s \in Seq(S), NEW c \in S, NEW t
  PROVE  /\ Cardinality(Where(s, t)) \in Nat
         /\ Cardinality(Where(Append(s, c), t)) =
              Cardinality(Where(s, t)) + IF c.type = t THEN 1 ELSE 0
<1>1. Where(s, t) \subseteq 1..Len(s)
  BY WhereMore
<1>2. /\ Cardinality(Where(s, t)) \in Nat
      /\ Cardinality(Where(s, t) \cup {Len(s) + 1}) = Cardinality(Where(s, t)) + 1
  BY <1>1, CountMore
<1>3. Where(Append(s, c), t) = Where(s, t) \cup (IF c.type = t THEN {Len(s) + 1} ELSE {})
  BY WhereMore
<1>4. CASE c.type = t
  BY <1>2, <1>3, <1>4
<1>5. CASE c.type # t
  BY <1>2, <1>3, <1>5
<1>. QED BY <1>4, <1>5

-----------------------------------------------------------------------------
(* One event more                                                          *)

LEMMA EndedMore ==
  ASSUME NEW s \in Seq(Event), NEW e \in Event
  PROVE  Ended(Append(s, e)) <=> Ended(s) \/ e.type \in Ends
<1>1. ASSUME Ended(Append(s, e)), ~Ended(s)
      PROVE  e.type \in Ends
  BY <1>1, AppendFacts DEF Ended
<1>2. ASSUME Ended(s)
      PROVE  Ended(Append(s, e))
  BY <1>2, AppendFacts DEF Ended
<1>3. ASSUME e.type \in Ends
      PROVE  Ended(Append(s, e))
  <2>1. Len(s) + 1 \in DOMAIN Append(s, e) /\ Append(s, e)[Len(s) + 1] = e
    BY AppendFacts
  <2>. QED BY <2>1, <1>3 DEF Ended
<1>. QED BY <1>1, <1>2, <1>3

LEMMA AnnouncedMore ==
  ASSUME NEW s \in Seq(Event), NEW e \in Event, NEW x, Announced(s, x)
  PROVE  Announced(Append(s, e), x)
BY WhereMore DEF Announced

\* The items that are there, counted.
LEMMA AddedMore ==
  ASSUME NEW s \in Seq(Event), NEW e \in Event, WellFormed(s), Fits(s, e)
  PROVE  /\ Cardinality(Added(s)) \in Nat
         /\ Cardinality(Added(Append(s, e))) =
              Cardinality(Added(s)) + IF e.type = "added" THEN 1 ELSE 0
         /\ Added(Append(s, e)) = 1..Cardinality(Added(Append(s, e)))
         /\ Added(Append(s, e)) \subseteq Items
         /\ e.type = "added" => e.item \notin Added(s)
<1>1. PICK n : n = Cardinality(Added(s))
  OBVIOUS
<1>2. Added(s) = 1..n /\ Added(s) \subseteq Items
  BY <1>1 DEF WellFormed
<1>3. IsFiniteSet(Items)
  BY StreamAssumption, FS_Interval DEF Items
<1>4. n \in Nat /\ IsFiniteSet(Added(s))
  BY <1>1, <1>2, <1>3, FS_Subset, FS_CardinalityType
<1>5. Added(Append(s, e)) = Added(s) \cup (IF e.type = "added" THEN {e.item} ELSE {})
  BY ItemsMore DEF Added
<1>6. CASE e.type = "added"
  <2>1. e.item = n + 1 /\ e.item \in Items
    BY <1>1, <1>6 DEF Fits
  <2>2. e.item \notin Added(s)
    BY <1>2, <1>4, <2>1
  <2>3. Cardinality(Added(Append(s, e))) = n + 1
    BY <1>1, <1>4, <1>5, <1>6, <2>2, FS_AddElement
  <2>4. Added(Append(s, e)) = 1..(n + 1)
    BY <1>2, <1>4, <1>5, <1>6, <2>1
  <2>. QED BY <1>1, <1>2, <1>4, <1>5, <1>6, <2>1, <2>2, <2>3, <2>4
<1>7. CASE e.type # "added"
  BY <1>1, <1>2, <1>4, <1>5, <1>7
<1>. QED BY <1>6, <1>7

LEMMA WellFormedMore ==
  ASSUME NEW s \in Seq(Event), NEW e, WellFormed(s), Fits(s, e)
  PROVE  WellFormed(Append(s, e))
<1>. DEFINE t == Append(s, e)
<1>0. e \in Event
  BY DEF Fits
<1>1. /\ t \in Seq(Event) /\ DOMAIN t = 1..(Len(s) + 1) /\ Len(t) = Len(s) + 1
      /\ t[Len(s) + 1] = e /\ \A i \in 1..Len(s) : t[i] = s[i]
  BY <1>0, AppendFacts
<1>2. \A q \in {"added", "delta", "itemDone", "completed"} :
        /\ Where(s, q) \subseteq 1..Len(s)
        /\ Where(t, q) = Where(s, q) \cup (IF e.type = q THEN {Len(s) + 1} ELSE {})
        /\ \A i \in Where(s, q) : t[i] = s[i]
  BY <1>0, WhereMore
<1>3. Added(t) = 1..Cardinality(Added(t)) /\ Added(t) \subseteq Items
  BY <1>0, AddedMore
<1>4. ASSUME NEW i \in Where(t, "added"), NEW j \in Where(t, "added"), t[i].item = t[j].item
      PROVE  i = j
  <2>1. CASE i \in Where(s, "added") /\ j \in Where(s, "added")
    BY <1>2, <1>4, <2>1 DEF WellFormed
  <2>2. \A k \in Where(s, "added") : t[k].item \in Added(s)
    BY <1>2 DEF Added, ItemsOf
  <2>3. e.type = "added" => e.item \notin Added(s)
    BY <1>0, AddedMore
  <2>. QED BY <1>1, <1>2, <1>4, <2>1, <2>2, <2>3
<1>5. \A i \in Where(t, "added") : t[i].kind \in {"message", "call"}
  BY <1>1, <1>2 DEF WellFormed, Fits
<1>6. ASSUME NEW i \in Where(t, "delta") \cup Where(t, "itemDone")
      PROVE  Announced(t, t[i])
  <2>1. CASE i \in Where(s, "delta") \cup Where(s, "itemDone")
    <3>1. Announced(s, s[i]) /\ t[i] = s[i]
      BY <1>2, <2>1 DEF WellFormed
    <3>. QED BY <1>0, <3>1, AnnouncedMore
  <2>2. CASE i = Len(s) + 1 /\ e.type \in {"delta", "itemDone"}
    <3>1. Announced(s, e) /\ t[i] = e
      BY <1>1, <2>2 DEF Fits
    <3>. QED BY <1>0, <3>1, AnnouncedMore
  <2>. QED BY <1>2, <2>1, <2>2
<1>7. ASSUME NEW i \in DOMAIN t
      PROVE  t[i].type # "end" /\ (t[i].type \in Ends => i = Len(t))
  BY <1>1 DEF WellFormed, Fits, Ended
<1>8. ASSUME NEW i \in Where(t, "completed")
      PROVE  t[i].kind = "full" \/ Added(t) \subseteq ItemsOf(t, "itemDone")
  <2>1. Where(s, "completed") = {}
    BY DEF Fits, Ended, Where, Ends
  <2>2. t[i] = e /\ e.type = "completed"
    BY <1>1, <1>2, <2>1
  <2>3. Added(t) = Added(s) /\ ItemsOf(t, "itemDone") = ItemsOf(s, "itemDone")
    <3>1. ItemsOf(t, "added") = ItemsOf(s, "added") \cup (IF e.type = "added" THEN {e.item} ELSE {})
      BY <1>0, ItemsMore
    <3>2. ItemsOf(t, "itemDone")
            = ItemsOf(s, "itemDone") \cup (IF e.type = "itemDone" THEN {e.item} ELSE {})
      BY <1>0, ItemsMore
    <3>. QED BY <2>2, <3>1, <3>2 DEF Added
  <2>. QED BY <2>2, <2>3 DEF Fits
<1>. QED
  <2>. HIDE DEF t
  <2>1. WellFormed(t)
    BY <1>1, <1>3, <1>4, <1>5, <1>6, <1>7, <1>8 DEF WellFormed
  <2>. QED BY <2>1 DEF t

-----------------------------------------------------------------------------
(* What the writer makes of an event                                       *)

Said(type, index, item) == [type |-> type, index |-> index, item |-> item]

\* It may write one chunk, and know of a call;
Wrote(w, v, c) ==
  /\ v.out = Append(w.out, c) /\ v.done = w.done /\ v.err = w.err /\ v.tail = w.tail

LEMMA EmitFacts ==
  ASSUME NEW w \in Writer, ~w.done, NEW type, NEW index, NEW item
  PROVE  /\ Wrote(w, Emit(w, type, index, item), Said(type, index, item))
         /\ Emit(w, type, index, item).tool = w.tool
         /\ Emit(w, type, index, item).next = w.next
         /\ Emit(w, type, index, item).index = w.index
         /\ Emit(w, type, index, item) = [w EXCEPT !.out = Append(@, Said(type, index, item))]
BY DEF Writer, Emit, Wrote, Said

LEMMA ConsumePlain ==
  ASSUME NEW w \in Writer, ~w.done, NEW e \in Event,
         e.type = "created" \/ (e.type = "delta" /\ e.kind = "message")
  PROVE  LET v == Consume(w, e) IN
         /\ Wrote(w, v, Said(IF e.type = "created" THEN "role" ELSE "text", 0, 0))
         /\ v = [w EXCEPT !.out = v.out]
<1>. DEFINE type == IF e.type = "created" THEN "role" ELSE "text"
<1>1. Consume(w, e) = Emit(w, type, 0, 0)
  BY DEF Consume, Ends
<1>2. Emit(w, type, 0, 0) = [w EXCEPT !.out = Append(@, Said(type, 0, 0))]
  BY EmitFacts
<1>3. Consume(w, e) = [w EXCEPT !.out = Append(@, Said(type, 0, 0))]
  BY <1>1, <1>2
<1>. HIDE DEF type
<1>4. LET v == Consume(w, e) IN Wrote(w, v, Said(type, 0, 0)) /\ v = [w EXCEPT !.out = v.out]
  BY <1>3 DEF Wrote, Writer
<1>. QED BY <1>4 DEF type

LEMMA ConsumeCall ==
  ASSUME NEW w \in Writer, ~w.done, NEW e \in Event, e.type = "added", e.kind = "call"
  PROVE  LET v == Consume(w, e) IN
         /\ Wrote(w, v, Said("call", w.next, e.item))
         /\ v = [w EXCEPT !.index = [@ EXCEPT ![e.item] = w.next], !.next = @ + 1,
                          !.tool = TRUE, !.out = v.out]
<1>1. Consume(w, e) = Emit([w EXCEPT !.index[e.item] = w.next, !.next = @ + 1, !.tool = TRUE],
                           "call", w.next, e.item)
  BY DEF Consume, Ends
<1>. QED BY <1>1 DEF Emit, Said, Wrote, Writer

LEMMA ConsumeArgs ==
  ASSUME NEW w \in Writer, ~w.done, NEW e \in Event, e.type = "delta", e.kind = "call",
         w.index[e.item] >= 0
  PROVE  LET v == Consume(w, e) IN
         /\ Wrote(w, v, Said("args", w.index[e.item], e.item))
         /\ v = [w EXCEPT !.tool = TRUE, !.out = v.out]
<1>1. Consume(w, e) = Emit([w EXCEPT !.tool = TRUE], "args", IndexOf(w, e), e.item)
  BY DEF Consume, Heard, Ends
<1>2. IndexOf(w, e) = w.index[e.item]
  BY DEF IndexOf
<1>. QED BY <1>1, <1>2 DEF Emit, Said, Wrote, Writer

\* or two, and be done;
LEMMA ConsumeEnd ==
  ASSUME NEW w \in Writer, ~w.done, NEW e \in Event, e.type \in Ends \cup {"end"}
  PROVE  LET v == Consume(w, e) IN
         v = [w EXCEPT !.done = TRUE,
                       !.out = Append(Append(@, Said(IF w.tool THEN "tool_calls" ELSE "stop", 0, 0)),
                                      Said("[DONE]", 0, 0))]
<1>1. Consume(w, e) = Final(w)
  BY DEF Consume, Ends
<1>. QED BY <1>1 DEF Final, Emit, Said, Writer

\* or nothing.
LEMMA ConsumeNothing ==
  ASSUME NEW w, NEW e \in Event,
         (e.type = "added" /\ e.kind # "call") \/ e.type = "itemDone"
  PROVE  Consume(w, e) = w
BY DEF Consume, Ends

LEMMA ConsumeDone ==
  ASSUME NEW w \in Writer, w.done, NEW e \in Event, e.type \in Ends \cup {"end"}
  PROVE  Consume(w, e) = w
<1>1. Consume(w, e) = Final(w)
  BY DEF Consume, Ends
<1>. QED BY <1>1 DEF Final, Emit, Writer

-----------------------------------------------------------------------------
(* The writer keeps track                                                  *)

LEMMA AnnouncedCall ==
  ASSUME NEW s, WellFormed(s), NEW e \in Event, Announced(s, e)
  PROVE  /\ e.item \in Items /\ e.item \in Added(s)
         /\ e.item \in CallsOf(s) <=> e.kind = "call"
         /\ e.kind \in {"message", "call"}
<1>1. PICK i \in Where(s, "added") : s[i].item = e.item /\ s[i].kind = e.kind
  BY DEF Announced
<1>2. e.item \in Added(s) /\ Added(s) \subseteq Items
  BY <1>1 DEF WellFormed, Added, ItemsOf
<1>3. \A j \in Where(s, "added") : s[j].item = e.item => j = i
  BY <1>1 DEF WellFormed
<1>4. e.item \in CallsOf(s) <=> e.kind = "call"
  BY <1>1, <1>3 DEF CallsOf
<1>5. e.kind \in {"message", "call"}
  BY <1>1 DEF WellFormed
<1>. QED BY <1>2, <1>4, <1>5

\* What one may assume of an event that fits.
Ready(w, s, e) == WellFormed(s) /\ Tracks(w, s) /\ Fits(s, e)

LEMMA ReadyFacts ==
  ASSUME NEW w, NEW s, NEW e, Ready(w, s, e)
  PROVE  /\ s \in Seq(Event) /\ e \in Event /\ w \in Writer /\ ~w.done /\ ~w.err /\ w.tail = <<>>
         /\ w.out \in Seq(Chunk) /\ w.next \in 0..MaxItems /\ MaxItems \in Nat
         /\ w.index \in [Items -> 0..MaxItems \cup {-1}] /\ w.tool \in BOOLEAN
         /\ CallsOf(s) \subseteq Added(s) /\ Added(s) \subseteq Items
         /\ Cardinality(Added(s)) \in Nat /\ Cardinality(Added(Append(s, e))) \in Nat
         /\ Cardinality(Added(Append(s, e))) >= Cardinality(Added(s))
<1>1. s \in Seq(Event) /\ e \in Event /\ w \in Writer /\ ~w.done /\ ~w.err /\ w.tail = <<>>
  BY DEF Ready, WellFormed, Tracks, EndTrack, Fits
<1>2. w.out \in Seq(Chunk) /\ w.next \in 0..MaxItems /\ MaxItems \in Nat
      /\ w.index \in [Items -> 0..MaxItems \cup {-1}] /\ w.tool \in BOOLEAN
  BY <1>1, StreamAssumption DEF Writer
<1>3. CallsOf(s) \subseteq Added(s) /\ Added(s) \subseteq Items
  BY DEF CallsOf, Added, ItemsOf, Ready, WellFormed
<1>4. /\ Cardinality(Added(s)) \in Nat /\ Cardinality(Added(Append(s, e))) \in Nat
      /\ Cardinality(Added(Append(s, e))) >= Cardinality(Added(s))
  BY <1>1, AddedMore DEF Ready
<1>. QED BY <1>1, <1>2, <1>3, <1>4

LEMMA EndTrackOpen ==
  ASSUME NEW w, NEW s, NEW e, Ready(w, s, e), e.type \notin Ends,
         NEW v, NEW c \in Chunk, Wrote(w, v, c), ~Closes(c.type)
  PROVE  EndTrack(v, Append(s, e))
<1>1. ~v.done /\ ~Ended(Append(s, e))
  BY ReadyFacts, EndedMore DEF Wrote, Ready, Fits
<1>2. \A i \in DOMAIN v.out : ~Closes(v.out[i].type)
  <2>1. /\ DOMAIN v.out = 1..(Len(w.out) + 1) /\ v.out[Len(w.out) + 1] = c
        /\ \A i \in 1..Len(w.out) : v.out[i] = w.out[i]
        /\ DOMAIN w.out = 1..Len(w.out) /\ Len(w.out) \in Nat
    BY ReadyFacts, AppendFacts DEF Wrote
  <2>2. \A i \in DOMAIN w.out : ~Closes(w.out[i].type)
    BY ReadyFacts DEF Ready, Tracks, EndTrack
  <2>. QED BY <2>1, <2>2
<1>. QED BY <1>1, <1>2 DEF EndTrack

LEMMA TextTrackMore ==
  ASSUME NEW w, NEW s, NEW e, Ready(w, s, e),
         NEW v, NEW c \in Chunk, Wrote(w, v, c),
         c.type = "text" <=> e.type = "delta" /\ e.kind = "message"
  PROVE  TextTrack(v, Append(s, e))
<1>1. Cardinality(Where(v.out, "text"))
        = Cardinality(Where(w.out, "text")) + IF c.type = "text" THEN 1 ELSE 0
  BY ReadyFacts, TypeMore DEF Wrote
<1>2. Cardinality(Texts(Append(s, e))) =
        Cardinality(Texts(s)) + IF e.type = "delta" /\ e.kind = "message" THEN 1 ELSE 0
  BY ReadyFacts, TextsMore
<1>3. Cardinality(Where(w.out, "text")) = Cardinality(Texts(s))
  BY DEF Ready, Tracks, TextTrack
<1>. QED BY <1>1, <1>2, <1>3 DEF TextTrack

LEMMA WroteWhere ==
  ASSUME NEW w, NEW v, NEW c \in Chunk, NEW type, Wrote(w, v, c), w.out \in Seq(Chunk)
  PROVE  /\ Where(w.out, type) \subseteq 1..Len(w.out) /\ Len(w.out) \in Nat
         /\ c.type # type => Where(v.out, type) = Where(w.out, type)
         /\ c.type = type => Where(v.out, type) = Where(w.out, type) \cup {Len(w.out) + 1}
         /\ \A i \in Where(w.out, type) : v.out[i] = w.out[i]
         /\ v.out[Len(w.out) + 1] = c
<1>1. PICK o \in Seq(Chunk) : o = w.out /\ v.out = Append(o, c)
  BY DEF Wrote
<1>2. /\ Where(o, type) \subseteq 1..Len(o)
      /\ Where(Append(o, c), type) = Where(o, type) \cup (IF c.type = type THEN {Len(o) + 1} ELSE {})
      /\ \A i \in Where(o, type) : Append(o, c)[i] = o[i]
  BY WhereMore
<1>3. Len(o) \in Nat /\ Append(o, c)[Len(o) + 1] = c
  OBVIOUS
<1>. QED BY <1>1, <1>2, <1>3

LEMMA WroteIt ==
  ASSUME NEW w, NEW v, NEW c \in Chunk, Wrote(w, v, c), w.out \in Seq(Chunk)
  PROVE  /\ Where(v.out, c.type) = Where(w.out, c.type) \cup {Len(w.out) + 1}
         /\ \A i \in Where(w.out, c.type) : v.out[i] = w.out[i]
         /\ v.out[Len(w.out) + 1] = c
<1>1. PICK o \in Seq(Chunk) : o = w.out /\ v.out = Append(o, c)
  BY DEF Wrote
<1>2. PICK type : type = c.type
  OBVIOUS
<1>3. /\ Where(Append(o, c), type) = Where(o, type) \cup (IF c.type = type THEN {Len(o) + 1} ELSE {})
      /\ \A i \in Where(o, type) : Append(o, c)[i] = o[i]
  BY WhereMore
<1>4. Append(o, c)[Len(o) + 1] = c
  OBVIOUS
<1>. QED BY <1>1, <1>2, <1>3, <1>4

LEMMA WroteOther ==
  ASSUME NEW w, NEW v, NEW c \in Chunk, Wrote(w, v, c), w.out \in Seq(Chunk)
  PROVE  \A type : c.type # type =>
           /\ Where(v.out, type) = Where(w.out, type)
           /\ \A i \in Where(w.out, type) : v.out[i] = w.out[i]
<1>1. PICK o \in Seq(Chunk) : o = w.out /\ v.out = Append(o, c)
  BY DEF Wrote
<1>2. ASSUME NEW type, c.type # type
      PROVE  Where(Append(o, c), type) = Where(o, type) /\ \A i \in Where(o, type) : Append(o, c)[i] = o[i]
  BY <1>2, WhereOther
<1>. QED BY <1>1, <1>2

LEMMA CallTrackKept ==
  ASSUME NEW w, NEW s, NEW e, Ready(w, s, e), CallsOf(Append(s, e)) = CallsOf(s),
         NEW v, NEW c \in Chunk, Wrote(w, v, c), c.type # "call", v.index = w.index
  PROVE  CallTrack(v, Append(s, e))
<1>0. w.out \in Seq(Chunk)
  BY ReadyFacts
<1>1. /\ Where(v.out, "call") = Where(w.out, "call")
      /\ \A i \in Where(w.out, "call") : v.out[i] = w.out[i]
  <2>1. \A type : c.type # type =>
           /\ Where(v.out, type) = Where(w.out, type)
           /\ \A i \in Where(w.out, type) : v.out[i] = w.out[i]
    BY <1>0, WroteOther
  <2>. QED BY <2>1
<1>2. CallTrack(w, s)
  BY DEF Ready, Tracks
<1>. QED BY <1>1, <1>2 DEF CallTrack

\* An event that is no call's.
LEMMA TracksPlain ==
  ASSUME NEW w, NEW s, NEW e, Ready(w, s, e),
         e.type = "created" \/ (e.type = "delta" /\ e.kind = "message")
  PROVE  Tracks(Consume(w, e), Append(s, e))
<1>. DEFINE v == Consume(w, e)
            t == Append(s, e)
            c == Said(IF e.type = "created" THEN "role" ELSE "text", 0, 0)
<1>1. Wrote(w, v, c) /\ v = [w EXCEPT !.out = v.out]
  BY ReadyFacts, ConsumePlain
<1>2. c \in Chunk /\ c.type \in {"role", "text"} /\ (c.type = "text" <=> e.type = "delta")
  BY ReadyFacts DEF Said, Chunk
<1>3. v \in Writer /\ ~v.err /\ v.tail = <<>> /\ v.index = w.index /\ v.next = w.next
      /\ v.tool = w.tool
  <2>1. v.out \in Seq(Chunk)
    BY <1>1, <1>2, ReadyFacts DEF Wrote
  <2>2. w \in Writer /\ ~w.err /\ w.tail = <<>>
    BY ReadyFacts
  <2>3. PICK u, o : u = v /\ o = u.out
    OBVIOUS
  <2>4. u = [w EXCEPT !.out = o] /\ o \in Seq(Chunk)
    BY <1>1, <2>1, <2>3
  <2>5. u \in Writer /\ ~u.err /\ u.tail = <<>> /\ u.index = w.index /\ u.next = w.next
        /\ u.tool = w.tool
    BY <2>2, <2>4 DEF Writer
  <2>. QED BY <2>3, <2>5
<1>4. CallsOf(t) = CallsOf(s)
  BY ReadyFacts, CallsMore
<1>. HIDE DEF v, c
<1>5. IndexTrack(v, t)
  <2>1. /\ w.next \in Int /\ Cardinality(Added(s)) \in Int /\ Cardinality(Added(t)) \in Int
        /\ Cardinality(Added(t)) >= Cardinality(Added(s))
    BY ReadyFacts
  <2>2. IndexTrack(w, s)
    BY DEF Ready, Tracks
  <2>. QED BY <1>3, <1>4, <2>1, <2>2 DEF IndexTrack
<1>6. CallTrack(v, t)
  BY <1>1, <1>2, <1>3, <1>4, CallTrackKept
<1>7. ArgsTrack(v, t)
  <2>0. w.out \in Seq(Chunk) /\ c.type # "args"
    BY <1>2, ReadyFacts
  <2>1. /\ Where(v.out, "args") = Where(w.out, "args")
        /\ \A i \in Where(w.out, "args") : v.out[i] = w.out[i]
    BY <1>1, <1>2, <2>0, WroteWhere
  <2>2. \A k \in CallsOf(s) : Deltas(t, k) = Deltas(s, k)
    <3>1. \A k : Deltas(s, k) \in Nat /\ Deltas(t, k) =
            Deltas(s, k) + IF e.type = "delta" /\ e.item = k THEN 1 ELSE 0
      BY ReadyFacts, DeltasMore
    <3>2. e.type = "delta" => e.item \notin CallsOf(s)
      BY ReadyFacts, AnnouncedCall DEF Ready, Fits
    <3>. QED BY <3>1, <3>2
  <2>3. \A k : ArgsOf(v.out, k) = ArgsOf(w.out, k)
    BY <2>1 DEF ArgsOf
  <2>. QED BY <1>3, <1>4, <2>1, <2>2, <2>3 DEF ArgsTrack, Ready, Tracks
<1>8. TextTrack(v, t)
  BY <1>1, <1>2, TextTrackMore
<1>9. EndTrack(v, t)
  BY <1>1, <1>2, EndTrackOpen DEF Closes, Ends
<1>. QED BY <1>3, <1>5, <1>6, <1>7, <1>8, <1>9 DEF Tracks, v

\* Nothing that is told of calls and texts changes, and neither does what is known.
LEMMA TracksSame ==
  ASSUME NEW w, NEW s, NEW e, Ready(w, s, e), e.type \notin {"delta"},
         ~(e.type = "added" /\ e.kind = "call"),
         NEW v, v.index = w.index, v.next = w.next, v.tool = w.tool,
         \A type \in {"call", "args", "text"} :
           /\ Where(v.out, type) = Where(w.out, type)
           /\ \A i \in Where(w.out, type) : v.out[i] = w.out[i]
  PROVE  /\ IndexTrack(v, Append(s, e)) /\ CallTrack(v, Append(s, e))
         /\ ArgsTrack(v, Append(s, e)) /\ TextTrack(v, Append(s, e))
<1>. DEFINE t == Append(s, e)
<1>1. CallsOf(t) = CallsOf(s)
  BY ReadyFacts, CallsMore
<1>2. IndexTrack(w, s) /\ CallTrack(w, s) /\ ArgsTrack(w, s) /\ TextTrack(w, s)
  BY DEF Ready, Tracks
<1>3. IndexTrack(v, t)
  <2>1. /\ w.next \in Int /\ Cardinality(Added(s)) \in Int /\ Cardinality(Added(t)) \in Int
        /\ Cardinality(Added(t)) >= Cardinality(Added(s))
    BY ReadyFacts
  <2>. QED BY <1>1, <1>2, <2>1 DEF IndexTrack
<1>4. CallTrack(v, t)
  BY <1>1, <1>2 DEF CallTrack
<1>5. ArgsTrack(v, t)
  <2>1. \A k : Deltas(t, k) = Deltas(s, k)
    <3>1. \A k : Deltas(s, k) \in Nat /\ Deltas(t, k) =
            Deltas(s, k) + IF e.type = "delta" /\ e.item = k THEN 1 ELSE 0
      BY ReadyFacts, DeltasMore
    <3>. QED BY <3>1
  <2>2. \A k : ArgsOf(v.out, k) = ArgsOf(w.out, k)
    BY DEF ArgsOf
  <2>. QED BY <1>1, <1>2, <2>1, <2>2 DEF ArgsTrack
<1>6. TextTrack(v, t)
  <2>1. Cardinality(Texts(s)) \in Nat /\ Cardinality(Texts(t)) =
          Cardinality(Texts(s)) + IF e.type = "delta" /\ e.kind = "message" THEN 1 ELSE 0
    BY ReadyFacts, TextsMore
  <2>. QED BY <1>2, <2>1 DEF TextTrack
<1>. QED BY <1>3, <1>4, <1>5, <1>6

LEMMA TracksNothing ==
  ASSUME NEW w, NEW s, NEW e, Ready(w, s, e),
         (e.type = "added" /\ e.kind # "call") \/ e.type = "itemDone"
  PROVE  Tracks(Consume(w, e), Append(s, e))
<1>1. Consume(w, e) = w
  BY ReadyFacts, ConsumeNothing
<1>2. /\ IndexTrack(w, Append(s, e)) /\ CallTrack(w, Append(s, e))
      /\ ArgsTrack(w, Append(s, e)) /\ TextTrack(w, Append(s, e))
  BY TracksSame
<1>3. Ended(Append(s, e)) <=> Ended(s)
  BY ReadyFacts, EndedMore DEF Ends
<1>4. w \in Writer /\ ~w.err /\ w.tail = <<>> /\ EndTrack(w, s)
  BY DEF Ready, Tracks
<1>. QED BY <1>1, <1>2, <1>3, <1>4 DEF Tracks, EndTrack

\* A call is announced: it gets an index that no arguments have had yet.
LEMMA TracksCall ==
  ASSUME NEW w, NEW s, NEW e, Ready(w, s, e), e.type = "added", e.kind = "call"
  PROVE  Tracks(Consume(w, e), Append(s, e))
<1>. DEFINE v == Consume(w, e)
            t == Append(s, e)
            c == Said("call", w.next, e.item)
            k == e.item
<1>1. Wrote(w, v, c)
      /\ v = [w EXCEPT !.index = [@ EXCEPT ![k] = w.next], !.next = @ + 1,
                       !.tool = TRUE, !.out = v.out]
  BY ReadyFacts, ConsumeCall
<1>2. /\ Cardinality(Added(t)) = Cardinality(Added(s)) + 1 /\ k \notin Added(s)
      /\ Cardinality(Added(s)) \in Nat /\ Added(t) = 1..Cardinality(Added(t))
      /\ Added(t) \subseteq Items
  <2>1. WellFormed(s) /\ Fits(s, e) /\ s \in Seq(Event) /\ e \in Event
    BY DEF Ready, WellFormed, Fits
  <2>. QED BY <2>1, AddedMore
<1>3. IndexTrack(w, s) /\ CallTrack(w, s) /\ ArgsTrack(w, s)
  BY DEF Ready, Tracks
<1>4. /\ w \in Writer /\ ~w.err /\ w.tail = <<>> /\ w.out \in Seq(Chunk) /\ MaxItems \in Nat
      /\ w.index \in [Items -> 0..MaxItems \cup {-1}] /\ w.next \in 0..MaxItems
      /\ CallsOf(s) \subseteq Items /\ k \notin CallsOf(s)
  BY <1>2, ReadyFacts
<1>5. w.next + 1 \in 0..MaxItems /\ k \in Items
  <2>1. Cardinality(Added(t)) \in Items
    BY <1>2
  <2>2. w.next <= Cardinality(Added(s))
    BY <1>3 DEF IndexTrack
  <2>. QED BY <1>2, <1>4, <2>1, <2>2 DEF Items, Ready, Fits
<1>6. c \in Chunk /\ c.type = "call" /\ c.item = k /\ c.index = w.next
  BY <1>4, <1>5 DEF Said, Chunk
<1>7. /\ v \in Writer /\ ~v.err /\ v.tail = <<>> /\ v.next = w.next + 1 /\ v.tool = TRUE
      /\ v.index = [w.index EXCEPT ![k] = w.next]
  <2>1. v.out \in Seq(Chunk)
    BY <1>1, <1>4, <1>6 DEF Wrote
  <2>2. PICK u, o : u = v /\ o = u.out
    OBVIOUS
  <2>3. u = [w EXCEPT !.index = [@ EXCEPT ![k] = w.next], !.next = @ + 1,
                       !.tool = TRUE, !.out = o]
    BY <1>1, <2>2
  <2>4. PICK j : j = [w.index EXCEPT ![k] = w.next]
    OBVIOUS
  <2>5. j \in [Items -> 0..MaxItems \cup {-1}] /\ o \in Seq(Chunk)
    BY <1>4, <1>5, <2>1, <2>2, <2>4
  <2>6. u = [w EXCEPT !.index = j, !.next = w.next + 1, !.tool = TRUE, !.out = o]
    BY <1>4, <2>3, <2>4 DEF Writer
  <2>7. u \in Writer /\ ~u.err /\ u.tail = <<>> /\ u.next = w.next + 1 /\ u.tool = TRUE /\ u.index = j
    BY <1>4, <1>5, <2>5, <2>6 DEF Writer
  <2>. QED BY <2>2, <2>4, <2>7
<1>8. CallsOf(t) = CallsOf(s) \cup {k}
  BY ReadyFacts, CallsMore
<1>9. v.index[k] = w.next /\ \A l \in CallsOf(s) : v.index[l] = w.index[l] /\ w.index[l] \in Int
  BY <1>4, <1>5, <1>7
<1>. HIDE DEF v, c, t, k
<1>10. IndexTrack(v, t)
  BY <1>2, <1>3, <1>4, <1>7, <1>8, <1>9 DEF IndexTrack
<1>11. CallTrack(v, t)
  <2>1. /\ Where(v.out, "call") = Where(w.out, "call") \cup {Len(w.out) + 1}
        /\ \A i \in Where(w.out, "call") : v.out[i] = w.out[i]
        /\ v.out[Len(w.out) + 1] = c
    <3>1. Wrote(w, v, c) /\ c \in Chunk /\ w.out \in Seq(Chunk)
      BY <1>1, <1>4, <1>6
    <3>2. /\ Where(v.out, c.type) = Where(w.out, c.type) \cup {Len(w.out) + 1}
          /\ \A i \in Where(w.out, c.type) : v.out[i] = w.out[i]
          /\ v.out[Len(w.out) + 1] = c
      BY <3>1, WroteIt
    <3>. QED BY <1>6, <3>2
  <2>. QED BY <1>3, <1>6, <1>8, <1>9, <2>1 DEF CallTrack
<1>12. ArgsTrack(v, t)
  <2>1. /\ Where(v.out, "args") = Where(w.out, "args")
        /\ \A i \in Where(w.out, "args") : v.out[i] = w.out[i]
    <3>1. PICK type : type = "args"
      OBVIOUS
    <3>2. Wrote(w, v, c) /\ c \in Chunk /\ w.out \in Seq(Chunk) /\ c.type # type
      BY <1>1, <1>4, <1>6, <3>1
    <3>3. /\ Where(v.out, type) = Where(w.out, type)
          /\ \A i \in Where(w.out, type) : v.out[i] = w.out[i]
      BY <3>2, WroteWhere
    <3>. QED BY <3>1, <3>3
  <2>2. \A i \in Where(w.out, "args") : w.out[i].index < w.next /\ w.out[i].index \in Int
    <3>1. \A i \in Where(w.out, "args") : w.out[i] \in Chunk
      BY <1>4 DEF Where
    <3>. QED BY <1>3, <3>1 DEF ArgsTrack, Chunk
  <2>3. \A l : Deltas(t, l) = Deltas(s, l)
    <3>1. \A l : Deltas(s, l) \in Nat /\ Deltas(t, l) =
            Deltas(s, l) + IF e.type = "delta" /\ e.item = l THEN 1 ELSE 0
      BY ReadyFacts, DeltasMore DEF t
    <3>. QED BY <3>1
  <2>4. \A l : ArgsOf(v.out, l) = ArgsOf(w.out, l)
    BY <2>1 DEF ArgsOf
  <2>5. Cardinality(ArgsOf(w.out, w.next)) = Deltas(s, k)
    <3>1. ArgsOf(w.out, w.next) = {}
      BY <1>4, <2>2 DEF ArgsOf
    <3>2. {i \in Where(s, "delta") : s[i].item = k} = {}
      <4>1. ASSUME NEW i \in Where(s, "delta"), s[i].item = k
            PROVE  FALSE
        <5>1. WellFormed(s) /\ Announced(s, s[i]) /\ s[i] \in Event
          BY DEF Ready, WellFormed, Where
        <5>2. k \in Added(s)
          BY <4>1, <5>1, AnnouncedCall
        <5>. QED BY <5>2, <1>2
      <4>. QED BY <4>1
    <3>. QED BY <3>1, <3>2 DEF Deltas
  <2>6. \A i \in Where(v.out, "args") : v.out[i].index < v.next
    BY <1>4, <1>7, <2>1, <2>2
  <2>7. \A l \in CallsOf(t) : Cardinality(ArgsOf(v.out, v.index[l])) = Deltas(t, l)
    BY <1>3, <1>8, <1>9, <2>3, <2>4, <2>5 DEF ArgsTrack
  <2>. QED BY <2>6, <2>7 DEF ArgsTrack
<1>13. TextTrack(v, t)
  BY <1>1, <1>6, TextTrackMore DEF t
<1>14. EndTrack(v, t)
  BY <1>1, <1>6, EndTrackOpen DEF Closes, Ends, t
<1>. QED BY <1>7, <1>10, <1>11, <1>12, <1>13, <1>14 DEF Tracks, v, t

\* Arguments of a call have its index, and no other call has.
LEMMA TracksArgs ==
  ASSUME NEW w, NEW s, NEW e, Ready(w, s, e), e.type = "delta", e.kind = "call"
  PROVE  Tracks(Consume(w, e), Append(s, e))
<1>. DEFINE v == Consume(w, e)
            t == Append(s, e)
            k == e.item
            c == Said("args", w.index[k], k)
<1>1. IndexTrack(w, s) /\ CallTrack(w, s) /\ ArgsTrack(w, s)
  BY DEF Ready, Tracks
<1>2. /\ w \in Writer /\ ~w.err /\ w.tail = <<>> /\ w.out \in Seq(Chunk) /\ MaxItems \in Nat
      /\ w.index \in [Items -> 0..MaxItems \cup {-1}] /\ w.next \in 0..MaxItems
      /\ CallsOf(s) \subseteq Items
  BY ReadyFacts
<1>3. k \in CallsOf(s) /\ k \in Items
  <2>1. WellFormed(s) /\ e \in Event /\ Announced(s, e)
    BY DEF Ready, Fits
  <2>. QED BY <2>1, AnnouncedCall
<1>4. w.index[k] \in 0..MaxItems /\ w.index[k] < w.next
  BY <1>1, <1>2, <1>3 DEF IndexTrack
<1>5. Wrote(w, v, c) /\ v = [w EXCEPT !.tool = TRUE, !.out = v.out]
  <2>1. w.index[k] >= 0 /\ ~w.done /\ e \in Event
    BY <1>4, ReadyFacts
  <2>. QED BY <1>2, <2>1, ConsumeArgs
<1>6. c \in Chunk /\ c.type = "args" /\ c.item = k /\ c.index = w.index[k]
  BY <1>3, <1>4 DEF Said, Chunk
<1>7. v \in Writer /\ ~v.err /\ v.tail = <<>> /\ v.next = w.next /\ v.tool = TRUE
      /\ v.index = w.index
  <2>1. v.out \in Seq(Chunk)
    BY <1>2, <1>5, <1>6 DEF Wrote
  <2>2. PICK u, o : u = v /\ o = u.out
    OBVIOUS
  <2>3. u = [w EXCEPT !.tool = TRUE, !.out = o] /\ o \in Seq(Chunk)
    BY <1>5, <2>1, <2>2
  <2>4. u \in Writer /\ ~u.err /\ u.tail = <<>> /\ u.next = w.next /\ u.tool = TRUE
        /\ u.index = w.index
    BY <1>2, <2>3 DEF Writer
  <2>. QED BY <2>2, <2>4
<1>8. CallsOf(t) = CallsOf(s)
  BY ReadyFacts, CallsMore
<1>. HIDE DEF v, c, t, k
<1>9. IndexTrack(v, t)
  <2>1. /\ w.next \in Int /\ Cardinality(Added(s)) \in Int /\ Cardinality(Added(t)) \in Int
        /\ Cardinality(Added(t)) >= Cardinality(Added(s))
    BY ReadyFacts DEF t
  <2>. QED BY <1>1, <1>3, <1>7, <1>8, <2>1 DEF IndexTrack
<1>10. CallTrack(v, t)
  BY <1>5, <1>6, <1>7, <1>8, CallTrackKept DEF t
<1>11. ArgsTrack(v, t)
  <2>1. /\ Where(v.out, "args") = Where(w.out, "args") \cup {Len(w.out) + 1}
        /\ \A i \in Where(w.out, "args") : v.out[i] = w.out[i]
        /\ v.out[Len(w.out) + 1] = c
    <3>1. Wrote(w, v, c) /\ c \in Chunk /\ w.out \in Seq(Chunk)
      BY <1>2, <1>5, <1>6
    <3>2. /\ Where(v.out, c.type) = Where(w.out, c.type) \cup {Len(w.out) + 1}
          /\ \A i \in Where(w.out, c.type) : v.out[i] = w.out[i]
          /\ v.out[Len(w.out) + 1] = c
      BY <3>1, WroteIt
    <3>. QED BY <1>6, <3>2
  <2>2. \A i \in Where(v.out, "args") : v.out[i].index < v.next
    BY <1>1, <1>4, <1>6, <1>7, <2>1 DEF ArgsTrack
  <2>3. ASSUME NEW l \in CallsOf(s)
        PROVE  Cardinality(ArgsOf(v.out, w.index[l])) = Deltas(t, l)
    <3>1. Deltas(s, l) \in Nat /\ Deltas(t, l) = Deltas(s, l) + IF l = k THEN 1 ELSE 0
      <4>1. Deltas(s, l) \in Nat /\ Deltas(t, l) =
              Deltas(s, l) + IF e.type = "delta" /\ e.item = l THEN 1 ELSE 0
        BY ReadyFacts, DeltasMore DEF t
      <4>. QED BY <4>1 DEF k
    <3>2. Cardinality(ArgsOf(v.out, w.index[l])) = Cardinality(ArgsOf(w.out, w.index[l])) +
            IF c.index = w.index[l] THEN 1 ELSE 0
      <4>1. PICK o, x : o = w.out /\ x = w.index[l]
        OBVIOUS
      <4>2. o \in Seq(Chunk) /\ c \in Chunk /\ v.out = Append(o, c)
        BY <1>2, <1>5, <1>6, <4>1 DEF Wrote
      <4>3. Cardinality(ArgsOf(Append(o, c), x)) =
              Cardinality(ArgsOf(o, x)) + IF c.type = "args" /\ c.index = x THEN 1 ELSE 0
        BY <4>2, ArgsMore
      <4>. QED BY <1>6, <4>1, <4>2, <4>3
    <3>3. c.index = w.index[l] <=> l = k
      BY <1>1, <1>3, <1>6 DEF IndexTrack
    <3>4. Cardinality(ArgsOf(w.out, w.index[l])) = Deltas(s, l)
      BY <1>1 DEF ArgsTrack
    <3>. QED BY <3>1, <3>2, <3>3, <3>4
  <2>. QED BY <1>7, <1>8, <2>2, <2>3 DEF ArgsTrack
<1>12. TextTrack(v, t)
  BY <1>5, <1>6, TextTrackMore DEF t
<1>13. EndTrack(v, t)
  BY <1>5, <1>6, EndTrackOpen DEF Closes, Ends, t
<1>. QED BY <1>7, <1>9, <1>10, <1>11, <1>12, <1>13 DEF Tracks, v, t

\* The end: a finish reason that says whether there were calls, and [DONE].
LEMMA TracksEnd ==
  ASSUME NEW w, NEW s, NEW e, Ready(w, s, e), e.type \in Ends
  PROVE  Tracks(Consume(w, e), Append(s, e))
<1>. DEFINE v == Consume(w, e)
            t == Append(s, e)
            f == Said(IF w.tool THEN "tool_calls" ELSE "stop", 0, 0)
            d == Said("[DONE]", 0, 0)
<1>1. /\ w \in Writer /\ ~w.err /\ w.tail = <<>> /\ w.out \in Seq(Chunk) /\ ~w.done
      /\ e \in Event /\ s \in Seq(Event) /\ w.tool \in BOOLEAN
  BY ReadyFacts
<1>2. v = [w EXCEPT !.done = TRUE, !.out = Append(Append(@, f), d)]
  BY <1>1, ConsumeEnd
<1>3. /\ f \in Chunk /\ f.type = IF w.tool THEN "tool_calls" ELSE "stop"
      /\ d \in Chunk /\ d.type = "[DONE]"
  BY StreamAssumption DEF Said, Chunk
<1>. HIDE DEF f, d
<1>4. PICK o \in Seq(Chunk) : o = w.out
  BY <1>1
<1>5. Append(o, f) \in Seq(Chunk) /\ Append(Append(o, f), d) \in Seq(Chunk)
  BY <1>3
<1>6. /\ v \in Writer /\ ~v.err /\ v.tail = <<>> /\ v.done /\ v.index = w.index
      /\ v.next = w.next /\ v.tool = w.tool /\ v.out = Append(Append(o, f), d)
  BY <1>1, <1>2, <1>4, <1>5 DEF Writer
<1>. HIDE DEF v, t
<1>7. \A type \in {"call", "args", "text"} :
        /\ Where(v.out, type) = Where(w.out, type)
        /\ \A i \in Where(w.out, type) : v.out[i] = w.out[i]
  <2>1. TAKE type \in {"call", "args", "text"}
  <2>2. f.type # type /\ d.type # type
    BY <1>1, <1>3
  <2>3. PICK q \in Seq(Chunk) : q = Append(o, f)
    BY <1>5
  <2>4. q \in Seq(Chunk) /\ d \in Chunk /\ d.type # type
    BY <1>3, <2>2, <2>3
  <2>5. Where(q, type) = Where(o, type) /\ \A i \in Where(o, type) : q[i] = o[i]
    BY <1>3, <2>2, <2>3, WhereOther
  <2>6. Where(Append(q, d), type) = Where(q, type)
        /\ \A i \in Where(q, type) : Append(q, d)[i] = q[i]
    BY <2>4, WhereOther
  <2>. QED BY <1>4, <1>6, <2>3, <2>5, <2>6
<1>8. IndexTrack(v, t) /\ CallTrack(v, t) /\ ArgsTrack(v, t) /\ TextTrack(v, t)
  <2>1. e.type \notin {"delta", "added"}
    BY DEF Ends
  <2>2. v.index = w.index /\ v.next = w.next /\ v.tool = w.tool
    BY <1>6
  <2>. QED BY <1>7, <2>1, <2>2, TracksSame DEF t
<1>9. EndTrack(v, t)
  <2>1. Ended(t)
    BY <1>1, EndedMore DEF t
  <2>2. /\ Len(o) \in Nat /\ Len(v.out) = Len(o) + 2
        /\ v.out[Len(o) + 1] = f /\ v.out[Len(o) + 2] = d
        /\ \A i \in 1..Len(o) : v.out[i] = o[i] /\ i \in DOMAIN o
    BY <1>3, <1>4, <1>6
  <2>3. \A i \in DOMAIN o : ~Closes(o[i].type)
    BY <1>1, <1>4 DEF Ready, Tracks, EndTrack
  <2>4. Len(v.out) >= 2 /\ Len(v.out) - 1 = Len(o) + 1 /\ Len(v.out) - 2 = Len(o)
    BY <2>2
  <2>. QED BY <1>3, <1>6, <2>1, <2>2, <2>3, <2>4 DEF EndTrack
<1>. QED BY <1>6, <1>8, <1>9 DEF Tracks, v, t

-----------------------------------------------------------------------------
(* Some events more                                                        *)

LEMMA PrefixIs ==
  ASSUME NEW S, NEW o \in Seq(S), NEW p \in Seq(S)
  PROVE  IsPrefix(o, p) <=> Len(o) <= Len(p) /\ \A i \in 1..Len(o) : o[i] = p[i]
<1>1. ASSUME Len(o) <= Len(p)
      PROVE  SubSeq(o, 1, Len(o)) = SubSeq(p, 1, Len(o)) <=> \A i \in 1..Len(o) : o[i] = p[i]
  <2>1. /\ SubSeq(o, 1, Len(o)) \in Seq(S) /\ SubSeq(p, 1, Len(o)) \in Seq(S)
        /\ Len(SubSeq(o, 1, Len(o))) = Len(o) /\ Len(SubSeq(p, 1, Len(o))) = Len(o)
        /\ \A i \in 1..Len(o) : SubSeq(o, 1, Len(o))[i] = o[i] /\ SubSeq(p, 1, Len(o))[i] = p[i]
    BY <1>1
  <2>2. ASSUME \A i \in 1..Len(o) : o[i] = p[i]
        PROVE  SubSeq(o, 1, Len(o)) = SubSeq(p, 1, Len(o))
    BY <2>1, <2>2, SeqEqual
  <2>. QED BY <2>1, <2>2
<1>. QED BY <1>1 DEF IsPrefix

LEMMA PrefixTrans ==
  ASSUME NEW S, NEW o \in Seq(S), NEW p \in Seq(S), NEW q \in Seq(S),
         IsPrefix(o, p), IsPrefix(p, q)
  PROVE  IsPrefix(o, q)
<1>1. Len(o) <= Len(p) /\ \A i \in 1..Len(o) : o[i] = p[i]
  BY PrefixIs
<1>2. Len(p) <= Len(q) /\ \A i \in 1..Len(p) : p[i] = q[i]
  BY PrefixIs
<1>3. Len(o) <= Len(q) /\ \A i \in 1..Len(o) : o[i] = q[i]
  BY <1>1, <1>2
<1>. QED BY <1>3, PrefixIs

LEMMA PrefixSelf ==
  ASSUME NEW S, NEW o \in Seq(S)
  PROVE  IsPrefix(o, o)
BY PrefixIs

LEMMA PrefixAppend ==
  ASSUME NEW S, NEW o \in Seq(S), NEW c \in S
  PROVE  IsPrefix(o, Append(o, c))
<1>0. Append(o, c) \in Seq(S)
  OBVIOUS
<1>1. PICK p \in Seq(S) : p = Append(o, c)
  BY <1>0
<1>2. Len(o) <= Len(p) /\ \A i \in 1..Len(o) : o[i] = p[i]
  BY <1>1
<1>. QED BY <1>1, <1>2, PrefixIs

LEMMA PrefixSub ==
  ASSUME NEW S, NEW p \in Seq(S), NEW n \in 0..Len(p)
  PROVE  SubSeq(p, 1, n) \in Seq(S) /\ IsPrefix(SubSeq(p, 1, n), p)
<1>0. SubSeq(p, 1, n) \in Seq(S)
  OBVIOUS
<1>1. PICK o \in Seq(S) : o = SubSeq(p, 1, n)
  BY <1>0
<1>2. Len(o) <= Len(p) /\ \A i \in 1..Len(o) : o[i] = p[i]
  BY <1>1
<1>. QED BY <1>1, <1>2, PrefixIs

\* One event more makes the writer write something or nothing more.
LEMMA ConsumePrefix ==
  ASSUME NEW w \in Writer, ~w.done, NEW e \in Event, Consume(w, e) \in Writer,
         e.type = "delta" /\ e.kind = "call" => w.index[e.item] >= 0,
         e.type \in {"added", "delta"} => e.kind \in {"message", "call"}
  PROVE  IsPrefix(w.out, Consume(w, e).out)
<1>. DEFINE v == Consume(w, e)
<1>0. w.out \in Seq(Chunk) /\ v.out \in Seq(Chunk)
  BY DEF Writer
<1>1. ASSUME NEW c, Wrote(w, v, c)
      PROVE  IsPrefix(w.out, v.out)
  <2>1. PICK o, p : o = w.out /\ p = v.out
    OBVIOUS
  <2>2. o \in Seq(Chunk \cup {c}) /\ p = Append(o, c)
    BY <1>0, <1>1, <2>1 DEF Wrote
  <2>3. IsPrefix(o, Append(o, c))
    BY <2>2, PrefixAppend
  <2>. QED BY <2>1, <2>2, <2>3
<1>2. CASE e.type = "created" \/ (e.type = "delta" /\ e.kind = "message")
  BY <1>1, <1>2, ConsumePlain
<1>3. CASE e.type = "added" /\ e.kind = "call"
  BY <1>1, <1>3, ConsumeCall
<1>4. CASE e.type = "delta" /\ e.kind = "call"
  BY <1>1, <1>4, ConsumeArgs
<1>5. CASE (e.type = "added" /\ e.kind # "call") \/ e.type = "itemDone"
  <2>1. v = w
    BY <1>5, ConsumeNothing
  <2>. HIDE DEF v
  <2>2. IsPrefix(w.out, w.out)
    BY <1>0, PrefixSelf
  <2>. QED BY <2>1, <2>2 DEF v
<1>6. CASE e.type \in Ends \cup {"end"}
  <2>1. PICK f, d : v = [w EXCEPT !.done = TRUE, !.out = Append(Append(@, f), d)]
    BY <1>6, ConsumeEnd
  <2>2. PICK o, q, p : o = w.out /\ q = Append(o, f) /\ p = Append(q, d)
    OBVIOUS
  <2>3. o \in Seq(Chunk \cup {f, d}) /\ q \in Seq(Chunk \cup {f, d}) /\ v.out = p
        /\ p \in Seq(Chunk \cup {f, d})
    BY <1>0, <2>1, <2>2 DEF Writer
  <2>4. IsPrefix(o, Append(o, f)) /\ IsPrefix(q, Append(q, d))
    <3>1. PICK S : S = Chunk \cup {f, d}
      OBVIOUS
    <3>. QED BY <2>3, <3>1, PrefixAppend
  <2>5. IsPrefix(o, p)
    BY <2>2, <2>3, <2>4, PrefixTrans
  <2>. QED BY <2>2, <2>3, <2>5
<1>. QED BY <1>2, <1>3, <1>4, <1>5, <1>6 DEF Event

\* One more event that fits: the writer of a client that takes everything follows.
LEMMA GoodMore ==
  ASSUME NEW s, NEW e, Good(s), Fits(s, e)
  PROVE  /\ Good(Append(s, e)) /\ Ideal(Append(s, e)) = Consume(Ideal(s), e)
         /\ IsPrefix(Ideal(s).out, Ideal(Append(s, e)).out)
<1>1. s \in Seq(Event) /\ e \in Event /\ Ready(Ideal(s), s, e)
  BY DEF Good, WellFormed, Fits, Ready
<1>2. Ideal(Append(s, e)) = Consume(Ideal(s), e)
  BY <1>1, ConsumedMore DEF Ideal
<1>3. /\ e.type \in {"added", "delta"} => e.kind \in {"message", "call"}
      /\ e.type = "delta" /\ e.kind = "call" => Ideal(s).index[e.item] >= 0
  <2>1. e.type = "added" => e.kind \in {"message", "call"}
    BY DEF Fits
  <2>2. e.type = "delta" => e.kind \in {"message", "call"}
                            /\ (e.item \in CallsOf(s) <=> e.kind = "call")
    BY <1>1, AnnouncedCall DEF Fits, Ready
  <2>3. \A k \in CallsOf(s) : Ideal(s).index[k] >= 0
    BY <1>1, ReadyFacts DEF Ready, Tracks, IndexTrack
  <2>. QED BY <2>1, <2>2, <2>3
<1>4. Tracks(Consume(Ideal(s), e), Append(s, e))
  <2>1. CASE e.type = "created" \/ (e.type = "delta" /\ e.kind = "message")
    BY <1>1, <2>1, TracksPlain
  <2>2. CASE e.type = "added" /\ e.kind = "call"
    BY <1>1, <2>2, TracksCall
  <2>3. CASE e.type = "delta" /\ e.kind = "call"
    BY <1>1, <2>3, TracksArgs
  <2>4. CASE (e.type = "added" /\ e.kind # "call") \/ e.type = "itemDone"
    BY <1>1, <2>4, TracksNothing
  <2>5. CASE e.type \in Ends
    BY <1>1, <2>5, TracksEnd
  <2>. QED BY <1>1, <1>3, <2>1, <2>2, <2>3, <2>4, <2>5 DEF Event, Fits
<1>5. WellFormed(Append(s, e))
  BY <1>1, WellFormedMore DEF Good
<1>6. IsPrefix(Ideal(s).out, Consume(Ideal(s), e).out)
  <2>1. Ideal(s) \in Writer /\ ~Ideal(s).done
    BY <1>1, ReadyFacts
  <2>2. Consume(Ideal(s), e) \in Writer
    BY <1>4 DEF Tracks
  <2>. QED BY <1>1, <1>3, <2>1, <2>2, ConsumePrefix
<1>. QED BY <1>2, <1>4, <1>5, <1>6 DEF Good

Grown(s, evs) ==
  /\ evs \in Seq(Event) /\ Good(s \o evs)
  /\ Ideal(s \o evs) = Consumed(Ideal(s), evs)
  /\ IsPrefix(Ideal(s).out, Ideal(s \o evs).out)

LEMMA GoodFacts ==
  ASSUME NEW s, Good(s)
  PROVE  s \in Seq(Event) /\ Ideal(s) \in Writer /\ Ideal(s).out \in Seq(Chunk)
         /\ ~Ideal(s).err /\ Ideal(s).tail = <<>> /\ (Ideal(s).done <=> Ended(s))
BY DEF Good, WellFormed, Tracks, Writer, EndTrack

LEMMA GrownNone ==
  ASSUME NEW s, Good(s)
  PROVE  Grown(s, <<>>)
<1>1. s \in Seq(Event) /\ Ideal(s).out \in Seq(Chunk)
  BY GoodFacts
<1>2. s \o <<>> = s /\ <<>> \in Seq(Event)
  BY <1>1
<1>. QED BY <1>1, <1>2, ConsumedNone, PrefixSelf DEF Grown

LEMMA GrownMore ==
  ASSUME NEW s, NEW evs, NEW e, Good(s), Grown(s, evs), Fits(s \o evs, e)
  PROVE  Grown(s, Append(evs, e))
<1>1. s \in Seq(Event) /\ evs \in Seq(Event) /\ e \in Event /\ Good(s \o evs)
  BY GoodFacts DEF Grown, Fits
<1>2. s \o Append(evs, e) = Append(s \o evs, e) /\ Append(evs, e) \in Seq(Event)
  BY <1>1
<1>3. /\ Good(Append(s \o evs, e))
      /\ Ideal(Append(s \o evs, e)) = Consume(Ideal(s \o evs), e)
      /\ IsPrefix(Ideal(s \o evs).out, Ideal(Append(s \o evs, e)).out)
  BY <1>1, GoodMore
<1>4. Ideal(s \o Append(evs, e)) = Consumed(Ideal(s), Append(evs, e))
  BY <1>1, <1>2, <1>3, ConsumedMore DEF Grown
<1>5. IsPrefix(Ideal(s).out, Ideal(s \o Append(evs, e)).out)
  <2>1. /\ Ideal(s).out \in Seq(Chunk) /\ Ideal(s \o evs).out \in Seq(Chunk)
        /\ Ideal(Append(s \o evs, e)).out \in Seq(Chunk)
    BY <1>1, <1>3, GoodFacts
  <2>. QED BY <1>2, <1>3, <2>1, PrefixTrans DEF Grown
<1>. QED BY <1>2, <1>3, <1>4, <1>5 DEF Grown

-----------------------------------------------------------------------------
(* What is written                                                         *)

\* A write to a client that may be gone: all of it, or an initial part.
LEMMA WrittenIs ==
  ASSUME NEW evs, req.stream, ~chat.err, NEW w \in Written(evs),
         chat \in Writer, NEW all \in Writer, all = Consumed(chat, evs),
         IsPrefix(chat.out, all.out)
  PROVE  \/ w = all
         \/ /\ w \in Writer /\ w.err /\ w.tail = chat.tail /\ w.done = chat.done
            /\ IsPrefix(w.out, all.out) /\ all.out # chat.out
<1>1. all.out \in Seq(Chunk) /\ chat.out \in Seq(Chunk)
  BY DEF Writer
<1>2. Len(chat.out) \in Nat /\ Len(all.out) \in Nat
  BY <1>1
<1>3. SUFFICES ASSUME NEW n \in Len(chat.out)..(Len(all.out) - 1),
                      w = [chat EXCEPT !.err = TRUE, !.out = SubSeq(all.out, 1, n)]
               PROVE  /\ w \in Writer /\ w.err /\ w.tail = chat.tail /\ w.done = chat.done
                      /\ IsPrefix(w.out, all.out) /\ all.out # chat.out
  BY DEF Written, Blocked
<1>4. n \in 0..Len(all.out)
  BY <1>2
<1>5. SubSeq(all.out, 1, n) \in Seq(Chunk) /\ IsPrefix(SubSeq(all.out, 1, n), all.out)
  BY <1>1, <1>4, PrefixSub
<1>6. all.out # chat.out
  BY <1>2
<1>. QED BY <1>3, <1>5, <1>6 DEF Writer

\* While events come, the writer is that of a client that takes everything, or a write
\* has failed.
Following(w, evs) ==
  /\ w \in Writer /\ w.tail = <<>>
  /\ IF req.stream
       THEN w = Ideal(evs) \/ (w.err /\ ~w.done /\ IsPrefix(w.out, Ideal(evs).out))
       ELSE w = NewWriter

LEMMA WrittenFollows ==
  ASSUME Good(sent), Following(chat, sent), ~Ended(sent),
         NEW evs, Grown(sent, evs), NEW w \in Written(evs)
  PROVE  /\ Following(w, sent \o evs)
         /\ user = "there" /\ ~chat.err => ~w.err
<1>1. CASE ~req.stream
  BY <1>1 DEF Written, Following
<1>2. CASE req.stream /\ chat.err
  <2>1. w = chat
    BY <1>2 DEF Written, Blocked
  <2>2. chat # Ideal(sent)
    BY <1>2, GoodFacts
  <2>3. chat.out \in Seq(Chunk) /\ Ideal(sent).out \in Seq(Chunk) /\ Ideal(sent \o evs).out \in Seq(Chunk)
    BY GoodFacts DEF Following, Grown, Writer
  <2>4. IsPrefix(chat.out, Ideal(sent \o evs).out)
    BY <1>2, <2>2, <2>3, PrefixTrans DEF Following, Grown
  <2>. QED BY <1>2, <2>1, <2>2, <2>4 DEF Following
<1>3. CASE req.stream /\ ~chat.err
  <2>1. chat = Ideal(sent) /\ chat \in Writer /\ chat.tail = <<>> /\ ~chat.done
    BY <1>3, GoodFacts DEF Following
  <2>2. PICK all \in Writer : all = Consumed(chat, evs) /\ all = Ideal(sent \o evs)
    BY <2>1, GoodFacts DEF Grown
  <2>3. IsPrefix(chat.out, all.out)
    BY <2>1, <2>2 DEF Grown
  <2>4. \/ w = all
        \/ w \in Writer /\ w.err /\ w.tail = chat.tail /\ w.done = chat.done /\ IsPrefix(w.out, all.out)
    BY <1>3, <2>1, <2>2, <2>3, WrittenIs
  <2>5. all.tail = <<>> /\ ~all.err
    BY <2>2, GoodFacts DEF Grown
  <2>6. user = "there" => w = all
    BY <1>3, <2>2 DEF Written, Blocked
  <2>. QED BY <1>3, <2>1, <2>2, <2>4, <2>5, <2>6 DEF Following
<1>. QED BY <1>1, <1>2, <1>3

\* The invariant gives it while events may come, and follows from it.
LEMMA ChatFollows ==
  ASSUME TypeOK, Good(sent), ChatInv, chat.tail = <<>>, pc # "done"
  PROVE  Following(chat, sent)
<1>1. CASE ~req.stream
  BY <1>1 DEF ChatInv, TypeOK, Following
<1>2. ASSUME req.stream, NEW front \in Seq(Event), Good(front), InStep(front)
      PROVE  Following(chat, sent)
  <2>1. front = sent
    BY <1>2 DEF InStep
  <2>2. Ideal(sent) \in Writer /\ Ideal(sent).tail = <<>>
    BY GoodFacts
  <2>. QED BY <1>2, <2>1, <2>2 DEF InStep, Following, Writer
<1>3. CASE req.stream /\ Broken
  BY <1>3 DEF Broken, TypeOK, Following
<1>. QED BY <1>1, <1>2, <1>3 DEF ChatInv, Finished

LEMMA FollowsChat ==
  ASSUME Good(sent)', Following(chat, sent)'
  PROVE  ChatInv'
<1>1. CASE ~req'.stream
  BY <1>1 DEF ChatInv, Following
<1>2. CASE req'.stream /\ chat' # Ideal(sent')
  BY <1>2 DEF ChatInv, Following, Broken
<1>3. CASE req'.stream /\ chat' = Ideal(sent')
  <2>1. Good(sent')
    OBVIOUS
  <2>2. sent' \in Seq(Event) /\ Ideal(sent') \in Writer /\ Ideal(sent').tail = <<>> /\ ~Ideal(sent').err
    BY <2>1, GoodFacts
  <2>3. sent' = sent' \o chat'.tail /\ ~chat'.err /\ chat' = [Ideal(sent') EXCEPT !.tail = chat'.tail]
    BY <1>3, <2>2 DEF Writer
  <2>. QED BY <1>3, <2>1, <2>2, <2>3 DEF ChatInv, InStep
<1>. QED BY <1>1, <1>2, <1>3

LEMMA GrownOne ==
  ASSUME NEW s, NEW e, Good(s), Fits(s, e)
  PROVE  Grown(s, <<e>>)
<1>1. s \in Seq(Event)
  BY GoodFacts
<1>2. PICK none : none = <<>>
  OBVIOUS
<1>3. Append(none, e) = <<e>> /\ s \o none = s /\ Grown(s, none)
  BY <1>1, <1>2, GrownNone
<1>4. Grown(s, Append(none, e))
  BY <1>3, GrownMore
<1>. QED BY <1>3, <1>4

\* What is written of events that may come leaves the invariant's two main parts true.
LEMMA ChatKept ==
  ASSUME TypeOK, Good(sent), ChatInv, chat.tail = <<>>, pc # "done", ~Ended(sent),
         NEW evs, Grown(sent, evs), chat' \in Written(evs), sent' = sent \o evs, req' = req
  PROVE  /\ Good(sent)' /\ ChatInv' /\ chat' \in Writer /\ chat'.tail = <<>>
         /\ user = "there" /\ ~chat.err => ~chat'.err
<1>1. Following(chat, sent)
  BY ChatFollows
<1>2. PICK w \in Written(evs) : w = chat'
  OBVIOUS
<1>3. Following(w, sent \o evs) /\ (user = "there" /\ ~chat.err => ~w.err)
  BY <1>1, WrittenFollows
<1>4. Following(chat, sent)' /\ chat' \in Writer /\ chat'.tail = <<>>
  BY <1>2, <1>3 DEF Following
<1>5. Good(sent)'
  BY DEF Grown
<1>. QED BY <1>2, <1>3, <1>4, <1>5, FollowsChat

\* An item in the output has one kind.
LEMMA KindFacts ==
  ASSUME NEW s, WellFormed(s), NEW item \in Added(s)
  PROVE  /\ KindOf(s, item) \in {"message", "call"}
         /\ KindOf(s, item) = "call" <=> item \in CallsOf(s)
         /\ \A e : e.item = item /\ e.kind = KindOf(s, item) => Announced(s, e)
         /\ item \in Items
<1>1. \E i \in Where(s, "added") : s[i].item = item
  BY DEF Added, ItemsOf
<1>2. PICK c \in Where(s, "added") : s[c].item = item /\ KindOf(s, item) = s[c].kind
  BY <1>1 DEF KindOf
<1>3. \A i \in Where(s, "added") : s[i].item = item => i = c
  BY <1>2 DEF WellFormed
<1>4. s[c].kind \in {"message", "call"} /\ item \in Items
  BY DEF WellFormed
<1>5. s[c].kind = "call" <=> item \in CallsOf(s)
  BY <1>2, <1>3 DEF CallsOf
<1>6. \A e : e.item = item /\ e.kind = KindOf(s, item) => Announced(s, e)
  BY <1>2 DEF Announced
<1>. QED BY <1>2, <1>4, <1>5, <1>6

LEMMA OverIsEnded ==
  ASSUME Good(sent)
  PROVE  Over <=> Ended(sent)
BY DEF Over, Ended, Where

\* Until an end there is no completion.
LEMMA EndedFirst ==
  ASSUME NEW s \in Seq(Event), ~Ended(s)
  PROVE  Where(s, "completed") = {}
BY DEF Ended, Where, Ends

\* One event after the others decides, if it is an end.
LEMMA EndedByOne ==
  ASSUME NEW s \in Seq(Event), NEW e \in Event, ~Ended(s)
  PROVE  /\ Where(Append(s, e), "completed") # {} <=> e.type = "completed"
         /\ Ended(Append(s, e)) <=> e.type \in Ends
<1>1. Where(s, "completed") = {}
  BY EndedFirst
<1>2. Where(Append(s, e), "completed")
        = Where(s, "completed") \cup (IF e.type = "completed" THEN {Len(s) + 1} ELSE {})
  BY WhereMore
<1>. QED BY <1>1, <1>2, EndedMore

LEMMA EmptyFits ==
  ASSUME NEW e \in Event, e.type = "created"
  PROVE  Fits(<<>>, e)
BY DEF Fits, Ended, Ends

\* ChatGPT sends what may follow.
LEMMA CodexFits ==
  ASSUME Good(sent), NEW e \in CodexEvents
  PROVE  Fits(sent, e)
<1>1. WellFormed(sent) /\ sent \in Seq(Event)
  BY DEF Good, WellFormed
<1>2. CASE sent = <<>>
  <2>1. e = Plain("created")
    BY <1>2 DEF CodexEvents
  <2>2. e \in Event /\ e.type = "created"
    BY <2>1 DEF Plain, Event
  <2>. QED BY <1>2, <2>2, EmptyFits
<1>3. CASE sent # <<>> /\ ~Ended(sent)
  <2>. DEFINE open == ItemsOf(sent, "added") \ ItemsOf(sent, "itemDone")
  <2>0. ~Over
    BY <1>3, OverIsEnded
  <2>1. ASSUME NEW k \in {"message", "call"}, NextItem \in Items,
               e = [type |-> "added", item |-> NextItem, kind |-> k]
        PROVE  Fits(sent, e)
    <3>1. e \in Event /\ e.type = "added" /\ e.kind = k /\ e.item = NextItem
      BY <2>1 DEF Event
    <3>. QED BY <1>3, <2>1, <3>1 DEF Fits, NextItem, Added, Ends
  <2>2. ASSUME NEW i \in open, NEW type \in {"delta", "itemDone"},
               e = [type |-> type, item |-> i, kind |-> KindOf(sent, i)]
        PROVE  Fits(sent, e)
    <3>1. i \in Added(sent)
      BY DEF Added
    <3>2. KindOf(sent, i) \in {"message", "call"} /\ i \in Items /\ Announced(sent, e)
      BY <1>1, <2>2, <3>1, KindFacts
    <3>3. e \in Event /\ e.type \in {"delta", "itemDone"}
      BY <2>2, <3>2 DEF Event
    <3>. QED BY <1>3, <3>2, <3>3 DEF Fits, Ends
  <2>3. ASSUME NEW type \in {"failed", "incomplete"}, e = Plain(type)
        PROVE  Fits(sent, e)
    <3>1. e \in Event /\ e.type = type
      BY <2>3 DEF Plain, Event, Ends
    <3>. QED BY <1>3, <2>3, <3>1 DEF Fits, Ends
  <2>4. ASSUME NEW kind \in {"full", "empty"}, open = {}, e = Completed(kind)
        PROVE  Fits(sent, e)
    <3>1. e \in Event /\ e.type = "completed"
      BY <2>4 DEF Completed, Event, Ends
    <3>2. Added(sent) \subseteq ItemsOf(sent, "itemDone")
      BY <2>4 DEF Added
    <3>. QED BY <1>3, <3>1, <3>2 DEF Fits, Ends
  <2>. HIDE DEF open
  <2>. QED BY <1>3, <2>0, <2>1, <2>2, <2>3, <2>4 DEF CodexEvents, open
<1>4. CASE sent # <<>> /\ Ended(sent)
  BY <1>4, OverIsEnded DEF CodexEvents
<1>. QED BY <1>2, <1>3, <1>4

-----------------------------------------------------------------------------
(* The steps                                                               *)

LEMMA InitInv == Init => Inv
<1>. SUFFICES ASSUME Init
              PROVE  Inv
  OBVIOUS
<1>0. MaxItems \in Nat
  BY StreamAssumption
<1>1. PICK none : none = <<>>
  OBVIOUS
<1>2. none \in Seq(Event) /\ none \in Seq(Chunk) /\ DOMAIN none = {} /\ Len(none) = 0
  BY <1>1
<1>3. NewWriter \in Writer
  BY <1>0, <1>1, <1>2 DEF NewWriter, Writer
<1>4. TypeOK
  BY <1>1, <1>2, <1>3 DEF Init, TypeOK, Untold, Answer
<1>5. Ideal(none) = NewWriter
  BY <1>1, ConsumedNone DEF Ideal
<1>6. \A type : Where(none, type) = {} /\ ItemsOf(none, type) = {}
  BY <1>2 DEF Where, ItemsOf
<1>7. CallsOf(none) = {} /\ Added(none) = {} /\ Texts(none) = {} /\ ~Ended(none)
      /\ Cardinality(Added(none)) = 0 /\ Cardinality(Texts(none)) = 0
  BY <1>2, <1>6, FS_EmptySet DEF CallsOf, Added, Texts, Ended
<1>8. WellFormed(none)
  <2>1. Added(none) = 1..Cardinality(Added(none)) /\ Added(none) \subseteq Items
    BY <1>7
  <2>. QED BY <1>2, <1>6, <2>1 DEF WellFormed
<1>9. Tracks(NewWriter, none)
  <2>1. NewWriter.out = none /\ ~NewWriter.err /\ NewWriter.tail = <<>> /\ ~NewWriter.done
        /\ ~NewWriter.tool /\ NewWriter.next = 0
    BY <1>1 DEF NewWriter
  <2>2. Cardinality(Where(none, "text")) = 0
    BY <1>6, FS_EmptySet
  <2>. QED BY <1>2, <1>3, <1>6, <1>7, <2>1, <2>2
       DEF Tracks, IndexTrack, CallTrack, ArgsTrack, TextTrack, EndTrack
<1>10. Good(sent) /\ Following(chat, sent)
  BY <1>1, <1>3, <1>5, <1>8, <1>9 DEF Good, Following, Init, NewWriter
<1>11. ChatInv
  <2>1. sent \in Seq(Event) /\ sent = sent \o chat.tail
    BY <1>1, <1>2 DEF Init, NewWriter
  <2>2. chat = Ideal(sent) /\ ~chat.err /\ chat = [chat EXCEPT !.tail = chat.tail]
    BY <1>1, <1>5 DEF Init, NewWriter
  <2>. QED BY <1>10, <2>1, <2>2 DEF ChatInv, InStep, Init
<1>12. PhaseInv
  BY <1>1, <1>2, <1>6, <1>7 DEF Init, PhaseInv, Untold, NewWriter
<1>13. LogInv
  BY <1>2 DEF Init, LogInv, Untold, Ends, Where
<1>. QED BY <1>4, <1>10, <1>11, <1>12, <1>13 DEF Inv, OnlyCompletedAnswered, Init, Untold

\* While events come.
LEMMA Streaming ==
  ASSUME Inv, pc = "streaming"
  PROVE  /\ TypeOK /\ Good(sent) /\ ChatInv /\ chat.tail = <<>> /\ pc # "done"
         /\ sent \in Seq(Event) /\ answer.status = "none" /\ trace.outcome = "none"
         /\ ~cca.failed /\ ~trace.readError
BY DEF Inv, PhaseInv, TypeOK

LEMMA RelayInv ==
  ASSUME Inv, Relay
  PROVE  Inv'
<1>1. PICK e \in CodexEvents, eof \in BOOLEAN : \E w \in Written(<<e>>) :
       /\ sent' = Append(sent, e)
       /\ chat' = w
       /\ trace' = [trace EXCEPT !.semantic = Observed(@, e), !.eof = eof, !.writeError = w.err]
       /\ pc' = IF w.err THEN "aborting" ELSE IF eof THEN "served" ELSE "streaming"
  BY DEF Relay
<1>2. /\ TypeOK /\ Good(sent) /\ ChatInv /\ chat.tail = <<>> /\ pc # "done"
      /\ sent \in Seq(Event) /\ answer.status = "none" /\ trace.outcome = "none"
      /\ ~cca.failed /\ ~trace.readError
  BY Streaming DEF Relay
<1>3. Fits(sent, e) /\ e \in Event /\ ~Ended(sent) /\ Grown(sent, <<e>>)
  BY <1>2, CodexFits, GrownOne DEF Fits
<1>4. chat' \in Written(<<e>>) /\ sent' = sent \o <<e>> /\ req' = req
  <2>1. Append(sent, e) = sent \o <<e>>
    BY <1>2, <1>3
  <2>. QED BY <1>1, <2>1 DEF Relay
<1>5. /\ Good(sent)' /\ ChatInv' /\ chat' \in Writer /\ chat'.tail = <<>>
      /\ user = "there" /\ ~chat.err => ~chat'.err
  BY <1>2, <1>3, <1>4, ChatKept
<1>6. TypeOK'
  <2>1. sent' \in Seq(Event)
    BY <1>5, GoodFacts DEF Good, WellFormed
  <2>2. trace' \in [semantic : {"unobserved"} \cup Ends, eof : BOOLEAN, readError : BOOLEAN,
                writeError : BOOLEAN,
                outcome : {"none", "client_cancel", "upstream_read_error",
                           "downstream_write_error", "body_eof", "unknown"}]
    <3>1. Observed(trace.semantic, e) \in {"unobserved"} \cup Ends
      BY <1>2 DEF Observed, TypeOK
    <3>2. chat'.err \in BOOLEAN
      BY <1>5 DEF Writer
    <3>. QED BY <1>1, <1>2, <3>1, <3>2 DEF TypeOK
  <2>3. pc' \in {"aborting", "served", "streaming"}
    BY <1>1
  <2>. QED BY <1>2, <1>5, <2>1, <2>2, <2>3 DEF TypeOK, Relay
<1>7. PhaseInv'
  <2>1. trace'.outcome = "none" /\ ~trace'.readError /\ (chat'.err => pc' = "aborting")
    BY <1>1, <1>2 DEF TypeOK
  <2>2. pc' \in {"aborting", "served", "streaming"} /\ req'.provider = "codex" /\ req.provider = "codex"
    BY <1>1 DEF Relay
  <2>3. ~cca'.failed /\ answer'.status = "none" /\ Len(chat'.tail) <= 1
    BY <1>2, <1>5 DEF Relay
  <2>4. user' = "there" => ~chat'.err
    BY <1>5 DEF Relay, Inv, PhaseInv
  <2>. QED BY <1>5, <2>1, <2>2, <2>3, <2>4 DEF PhaseInv
<1>8. OnlyCompletedAnswered'
  BY <1>1, <1>2 DEF OnlyCompletedAnswered, Relay, TypeOK
<1>9. LogInv'
  <2>1. trace.semantic = "unobserved" /\ req'.provider = "codex"
    BY <1>3 DEF Relay, Inv, LogInv
  <2>2. /\ trace'.semantic = IF e.type \in Ends THEN e.type ELSE "unobserved"
        /\ trace'.outcome = "none" /\ trace'.eof = eof /\ trace'.writeError = chat'.err
    BY <1>1, <1>2, <2>1 DEF Observed, TypeOK
  <2>3. /\ Where(sent', "completed") # {} <=> e.type = "completed"
        /\ Ended(sent') <=> e.type \in Ends
    BY <1>1, <1>2, <1>3, EndedByOne
  <2>4. /\ pc' = IF chat'.err THEN "aborting" ELSE IF eof THEN "served" ELSE "streaming"
        /\ answer'.status = "none"
    BY <1>1, <1>2 DEF Relay
  <2>. QED BY <1>5, <2>1, <2>2, <2>3, <2>4 DEF LogInv, Ends
<1>. QED BY <1>5, <1>6, <1>7, <1>8, <1>9 DEF Inv

\* What leaves the events and the chunks alone.
LEMMA ChatSame ==
  ASSUME ChatInv, pc # "done", UNCHANGED <<req, sent, chat>>
  PROVE  ChatInv'
<1>1. ASSUME req.stream, NEW front \in Seq(Event), Good(front), InStep(front)
      PROVE  ChatInv'
  <2>1. InStep(front)'
    BY <1>1 DEF InStep
  <2>. QED BY <1>1, <2>1 DEF ChatInv
<1>2. CASE req.stream /\ Broken
  BY <1>2 DEF ChatInv, Broken
<1>. QED BY <1>1, <1>2 DEF ChatInv, Finished

\* A frame that is still in the buffer.
LEMMA ChatTail ==
  ASSUME TypeOK, Good(sent), ChatInv, ~chat.err, chat.tail = <<>>, pc # "done", req' = req,
         NEW tail \in Seq(Event), sent' = sent \o tail,
         chat' = IF req.stream THEN [chat EXCEPT !.tail = tail] ELSE chat
  PROVE  ChatInv' /\ chat' \in Writer /\ ~chat'.err /\ chat'.tail \in {tail, <<>>}
<1>1. CASE ~req.stream
  BY <1>1 DEF ChatInv, TypeOK
<1>2. CASE req.stream
  <2>1. chat = Ideal(sent)
    BY <1>2, ChatFollows DEF Following
  <2>2. chat' \in Writer /\ chat'.tail = tail /\ ~chat'.err
    BY <1>2 DEF TypeOK, Writer
  <2>3. chat' = [Ideal(sent) EXCEPT !.tail = chat'.tail]
    BY <1>2, <2>1, <2>2
  <2>4. PICK front \in Seq(Event) : front = sent
    BY DEF TypeOK
  <2>5. Good(front) /\ InStep(front)'
    BY <2>2, <2>3, <2>4 DEF InStep
  <2>. QED BY <1>2, <2>2, <2>5 DEF ChatInv
<1>. QED BY <1>1, <1>2

LEMMA RelayEndInv ==
  ASSUME Inv, RelayEnd
  PROVE  Inv'
<1>1. PICK tail \in {<<>>} \cup {<<e>> : e \in CodexEvents} :
       /\ sent' = sent \o tail
       /\ chat' = IF req.stream THEN [chat EXCEPT !.tail = tail] ELSE chat
  BY DEF RelayEnd
<1>2. /\ TypeOK /\ Good(sent) /\ ChatInv /\ chat.tail = <<>> /\ pc # "done"
      /\ sent \in Seq(Event) /\ answer.status = "none" /\ trace.outcome = "none"
      /\ ~cca.failed /\ ~trace.readError
  BY Streaming DEF RelayEnd
<1>3. Grown(sent, tail) /\ Len(tail) <= 1
  <2>1. CASE tail = <<>>
    BY <1>2, <2>1, GrownNone
  <2>2. ASSUME NEW e \in CodexEvents, tail = <<e>>
        PROVE  Grown(sent, tail) /\ Len(tail) <= 1
    BY <1>2, <2>2, CodexFits, GrownOne
  <2>. QED BY <1>1, <2>1, <2>2
<1>4. Good(sent)' /\ tail \in Seq(Event) /\ sent' \in Seq(Event)
  BY <1>1, <1>3 DEF Grown, Good, WellFormed
<1>5. ~chat.err
  BY DEF RelayEnd, Inv, PhaseInv
<1>6. ChatInv' /\ chat' \in Writer /\ ~chat'.err /\ chat'.tail \in {tail, <<>>}
  <2>1. req' = req
    BY DEF RelayEnd
  <2>. QED BY <1>1, <1>2, <1>4, <1>5, <2>1, ChatTail
<1>7. TypeOK'
  BY <1>2, <1>4, <1>6 DEF TypeOK, RelayEnd
<1>8. PhaseInv'
  <2>1. trace'.outcome = "none" /\ ~trace'.readError /\ pc' = "served" /\ req'.provider = "codex"
    BY <1>2 DEF TypeOK, RelayEnd
  <2>2. ~cca'.failed /\ answer'.status = "none" /\ Len(chat'.tail) <= 1
    BY <1>2, <1>3, <1>6 DEF RelayEnd
  <2>. QED BY <1>6, <2>1, <2>2 DEF PhaseInv
<1>9. OnlyCompletedAnswered'
  BY <1>2 DEF OnlyCompletedAnswered, RelayEnd, TypeOK
<1>10. LogInv'
  <2>1. /\ trace' = [trace EXCEPT !.eof = TRUE] /\ pc' = "served" /\ req' = req
        /\ answer' = answer /\ ~trace.writeError /\ LogInv /\ req.provider = "codex"
    BY DEF RelayEnd, Inv, LogInv
  <2>2. trace'.semantic = trace.semantic /\ trace'.eof /\ ~trace'.writeError /\ trace'.outcome = "none"
    BY <1>2, <2>1 DEF TypeOK
  <2>3. CASE trace.semantic = "unobserved"
    BY <1>2, <2>1, <2>2, <2>3 DEF LogInv
  <2>4. CASE trace.semantic # "unobserved"
    <3>1. Ended(sent)
      BY <2>1, <2>4 DEF LogInv
    <3>2. tail = <<>>
      BY <1>1, <1>2, <3>1, CodexFits DEF Fits
    <3>3. sent' = sent /\ chat'.tail = <<>>
      BY <1>1, <1>2, <1>6, <3>2
    <3>. QED BY <1>2, <2>1, <2>2, <3>1, <3>3 DEF LogInv
  <2>. QED BY <2>3, <2>4
<1>. QED BY <1>4, <1>6, <1>7, <1>8, <1>9, <1>10 DEF Inv

LEMMA ReadErrorInv ==
  ASSUME Inv, ReadError
  PROVE  Inv'
<1>2. /\ TypeOK /\ Good(sent) /\ ChatInv /\ chat.tail = <<>> /\ pc # "done"
      /\ sent \in Seq(Event) /\ answer.status = "none" /\ trace.outcome = "none"
      /\ ~cca.failed /\ ~trace.readError
  BY Streaming DEF ReadError
<1>3. Good(sent)' /\ ChatInv'
  BY <1>2, ChatSame DEF ReadError
<1>4. TypeOK'
  BY <1>2 DEF TypeOK, ReadError, Ends
<1>5. PhaseInv'
  <2>1. trace'.outcome = "none" /\ pc' \in {"aborting", "served"}
        /\ (req.provider = "codex" => pc' = "aborting")
    BY <1>2 DEF TypeOK, ReadError
  <2>2. req.provider = "google" => Where(sent, "completed") = {}
    <3>1. req.provider = "google" => ~Ended(sent)
      BY DEF ReadError, Inv, PhaseInv
    <3>. QED BY <1>2, <3>1, EndedFirst
  <2>3. chat' = chat /\ sent' = sent /\ req' = req /\ cca'.message = cca.message /\ answer' = answer
    BY <1>2 DEF ReadError, TypeOK
  <2>4. req.provider \in {"codex", "google"} /\ user' = user
    BY <1>2 DEF TypeOK, ReadError
  <2>. QED BY <1>2, <2>1, <2>2, <2>3, <2>4 DEF Inv, PhaseInv
<1>6. OnlyCompletedAnswered'
  BY <1>2 DEF OnlyCompletedAnswered, ReadError, TypeOK
<1>7. LogInv'
  <2>1. /\ trace'.readError /\ trace'.writeError = trace.writeError /\ trace'.outcome = "none"
        /\ trace'.semantic = IF req.provider = "codex" THEN trace.semantic ELSE "failed"
        /\ pc' = IF req.provider = "codex" THEN "aborting" ELSE "served"
    BY <1>2 DEF ReadError, TypeOK
  <2>2. UNCHANGED <<req, user, sent, chat, answer>> /\ LogInv
    BY DEF ReadError, Inv
  <2>3. req.provider = "google" => Where(sent, "completed") = {}
    BY <1>2, EndedFirst DEF ReadError, Inv, PhaseInv
  <2>4. req.provider \in {"codex", "google"}
    BY <1>2 DEF TypeOK
  <2>. QED BY <1>2, <2>1, <2>2, <2>3, <2>4 DEF LogInv
<1>. QED BY <1>3, <1>4, <1>5, <1>6, <1>7 DEF Inv

LEMMA EndEventInv ==
  ASSUME Inv, EndEvent
  PROVE  Inv'
<1>1. Good(sent)' /\ ChatInv'
  BY ChatSame DEF EndEvent, Inv
<1>2. Outcome(trace) \in {"client_cancel", "upstream_read_error",
                          "downstream_write_error", "body_eof", "unknown"}
  BY DEF Outcome
<1>3. TypeOK'
  BY <1>2 DEF TypeOK, EndEvent, Inv
<1>4. PhaseInv'
  BY DEF EndEvent, Inv, PhaseInv, TypeOK
<1>5. OnlyCompletedAnswered'
  BY DEF EndEvent, Inv, PhaseInv, OnlyCompletedAnswered
<1>6. /\ trace'.outcome = IF req.provider = "codex" THEN Outcome(trace)
                          ELSE IF cca.failed THEN "upstream_read_error" ELSE "body_eof"
      /\ trace'.semantic = trace.semantic
      /\ UNCHANGED <<req, user, sent, cca, chat, answer>>
      /\ pc \in {"served", "aborting"} /\ pc' = IF pc = "served" THEN "answering" ELSE "done"
      /\ req.provider \in {"codex", "google"} /\ answer.status = "none"
  BY DEF EndEvent, Inv, TypeOK, PhaseInv
<1>7. ASSUME trace'.outcome = "body_eof"
      PROVE  pc = "served" /\ (req.provider = "codex" \/ user = "there" => ~chat.err)
  <2>1. CASE req.provider = "codex"
    BY <1>6, <1>7, <2>1 DEF Outcome, Inv, LogInv, PhaseInv
  <2>2. CASE req.provider = "google"
    BY <1>6, <1>7, <2>2 DEF Inv, LogInv, PhaseInv
  <2>. QED BY <1>6, <2>1, <2>2
<1>8. ASSUME req.stream, ~chat.err, trace.semantic = "completed"
      PROVE  chat.done
  <2>1. PICK front \in Seq(Event) : Good(front) /\ InStep(front)
    BY <1>6, <1>8 DEF Inv, ChatInv, Broken, Finished
  <2>2. chat.tail = <<>>
    BY <1>6, <1>8 DEF Inv, LogInv, PhaseInv
  <2>3. front = sent
    BY <2>1, <2>2 DEF InStep
  <2>4. Ended(sent)
    BY <1>8 DEF Inv, LogInv, Ended, Where, Ends
  <2>5. chat.done = Ideal(sent).done
    BY <2>1, <2>3, GoodFacts DEF InStep, Writer
  <2>. QED BY <2>1, <2>3, <2>4, <2>5, GoodFacts
<1>9. pc = "served" /\ Where(sent, "completed") # {} =>
        trace'.outcome \in {"body_eof", "client_cancel"}
  <2>1. pc = "served" /\ Where(sent, "completed") # {} => ~cca.failed /\ ~trace.readError
    BY DEF Inv, PhaseInv
  <2>2. pc = "served" /\ req.provider = "codex" =>
          ~trace.writeError /\ (trace.eof \/ trace.readError)
    BY DEF Inv, LogInv
  <2>. QED BY <1>6, <2>1, <2>2 DEF Outcome
<1>10. LogInv'
  <2>1. LogInv
    BY DEF Inv
  <2>. QED BY <1>6, <1>7, <1>8, <1>9, <2>1 DEF LogInv
<1>. QED BY <1>1, <1>3, <1>4, <1>5, <1>10 DEF Inv

LEMMA LeaveInv ==
  ASSUME Inv, Leave
  PROVE  Inv'
<1>1. Good(sent)' /\ ChatInv'
  BY ChatSame DEF Leave, Inv
<1>2. TypeOK'
  BY DEF TypeOK, Leave, Inv
<1>3. PhaseInv'
  BY DEF Leave, Inv, PhaseInv
<1>4. OnlyCompletedAnswered'
  BY DEF Leave, Inv, OnlyCompletedAnswered
<1>5. LogInv'
  BY DEF Leave, Inv, LogInv
<1>. QED BY <1>1, <1>2, <1>3, <1>4, <1>5 DEF Inv

LEMMA RejectInv ==
  ASSUME Inv, Reject
  PROVE  Inv'
<1>1. Good(sent)' /\ ChatInv'
  BY ChatSame DEF Reject, Inv
<1>2. TypeOK'
  <2>1. Untold("error") \in Answer /\ Untold("error").status = "error"
    BY DEF Untold, Answer
  <2>. QED BY <2>1 DEF TypeOK, Reject, Inv
<1>3. PhaseInv'
  BY DEF Reject, Inv, PhaseInv
<1>4. OnlyCompletedAnswered'
  BY DEF Reject, Inv, PhaseInv, OnlyCompletedAnswered, Untold
<1>5. LogInv'
  BY DEF Reject, Inv, PhaseInv, LogInv, Untold
<1>. QED BY <1>1, <1>2, <1>3, <1>4, <1>5 DEF Inv

\* The translator's steps have this in common.
Message(item) == [type |-> "delta", item |-> item, kind |-> "message"]

LEMMA TranslateInv ==
  ASSUME Inv, NEW evs, NEW state, NEW next, Translate(evs, state, next), Grown(sent, evs),
         pc \in {"open", "streaming"}, req.provider = "google",
         state \in [data : BOOLEAN, terminal : BOOLEAN, message : Items \cup {0}, failed : BOOLEAN],
         next \in {"streaming", "served"},
         next = "streaming" => ~Ended(sent \o evs) /\ ~state.failed,
         next = "served" => (state.failed <=> Where(sent \o evs, "completed") = {}),
         state.message # 0 => Announced(sent \o evs, Message(state.message))
  PROVE  Inv'
<1>1. /\ TypeOK /\ Good(sent) /\ ChatInv /\ chat.tail = <<>> /\ pc # "done" /\ ~Ended(sent)
      /\ answer.status = "none" /\ trace.outcome = "none" /\ ~trace.readError
  BY DEF Inv, PhaseInv
<1>2. /\ Good(sent)' /\ ChatInv' /\ chat' \in Writer /\ chat'.tail = <<>>
      /\ user' = "there" => ~chat'.err
  <2>1. chat' \in Written(evs) /\ sent' = sent \o evs /\ req' = req /\ user' = user
    BY DEF Translate
  <2>2. user = "there" => ~chat.err
    BY DEF Inv, PhaseInv
  <2>. QED BY <1>1, <2>1, <2>2, ChatKept
<1>3. trace' \in [semantic : {"unobserved"} \cup Ends, eof : BOOLEAN, readError : BOOLEAN,
                  writeError : BOOLEAN,
                  outcome : {"none", "client_cancel", "upstream_read_error",
                             "downstream_write_error", "body_eof", "unknown"}]
      /\ trace'.outcome = "none" /\ ~trace'.readError
  <2>1. CASE next # "served"
    BY <1>1, <2>1 DEF Translate, TypeOK
  <2>2. CASE next = "served"
    <3>1. PICK semantic, eof : semantic \in {"failed", "completed"} /\ eof \in BOOLEAN
            /\ trace' = [trace EXCEPT !.semantic = semantic, !.eof = eof]
      BY <2>2 DEF Translate
    <3>. QED BY <1>1, <3>1 DEF TypeOK, Ends
  <2>. QED BY <2>1, <2>2
<1>4. sent' \in Seq(Event)
  BY <1>2 DEF Good, WellFormed
<1>5. TypeOK'
  BY <1>1, <1>2, <1>3, <1>4 DEF TypeOK, Translate
<1>6. PhaseInv'
  <2>1. /\ sent' = sent \o evs /\ pc' = next /\ req' = req /\ cca' = state /\ answer' = answer
    BY DEF Translate
  <2>2. Len(chat'.tail) <= 1
    BY <1>2
  <2>. QED BY <1>1, <1>2, <1>3, <2>1, <2>2 DEF PhaseInv, Message
<1>7. OnlyCompletedAnswered'
  BY <1>1, <1>3 DEF OnlyCompletedAnswered, Translate
<1>8. LogInv'
  <2>1. /\ sent' = sent \o evs /\ pc' = next /\ req' = req /\ answer' = answer /\ LogInv
    BY DEF Translate, Inv
  <2>2. CASE next # "served"
    <3>1. trace' = trace /\ pc' = "streaming"
      BY <2>1, <2>2 DEF Translate
    <3>2. ~Ended(sent \o evs) /\ sent \o evs \in Seq(Event)
      BY <2>2, GoodFacts DEF Grown
    <3>3. Where(sent, "completed") = {} /\ Where(sent \o evs, "completed") = {}
      BY <1>1, <3>2, EndedFirst DEF TypeOK
    <3>. QED BY <1>1, <2>1, <3>1, <3>3 DEF LogInv
  <2>3. CASE next = "served"
    <3>1. PICK semantic, eof : /\ trace' = [trace EXCEPT !.semantic = semantic, !.eof = eof]
                              /\ semantic = IF state.failed THEN "failed" ELSE "completed"
      BY <2>3 DEF Translate
    <3>2. trace'.semantic = semantic
      BY <1>1, <3>1 DEF TypeOK
    <3>3. semantic = "completed" <=> Where(sent \o evs, "completed") # {}
      BY <2>3, <3>1
    <3>. QED BY <1>1, <1>3, <2>1, <2>3, <3>1, <3>2, <3>3 DEF LogInv
  <2>. QED BY <2>2, <2>3
<1>. QED BY <1>2, <1>5, <1>6, <1>7, <1>8 DEF Inv

\* One event more, and it is no end.
LEMMA GrownOpen ==
  ASSUME NEW s, NEW evs, NEW e, Good(s), Grown(s, evs), ~Ended(s \o evs), Fits(s \o evs, e)
  PROVE  /\ Grown(s, Append(evs, e)) /\ s \o Append(evs, e) = Append(s \o evs, e)
         /\ e.type \notin Ends => ~Ended(s \o Append(evs, e))
         /\ e.type = "completed" <=> Where(s \o Append(evs, e), "completed") # {}
         /\ \A x : Announced(s \o evs, x) => Announced(s \o Append(evs, e), x)
         /\ e.type = "added" =>
              \A x : x.item = e.item /\ x.kind = e.kind => Announced(s \o Append(evs, e), x)
<1>1. s \in Seq(Event) /\ evs \in Seq(Event) /\ e \in Event /\ s \o evs \in Seq(Event)
  BY GoodFacts DEF Grown, Fits
<1>2. s \o Append(evs, e) = Append(s \o evs, e)
  BY <1>1
<1>3. Grown(s, Append(evs, e))
  BY GrownMore
<1>4. PICK t \in Seq(Event) : t = s \o evs
  BY <1>1
<1>5. Ended(Append(t, e)) <=> Ended(t) \/ e.type \in Ends
  BY <1>1, EndedMore
<1>6. e.type = "completed" <=> Where(Append(t, e), "completed") # {}
  BY <1>1, <1>4, EndedByOne
<1>7. \A x : Announced(t, x) => Announced(Append(t, e), x)
  BY <1>1, AnnouncedMore
<1>8. ASSUME e.type = "added", NEW x, x.item = e.item, x.kind = e.kind
      PROVE  Announced(Append(t, e), x)
  <2>1. Len(t) + 1 \in DOMAIN Append(t, e) /\ Append(t, e)[Len(t) + 1] = e
    BY <1>1
  <2>2. Len(t) + 1 \in Where(Append(t, e), "added")
    BY <1>8, <2>1 DEF Where
  <2>. QED BY <1>8, <2>1, <2>2 DEF Announced
<1>. QED BY <1>2, <1>3, <1>4, <1>5, <1>6, <1>7, <1>8

LEMMA AcceptInv ==
  ASSUME Inv, Accept
  PROVE  Inv'
<1>0. TypeOK /\ Good(sent) /\ ChatInv
  BY DEF Inv
<1>1. CASE req.provider = "google"
  <2>. DEFINE e == Plain("created")
  <2>1. sent = <<>> /\ cca \in [data : BOOLEAN, terminal : BOOLEAN, message : Items \cup {0}, failed : BOOLEAN]
        /\ ~cca.failed /\ ~Ended(sent)
    BY <1>1 DEF Accept, Inv, PhaseInv, TypeOK
  <2>2. e \in Event /\ e.type = "created"
    BY DEF Plain, Event
  <2>3. Translate(<<e>>, cca, "streaming") /\ pc \in {"open", "streaming"}
    BY <1>1 DEF Accept
  <2>. HIDE DEF e
  <2>4. Fits(sent, e)
    BY <2>1, <2>2, EmptyFits
  <2>5. Grown(sent, <<e>>)
    BY <1>0, <2>4, GrownOne
  <2>6. sent \in Seq(Event) /\ sent \o <<e>> = Append(sent, e)
    BY <1>0, <2>2 DEF TypeOK
  <2>7. ~Ended(sent \o <<e>>)
    <3>1. e.type \notin Ends
      BY <2>2 DEF Ends
    <3>2. Ended(Append(sent, e)) <=> Ended(sent) \/ e.type \in Ends
      BY <2>2, <2>6, EndedMore
    <3>. QED BY <2>1, <2>6, <3>1, <3>2
  <2>8. cca.message # 0 => Announced(sent \o <<e>>, Message(cca.message))
    <3>1. cca.message # 0 => Announced(sent, Message(cca.message))
      BY <1>1 DEF Inv, PhaseInv, Message
    <3>. QED BY <2>2, <2>6, <3>1, AnnouncedMore
  <2>9. PICK next : next = "streaming"
    OBVIOUS
  <2>10. Translate(<<e>>, cca, next) /\ next \in {"streaming", "served"} /\ next # "served"
    BY <2>3, <2>9
  <2>. QED BY <1>1, <2>1, <2>3, <2>5, <2>7, <2>8, <2>10, TranslateInv
<1>2. CASE req.provider # "google"
  <2>1. pc' = "streaming" /\ UNCHANGED <<req, user, sent, cca, chat, trace, answer>> /\ pc = "open"
    BY <1>2 DEF Accept
  <2>2. ChatInv'
    BY <1>0, <2>1, ChatSame
  <2>. QED BY <1>0, <2>1, <2>2 DEF Inv, TypeOK, PhaseInv, OnlyCompletedAnswered, LogInv
<1>. QED BY <1>1, <1>2

\* While Google's stream is read.
LEMMA Reading ==
  ASSUME Inv, pc = "streaming", req.provider = "google"
  PROVE  /\ Good(sent) /\ sent \in Seq(Event) /\ ~Ended(sent) /\ WellFormed(sent)
         /\ cca \in [data : BOOLEAN, terminal : BOOLEAN, message : Items \cup {0}, failed : BOOLEAN]
         /\ ~cca.failed
         /\ cca.message # 0 => Announced(sent, Message(cca.message))
BY DEF Inv, PhaseInv, TypeOK, Message, Good

LEMMA CcaDoneInv ==
  ASSUME Inv, CcaDone
  PROVE  Inv'
<1>1. pc = "streaming" /\ req.provider = "google"
  BY DEF CcaDone
<1>2. PICK evs, state, next : evs = <<>> /\ state = [cca EXCEPT !.terminal = TRUE] /\ next = "streaming"
  OBVIOUS
<1>3. sent \o evs = sent /\ Grown(sent, evs)
  BY <1>1, <1>2, Reading, GrownNone
<1>4. /\ state \in [data : BOOLEAN, terminal : BOOLEAN, message : Items \cup {0}, failed : BOOLEAN]
      /\ ~state.failed /\ state.message = cca.message
  BY <1>1, <1>2, Reading
<1>5. Translate(evs, state, next)
  BY <1>2 DEF CcaDone
<1>6. /\ pc \in {"open", "streaming"} /\ next \in {"streaming", "served"} /\ next # "served"
      /\ ~Ended(sent \o evs)
      /\ state.message # 0 => Announced(sent \o evs, Message(state.message))
  BY <1>1, <1>2, <1>3, <1>4, Reading
<1>. QED BY <1>1, <1>3, <1>4, <1>5, <1>6, TranslateInv

\* A failure ends the stream whatever went before.
LEMMA FailedInv ==
  ASSUME Inv, pc = "streaming", req.provider = "google",
         Translate(<<Plain("failed")>>, [cca EXCEPT !.failed = TRUE], "served")
  PROVE  Inv'
<1>1. PICK none, e, state, next :
        none = <<>> /\ e = Plain("failed") /\ state = [cca EXCEPT !.failed = TRUE] /\ next = "served"
  OBVIOUS
<1>2. sent \o none = sent /\ Grown(sent, none) /\ ~Ended(sent \o none) /\ Good(sent)
  BY <1>1, Reading, GrownNone
<1>3. e \in Event /\ e.type = "failed"
  BY <1>1 DEF Plain, Event, Ends
<1>4. Fits(sent \o none, e)
  BY <1>2, <1>3 DEF Fits
<1>5. PICK evs : evs = Append(none, e)
  OBVIOUS
<1>6. /\ Grown(sent, evs) /\ Where(sent \o evs, "completed") = {}
      /\ \A x : Announced(sent \o none, x) => Announced(sent \o evs, x)
  <2>1. /\ Grown(sent, evs)
        /\ \A x : Announced(sent \o none, x) => Announced(sent \o evs, x)
    BY <1>2, <1>3, <1>4, <1>5, GrownOpen
  <2>2. PICK t \in Seq(Event) : t = sent \o none
    BY <1>2, GoodFacts
  <2>3. t \o none = t /\ Append(t, e) = sent \o evs
    BY <1>1, <1>2, <1>3, <1>5, <2>2
  <2>4. Where(Append(t, e), "completed") # {} <=> e.type = "completed"
    BY <1>2, <1>3, <2>2, EndedByOne
  <2>. QED BY <1>3, <2>1, <2>3, <2>4
<1>7. /\ state \in [data : BOOLEAN, terminal : BOOLEAN, message : Items \cup {0}, failed : BOOLEAN]
      /\ state.message # 0 => Announced(sent \o evs, Message(state.message))
      /\ state.failed
  BY <1>1, <1>2, <1>6, Reading
<1>8. Translate(evs, state, next) /\ next \in {"streaming", "served"} /\ next # "streaming"
      /\ pc \in {"open", "streaming"}
  BY <1>1, <1>5
<1>. QED BY <1>6, <1>7, <1>8, TranslateInv

LEMMA CcaBadInv ==
  ASSUME Inv, CcaBad
  PROVE  Inv'
BY FailedInv DEF CcaBad

LEMMA CcaEndInv ==
  ASSUME Inv, CcaEnd
  PROVE  Inv'
<1>1. pc = "streaming" /\ req.provider = "google"
  BY DEF CcaEnd
<1>2. CASE ~(cca.data /\ cca.terminal)
  BY <1>1, <1>2, FailedInv DEF CcaEnd
<1>3. CASE cca.data /\ cca.terminal
  <2>. DEFINE item == [type |-> "itemDone", item |-> cca.message, kind |-> "message"]
  <2>1. PICK none, first : none = <<>> /\ first = IF cca.message = 0 THEN none ELSE Append(none, item)
    OBVIOUS
  <2>2. sent \o none = sent /\ Grown(sent, none) /\ ~Ended(sent \o none) /\ Good(sent)
    BY <1>1, <2>1, Reading, GrownNone
  <2>3. /\ Grown(sent, first) /\ ~Ended(sent \o first)
        /\ cca.message # 0 => Announced(sent \o first, Message(cca.message))
    <3>1. CASE cca.message = 0
      BY <2>1, <2>2, <3>1
    <3>2. CASE cca.message # 0
      <4>1. Announced(sent, Message(cca.message)) /\ cca.message \in Items
        BY <1>1, <3>2, Reading
      <4>2. item \in Event /\ item.type = "itemDone"
        BY <4>1 DEF Event
      <4>3. Announced(sent, item)
        BY <4>1 DEF Announced, Message
      <4>. HIDE DEF item
      <4>4. Fits(sent \o none, item)
        BY <2>2, <4>2, <4>3 DEF Fits, Ends
      <4>5. item.type \notin Ends
        BY <4>2 DEF Ends
      <4>6. PICK evs : evs = Append(none, item)
        OBVIOUS
      <4>7. /\ Grown(sent, evs) /\ (item.type \notin Ends => ~Ended(sent \o evs))
            /\ \A x : Announced(sent \o none, x) => Announced(sent \o evs, x)
        BY <2>2, <4>4, <4>6, GrownOpen
      <4>8. first = evs
        BY <2>1, <3>2, <4>6
      <4>. QED BY <2>2, <4>1, <4>5, <4>7, <4>8
    <3>. QED BY <3>1, <3>2
  <2>4. PICK e : e = Completed("full")
    OBVIOUS
  <2>5. e \in Event /\ e.type = "completed" /\ e.kind = "full"
    BY <2>4 DEF Completed, Event, Ends
  <2>6. Fits(sent \o first, e)
    BY <2>3, <2>5 DEF Fits
  <2>7. PICK evs : evs = Append(first, e)
    OBVIOUS
  <2>8. /\ Grown(sent, evs) /\ Where(sent \o evs, "completed") # {}
        /\ \A x : Announced(sent \o first, x) => Announced(sent \o evs, x)
    BY <2>2, <2>3, <2>5, <2>6, <2>7, GrownOpen
  <2>9. evs = first \o <<e>>
    <3>1. first \in Seq(Event)
      BY <2>3 DEF Grown
    <3>. QED BY <2>5, <2>7, <3>1
  <2>10. first = IF cca.message = 0 THEN <<>> ELSE <<item>>
    <3>1. Append(none, item) = <<item>>
      BY <2>1
    <3>. QED BY <2>1, <3>1
  <2>11. Translate(evs, cca, "served")
    BY <1>3, <2>4, <2>9, <2>10 DEF CcaEnd
  <2>12. PICK next : next = "served"
    OBVIOUS
  <2>13. Translate(evs, cca, next) /\ next \in {"streaming", "served"} /\ next # "streaming"
        /\ pc \in {"open", "streaming"}
    BY <1>1, <2>11, <2>12
  <2>14. /\ cca \in [data : BOOLEAN, terminal : BOOLEAN, message : Items \cup {0}, failed : BOOLEAN]
         /\ ~cca.failed
         /\ cca.message # 0 => Announced(sent \o evs, Message(cca.message))
    BY <1>1, <2>3, <2>8, Reading
  <2>. QED BY <1>1, <2>8, <2>13, <2>14, TranslateInv
<1>. QED BY <1>2, <1>3

\* What is added next fits as long as there is a place for it.
LEMMA NextFits ==
  ASSUME NEW s \in Seq(Event), ~Ended(s), Cardinality(Added(s)) + 1 \in Items,
         NEW e, e.item = Cardinality(Added(s)) + 1, e.type = "added", e.kind \in {"message", "call"},
         e \in Event
  PROVE  Fits(s, e)
BY DEF Fits, Ends

LEMMA SaidFits ==
  ASSUME NEW s \in Seq(Event), ~Ended(s), NEW e \in Event, e.type \in {"delta", "itemDone"},
         Announced(s, e)
  PROVE  Fits(s, e)
BY DEF Fits, Ends

\* The events of a part of a chunk are added to a stream that stays open.
Opened(s, evs) ==
  /\ Grown(s, evs) /\ ~Ended(s \o evs)
  /\ \A x : Announced(s, x) => Announced(s \o evs, x)

LEMMA OpenedMore ==
  ASSUME NEW s, NEW evs, NEW e, Good(s), Opened(s, evs), Fits(s \o evs, e), e.type \notin Ends
  PROVE  /\ Opened(s, Append(evs, e))
         /\ \A x : Announced(s \o evs, x) => Announced(s \o Append(evs, e), x)
         /\ e.type = "added" =>
              \A x : x.item = e.item /\ x.kind = e.kind => Announced(s \o Append(evs, e), x)
<1>1. Grown(s, evs) /\ ~Ended(s \o evs)
  BY DEF Opened
<1>. QED BY <1>1, GrownOpen DEF Opened

LEMMA AppendTwo ==
  ASSUME NEW S, NEW a \in S, NEW d \in S
  PROVE  Append(<<a>>, d) = <<a, d>>
<1>1. <<a>> \in Seq(S) /\ <<a, d>> \in Seq(S) /\ Append(<<a>>, d) \in Seq(S)
  OBVIOUS
<1>2. Len(<<a, d>>) = 2 /\ Len(Append(<<a>>, d)) = 2 /\ <<a, d>>[1] = a /\ <<a, d>>[2] = d
  OBVIOUS
<1>3. Append(<<a>>, d)[1] = a /\ Append(<<a>>, d)[2] = d
  OBVIOUS
<1>4. \A i \in 1..2 : i = 1 \/ i = 2
  OBVIOUS
<1>. QED BY <1>1, <1>2, <1>3, <1>4, SeqEqual

LEMMA AppendThree ==
  ASSUME NEW S, NEW a \in S, NEW d \in S, NEW f \in S
  PROVE  Append(<<a, d>>, f) = <<a, d, f>>
<1>1. <<a, d>> \in Seq(S) /\ <<a, d, f>> \in Seq(S) /\ Append(<<a, d>>, f) \in Seq(S)
  OBVIOUS
<1>2. /\ Len(<<a, d, f>>) = 3 /\ Len(Append(<<a, d>>, f)) = 3
      /\ <<a, d, f>>[1] = a /\ <<a, d, f>>[2] = d /\ <<a, d, f>>[3] = f
  OBVIOUS
<1>3. Append(<<a, d>>, f)[1] = a /\ Append(<<a, d>>, f)[2] = d /\ Append(<<a, d>>, f)[3] = f
  OBVIOUS
<1>4. \A i \in 1..3 : i = 1 \/ i = 2 \/ i = 3
  OBVIOUS
<1>. QED BY <1>1, <1>2, <1>3, <1>4, SeqEqual

LEMMA PartFits ==
  ASSUME Good(sent), WellFormed(sent), ~Ended(sent), sent \in Seq(Event),
         cca.message \in Items \cup {0},
         cca.message # 0 => Announced(sent, Message(cca.message)),
         NEW part \in {"text", "call", "nothing"},
         part = "call" \/ (part = "text" /\ cca.message = 0) => NextItem \in Items
  PROVE  /\ Opened(sent, PartEvents(part))
         /\ part = "text" /\ cca.message = 0 =>
              Announced(sent \o PartEvents(part), Message(NextItem)) /\ NextItem \in Items
<1>0. PICK none : none = <<>>
  OBVIOUS
<1>1. sent \o none = sent /\ Opened(sent, none)
  BY <1>0, GrownNone DEF Opened
<1>2. NextItem = Cardinality(Added(sent)) + 1
  BY DEF NextItem, Added
<1>3. ASSUME NextItem \in Items, NEW kind \in {"message", "call"},
             NEW e, e = [type |-> "added", item |-> NextItem, kind |-> kind]
      PROVE  /\ Opened(sent, Append(none, e))
             /\ \A x : x.item = NextItem /\ x.kind = kind => Announced(sent \o Append(none, e), x)
  <2>1. e \in Event /\ e.type = "added" /\ e.item = NextItem /\ e.kind = kind
    BY <1>3 DEF Event
  <2>2. Fits(sent \o none, e)
    BY <1>1, <1>2, <1>3, <2>1, NextFits
  <2>3. e.type \notin Ends
    BY <2>1 DEF Ends
  <2>4. /\ Opened(sent, Append(none, e))
        /\ e.type = "added" =>
              \A x : x.item = e.item /\ x.kind = e.kind => Announced(sent \o Append(none, e), x)
    BY <1>1, <2>2, <2>3, OpenedMore
  <2>. QED BY <2>1, <2>4
<1>4. ASSUME NEW evs, Opened(sent, evs), NEW item \in Items, NEW kind \in {"message", "call"},
             NEW type \in {"delta", "itemDone"},
             NEW e, e = [type |-> type, item |-> item, kind |-> kind],
             Announced(sent \o evs, e)
      PROVE  /\ Opened(sent, Append(evs, e))
             /\ \A x : Announced(sent \o evs, x) => Announced(sent \o Append(evs, e), x)
  <2>1. e \in Event /\ e.type \in {"delta", "itemDone"} /\ e.type \notin Ends
    BY <1>4 DEF Event, Ends
  <2>2. sent \o evs \in Seq(Event) /\ ~Ended(sent \o evs)
    BY <1>4 DEF Opened, Grown
  <2>3. Fits(sent \o evs, e)
    BY <1>4, <2>1, <2>2, SaidFits
  <2>. QED BY <1>4, <2>1, <2>3, OpenedMore
<1>5. CASE part = "nothing"
  BY <1>0, <1>1, <1>5 DEF PartEvents
<1>6. CASE part = "text" /\ cca.message # 0
  <2>1. PICK e : e = Message(cca.message)
    OBVIOUS
  <2>2. PartEvents(part) = <<e>> /\ Append(none, e) = <<e>> /\ cca.message \in Items
    BY <1>0, <1>6, <2>1 DEF PartEvents, Message
  <2>3. Opened(sent, Append(none, e))
    BY <1>1, <1>4, <1>6, <2>1, <2>2 DEF Message
  <2>. QED BY <1>6, <2>2, <2>3
<1>7. CASE part = "text" /\ cca.message = 0
  <2>1. PICK a, d, one : /\ a = [type |-> "added", item |-> NextItem, kind |-> "message"]
                         /\ d = Message(NextItem) /\ one = Append(none, a)
    OBVIOUS
  <2>2. PartEvents(part) = Append(one, d)
    <3>1. PartEvents(part) = <<a, d>>
      BY <1>7, <2>1 DEF PartEvents, Message
    <3>2. one = <<a>>
      BY <1>0, <2>1
    <3>3. Append(one, d) = <<a, d>>
      <4>1. PICK S : S = {a, d}
        OBVIOUS
      <4>2. a \in S /\ d \in S
        BY <4>1
      <4>. QED BY <3>2, <4>2, AppendTwo
    <3>. QED BY <3>1, <3>3
  <2>3. NextItem \in Items
    BY <1>7
  <2>4. Opened(sent, one) /\ Announced(sent \o one, d)
    BY <1>3, <2>1, <2>3 DEF Message
  <2>5. Opened(sent, Append(one, d)) /\ Announced(sent \o Append(one, d), d)
    BY <1>4, <2>1, <2>3, <2>4 DEF Message
  <2>. QED BY <2>1, <2>2, <2>3, <2>5
<1>8. CASE part = "call"
  <2>1. PICK a, d, f, one, two :
          /\ a = [type |-> "added", item |-> NextItem, kind |-> "call"]
          /\ d = [type |-> "delta", item |-> NextItem, kind |-> "call"]
          /\ f = [type |-> "itemDone", item |-> NextItem, kind |-> "call"]
          /\ one = Append(none, a) /\ two = Append(one, d)
    OBVIOUS
  <2>2. PartEvents(part) = Append(two, f)
    <3>1. PartEvents(part) = <<a, d, f>>
      BY <1>8, <2>1 DEF PartEvents
    <3>2. one = <<a>>
      BY <1>0, <2>1
    <3>3. PICK S : S = {a, d, f}
      OBVIOUS
    <3>4. a \in S /\ d \in S /\ f \in S
      BY <3>3
    <3>5. Append(one, d) = <<a, d>>
      BY <3>2, <3>4, AppendTwo
    <3>6. two = <<a, d>>
      BY <2>1, <3>5
    <3>7. Append(two, f) = <<a, d, f>>
      BY <3>4, <3>6, AppendThree
    <3>. QED BY <3>1, <3>7
  <2>3. NextItem \in Items
    BY <1>8
  <2>4. Opened(sent, one) /\ Announced(sent \o one, d) /\ Announced(sent \o one, f)
    BY <1>3, <2>1, <2>3
  <2>5. Opened(sent, two) /\ Announced(sent \o two, f)
    BY <1>4, <2>1, <2>3, <2>4
  <2>6. Opened(sent, Append(two, f))
    BY <1>4, <2>1, <2>3, <2>5
  <2>. QED BY <1>8, <2>2, <2>6
<1>. QED BY <1>5, <1>6, <1>7, <1>8

LEMMA CcaChunkInv ==
  ASSUME Inv, CcaChunk
  PROVE  Inv'
<1>1. pc = "streaming" /\ req.provider = "google"
  BY DEF CcaChunk
<1>2. PICK part \in {"text", "call", "nothing"}, terminal \in BOOLEAN :
       /\ part = "call" \/ (part = "text" /\ cca.message = 0) => NextItem \in Items
       /\ Translate(PartEvents(part),
            [cca EXCEPT !.data = TRUE, !.terminal = @ \/ terminal,
                        !.message = IF part = "text" /\ @ = 0 THEN NextItem ELSE @],
            "streaming")
  BY DEF CcaChunk
<1>3. PICK evs, state, next :
       /\ evs = PartEvents(part) /\ next = "streaming"
       /\ state = [cca EXCEPT !.data = TRUE, !.terminal = @ \/ terminal,
                        !.message = IF part = "text" /\ @ = 0 THEN NextItem ELSE @]
  OBVIOUS
<1>4. /\ Opened(sent, evs)
      /\ part = "text" /\ cca.message = 0 =>
           Announced(sent \o evs, Message(NextItem)) /\ NextItem \in Items
  <2>1. cca.message \in Items \cup {0}
    BY <1>1, Reading
  <2>. QED BY <1>1, <1>2, <1>3, <2>1, Reading, PartFits
<1>5. /\ state \in [data : BOOLEAN, terminal : BOOLEAN, message : Items \cup {0}, failed : BOOLEAN]
      /\ ~state.failed
      /\ state.message = IF part = "text" /\ cca.message = 0 THEN NextItem ELSE cca.message
  BY <1>1, <1>2, <1>3, Reading
<1>6. state.message # 0 => Announced(sent \o evs, Message(state.message))
  BY <1>1, <1>4, <1>5, Reading DEF Opened
<1>7. Translate(evs, state, next) /\ next \in {"streaming", "served"} /\ next # "served"
      /\ pc \in {"open", "streaming"} /\ Grown(sent, evs) /\ ~Ended(sent \o evs)
  BY <1>1, <1>2, <1>3, <1>4 DEF Opened
<1>. QED BY <1>1, <1>5, <1>6, <1>7, TranslateInv

-----------------------------------------------------------------------------
(* The last write                                                          *)

\* What is in the buffer is no matter to what is made of a frame.
LEMMA ConsumeTail ==
  ASSUME NEW v \in Writer, ~v.done, NEW tail \in Seq(Event), NEW e \in Event,
         e.type = "delta" /\ e.kind = "call" => v.index[e.item] >= 0,
         e.type \in {"added", "delta"} => e.kind \in {"message", "call"},
         NEW w \in Writer, ~w.done, w.index = v.index, w.tool = v.tool, w.next = v.next,
         w.out = v.out, w.err = v.err, w.tail = tail
  PROVE  Consume(w, e) = [Consume(v, e) EXCEPT !.tail = tail]
<1>1. w = [v EXCEPT !.tail = tail]
  BY DEF Writer
<1>2. CASE e.type = "created" \/ (e.type = "delta" /\ e.kind = "message")
  <2>1. PICK c : c = Said(IF e.type = "created" THEN "role" ELSE "text", 0, 0)
    OBVIOUS
  <2>2. PICK x, y : x = Consume(w, e) /\ y = Consume(v, e)
    OBVIOUS
  <2>3. Wrote(w, x, c) /\ x = [w EXCEPT !.out = x.out]
    BY <1>2, <2>1, <2>2, ConsumePlain
  <2>4. Wrote(v, y, c) /\ y = [v EXCEPT !.out = y.out]
    BY <1>2, <2>1, <2>2, ConsumePlain
  <2>5. x.out = y.out
    BY <2>3, <2>4 DEF Wrote
  <2>6. x = [y EXCEPT !.tail = tail]
    BY <1>1, <2>3, <2>4, <2>5 DEF Writer
  <2>. QED BY <2>2, <2>6
<1>3. CASE e.type = "added" /\ e.kind = "call"
  <2>1. PICK c : c = Said("call", v.next, e.item)
    OBVIOUS
  <2>2. PICK x, y : x = Consume(w, e) /\ y = Consume(v, e)
    OBVIOUS
  <2>3. /\ Wrote(w, x, c)
        /\ x = [w EXCEPT !.index = [@ EXCEPT ![e.item] = w.next], !.next = @ + 1,
                         !.tool = TRUE, !.out = x.out]
    BY <1>3, <2>1, <2>2, ConsumeCall
  <2>4. /\ Wrote(v, y, c)
        /\ y = [v EXCEPT !.index = [@ EXCEPT ![e.item] = v.next], !.next = @ + 1,
                         !.tool = TRUE, !.out = y.out]
    BY <1>3, <2>1, <2>2, ConsumeCall
  <2>5. x.out = y.out
    BY <2>3, <2>4 DEF Wrote
  <2>6. PICK index : index = [v.index EXCEPT ![e.item] = v.next]
    OBVIOUS
  <2>7. x = [w EXCEPT !.index = index, !.next = v.next + 1, !.tool = TRUE, !.out = y.out]
    BY <2>3, <2>5, <2>6
  <2>8. y = [v EXCEPT !.index = index, !.next = v.next + 1, !.tool = TRUE, !.out = y.out]
    BY <2>4, <2>6
  <2>9. x = [y EXCEPT !.tail = tail]
    BY <1>1, <2>7, <2>8 DEF Writer
  <2>. QED BY <2>2, <2>9
<1>4. CASE e.type = "delta" /\ e.kind = "call"
  <2>1. PICK c : c = Said("args", v.index[e.item], e.item)
    OBVIOUS
  <2>2. PICK x, y : x = Consume(w, e) /\ y = Consume(v, e)
    OBVIOUS
  <2>3. Wrote(w, x, c) /\ x = [w EXCEPT !.tool = TRUE, !.out = x.out]
    <3>1. w.index[e.item] >= 0 /\ c = Said("args", w.index[e.item], e.item)
      BY <1>4, <2>1
    <3>. QED BY <1>4, <2>2, <3>1, ConsumeArgs
  <2>4. Wrote(v, y, c) /\ y = [v EXCEPT !.tool = TRUE, !.out = y.out]
    BY <1>4, <2>1, <2>2, ConsumeArgs
  <2>5. PICK o : o = y.out
    OBVIOUS
  <2>6. x.out = o
    BY <2>3, <2>4, <2>5 DEF Wrote
  <2>7. x = [w EXCEPT !.tool = TRUE, !.out = o] /\ y = [v EXCEPT !.tool = TRUE, !.out = o]
    BY <2>3, <2>4, <2>5, <2>6
  <2>8. x = [y EXCEPT !.tail = tail]
    BY <1>1, <2>7 DEF Writer
  <2>. QED BY <2>2, <2>8
<1>5. CASE (e.type = "added" /\ e.kind # "call") \/ e.type = "itemDone"
  <2>1. Consume(w, e) = w /\ Consume(v, e) = v
    BY <1>5, ConsumeNothing
  <2>. QED BY <1>1, <2>1
<1>6. CASE e.type \in Ends \cup {"end"}
  <2>1. PICK x, y : x = Consume(w, e) /\ y = Consume(v, e)
    OBVIOUS
  <2>2. x = [w EXCEPT !.done = TRUE,
               !.out = Append(Append(@, Said(IF w.tool THEN "tool_calls" ELSE "stop", 0, 0)),
                              Said("[DONE]", 0, 0))]
    BY <1>6, <2>1, ConsumeEnd
  <2>3. y = [v EXCEPT !.done = TRUE,
               !.out = Append(Append(@, Said(IF v.tool THEN "tool_calls" ELSE "stop", 0, 0)),
                              Said("[DONE]", 0, 0))]
    BY <1>6, <2>1, ConsumeEnd
  <2>4. PICK f, d : f = Said(IF v.tool THEN "tool_calls" ELSE "stop", 0, 0) /\ d = Said("[DONE]", 0, 0)
    OBVIOUS
  <2>5. PICK o : o = Append(Append(v.out, f), d)
    OBVIOUS
  <2>6. x = [w EXCEPT !.done = TRUE, !.out = o]
    BY <2>2, <2>4, <2>5
  <2>7. y = [v EXCEPT !.done = TRUE, !.out = o]
    BY <2>3, <2>4, <2>5
  <2>8. x = [y EXCEPT !.tail = tail]
    BY <1>1, <2>6, <2>7 DEF Writer
  <2>. QED BY <2>1, <2>8
<1>. QED BY <1>2, <1>3, <1>4, <1>5, <1>6 DEF Event

LEMMA TheEndIs == TheEnd \in Event /\ TheEnd.type = "end"
BY DEF TheEnd, Plain, Event

\* The end of a stream of a writer that is in step, whatever the upstream's last event.
LEMMA TheEndWriter ==
  ASSUME NEW w \in Writer
  PROVE  /\ Consume(w, TheEnd) \in Writer /\ Consume(w, TheEnd).done
         /\ Consume(w, TheEnd).tail = w.tail /\ Consume(w, TheEnd).err = w.err
         /\ w.done => Consume(w, TheEnd) = w
         /\ IsPrefix(w.out, Consume(w, TheEnd).out)
<1>0. w.out \in Seq(Chunk)
  BY DEF Writer
<1>1. CASE w.done
  <2>1. Consume(w, TheEnd) = w
    BY <1>1, TheEndIs, ConsumeDone
  <2>. QED BY <1>0, <1>1, <2>1, PrefixSelf
<1>2. CASE ~w.done
  <2>1. PICK f, d :
          /\ Consume(w, TheEnd) = [w EXCEPT !.done = TRUE, !.out = Append(Append(@, f), d)]
          /\ f = Said(IF w.tool THEN "tool_calls" ELSE "stop", 0, 0) /\ d = Said("[DONE]", 0, 0)
    BY <1>2, TheEndIs, ConsumeEnd
  <2>2. f \in Chunk /\ d \in Chunk
    <3>1. PICK type : type = IF w.tool THEN "tool_calls" ELSE "stop"
      OBVIOUS
    <3>2. type \in {"stop", "tool_calls"} /\ f = Said(type, 0, 0) /\ 0 \in 0..MaxItems
      BY <2>1, <3>1, StreamAssumption
    <3>. QED BY <2>1, <3>2 DEF Said, Chunk
  <2>3. Consume(w, TheEnd) \in Writer
    <3>1. Append(Append(w.out, f), d) \in Seq(Chunk)
      BY <1>0, <2>2
    <3>2. PICK o \in Seq(Chunk) : o = Append(Append(w.out, f), d)
      BY <3>1
    <3>3. [w EXCEPT !.done = TRUE, !.out = o] \in Writer
      BY <1>2 DEF Writer
    <3>. QED BY <2>1, <3>2, <3>3
  <2>4. IsPrefix(w.out, Consume(w, TheEnd).out)
    BY <1>2, <2>3, TheEndIs, ConsumePrefix
  <2>. QED BY <1>2, <2>1, <2>3, <2>4 DEF Writer
<1>. QED BY <1>1, <1>2

\* An event at the end of a well-formed stream could be written when it came.
LEMMA LastFits ==
  ASSUME NEW s \in Seq(Event), NEW e \in Event, Good(s), WellFormed(Append(s, e))
  PROVE  /\ e.type = "delta" /\ e.kind = "call" => Ideal(s).index[e.item] >= 0
         /\ e.type \in {"added", "delta"} => e.kind \in {"message", "call"}
         /\ ~Ended(s)
<1>. DEFINE t == Append(s, e)
            n == Len(s) + 1
<1>1. /\ n \in DOMAIN t /\ t[n] = e /\ Len(t) = n /\ n \notin DOMAIN s /\ Len(s) \in Nat
      /\ \A i \in DOMAIN s : i \in DOMAIN t /\ t[i] = s[i] /\ i # n
      /\ \A i \in DOMAIN t : i \in DOMAIN s \/ i = n
  BY AppendFacts
<1>. HIDE DEF t, n
<1>2. WellFormed(t)
  BY DEF t
<1>3. ~Ended(s)
  BY <1>1, <1>2 DEF WellFormed, Ended
<1>4. e.type = "added" => e.kind \in {"message", "call"}
  BY <1>1, <1>2 DEF WellFormed, Where
<1>5. ASSUME e.type = "delta"
      PROVE  Announced(s, e)
  <2>1. n \in Where(t, "delta")
    BY <1>1, <1>5 DEF Where
  <2>2. Announced(t, e)
    BY <1>1, <1>2, <2>1 DEF WellFormed
  <2>3. PICK i \in Where(t, "added") : t[i].item = e.item /\ t[i].kind = e.kind
    BY <2>2 DEF Announced
  <2>4. i \in DOMAIN s /\ t[i] = s[i]
    BY <1>1, <1>5 DEF Where
  <2>5. i \in Where(s, "added")
    BY <2>4 DEF Where
  <2>. QED BY <2>3, <2>4, <2>5 DEF Announced
<1>6. ASSUME e.type = "delta"
      PROVE  /\ e.kind = "call" => Ideal(s).index[e.item] >= 0
             /\ e.kind \in {"message", "call"}
  <2>1. Announced(s, e)
    BY <1>5, <1>6
  <2>2. (e.item \in CallsOf(s) <=> e.kind = "call") /\ e.kind \in {"message", "call"} /\ e.item \in Items
    BY <2>1, AnnouncedCall DEF Good
  <2>3. \A k \in CallsOf(s) : 0 <= Ideal(s).index[k]
    BY DEF Good, Tracks, IndexTrack
  <2>4. Ideal(s).index[e.item] \in 0..MaxItems \cup {-1} /\ MaxItems \in Nat
    BY <2>2, GoodFacts, StreamAssumption DEF Writer
  <2>. QED BY <2>2, <2>3, <2>4
<1>. QED BY <1>3, <1>4, <1>6

\* What finish writes completes the stream.
LEMMA RestMade ==
  ASSUME TypeOK, Good(sent), NEW front \in Seq(Event), Good(front), InStep(front),
         Len(chat.tail) <= 1
  PROVE  LET all == Consumed(chat, Rest) IN
         /\ all \in Writer /\ all.done /\ ~all.err /\ all.tail = chat.tail
         /\ all.out = Consume(Ideal(sent), TheEnd).out
         /\ IsPrefix(chat.out, all.out)
         /\ chat.done => all = chat /\ chat = Ideal(sent)
<1>1. /\ Ideal(front) \in Writer /\ chat \in Writer /\ chat.tail \in Seq(Event)
      /\ Ideal(front).tail = <<>> /\ (Ideal(front).done <=> Ended(front))
      /\ Ideal(sent) \in Writer /\ WellFormed(sent)
  BY GoodFacts DEF TypeOK, Writer, Good
<1>2. /\ chat.done = Ideal(front).done /\ chat.out = Ideal(front).out /\ ~chat.err
      /\ chat.index = Ideal(front).index /\ chat.tool = Ideal(front).tool
      /\ chat.next = Ideal(front).next /\ chat.err = Ideal(front).err
  BY <1>1, GoodFacts DEF InStep, Writer
<1>3. ASSUME chat.tail = <<>>
      PROVE  front = sent /\ chat = Ideal(sent)
  <2>1. front = sent
    BY <1>3 DEF InStep
  <2>. QED BY <1>1, <1>3, <2>1 DEF InStep, Writer
<1>4. ASSUME NEW e, chat.tail = <<e>>
      PROVE  e \in Event /\ sent = Append(front, e)
  BY <1>1, <1>4 DEF InStep
<1>5. chat.tail = <<>> \/ \E e : chat.tail = <<e>>
  <2>1. PICK tail \in Seq(Event) : tail = chat.tail
    BY <1>1
  <2>2. Len(tail) = 0 \/ Len(tail) = 1
    <3>1. PICK n \in Nat : n = Len(tail)
      BY <2>1
    <3>2. n <= 1
      BY <2>1, <3>1
    <3>3. n = 0 \/ n = 1
      BY <3>2
    <3>. QED BY <3>1, <3>3
  <2>3. ASSUME Len(tail) = 1
        PROVE  tail = <<tail[1]>>
    <3>1. PICK e \in Event : e = tail[1]
      BY <2>1, <2>3
    <3>2. <<e>> \in Seq(Event) /\ Len(<<e>>) = 1 /\ <<e>>[1] = e
      OBVIOUS
    <3>3. \A i \in 1..1 : i = 1
      OBVIOUS
    <3>4. tail = <<e>>
      BY <2>1, <2>3, <3>1, <3>2, <3>3, SeqEqual
    <3>. QED BY <3>1, <3>4
  <2>. QED BY <2>1, <2>2, <2>3
<1>6. CASE chat.done
  <2>1. ASSUME NEW e, chat.tail = <<e>>
        PROVE  FALSE
    <3>1. ~Ended(front)
      BY <1>1, <1>4, <2>1, LastFits
    <3>. QED BY <1>1, <1>2, <1>6, <3>1
  <2>2. chat = Ideal(sent) /\ Rest = <<>>
    BY <1>3, <1>5, <1>6, <2>1 DEF Rest
  <2>3. Consumed(chat, Rest) = chat
    BY <2>2, ConsumedNone
  <2>4. Consume(Ideal(sent), TheEnd) = Ideal(sent)
    BY <1>1, <1>6, <2>2, TheEndWriter
  <2>5. IsPrefix(chat.out, chat.out)
    BY <1>1, PrefixSelf DEF Writer
  <2>. QED BY <1>1, <1>2, <1>6, <2>2, <2>3, <2>4, <2>5
<1>7. CASE ~chat.done /\ chat.tail = <<>>
  <2>1. chat = Ideal(sent) /\ Rest = <<TheEnd>>
    BY <1>3, <1>7 DEF Rest, TheEnd
  <2>2. Consumed(chat, Rest) = Consume(chat, TheEnd)
    BY <2>1, ConsumedOne
  <2>. QED BY <1>1, <1>2, <1>7, <2>1, <2>2, TheEndWriter
<1>8. ASSUME ~chat.done, NEW e, chat.tail = <<e>>
      PROVE  LET all == Consumed(chat, Rest) IN
             /\ all \in Writer /\ all.done /\ ~all.err /\ all.tail = chat.tail
             /\ all.out = Consume(Ideal(sent), TheEnd).out
             /\ IsPrefix(chat.out, all.out)
  <2>0. e \in Event /\ sent = Append(front, e)
    BY <1>4, <1>8
  <2>1. PICK v, u, x, y : /\ v = Ideal(front) /\ u = Ideal(sent)
                          /\ x = Consume(chat, e) /\ y = Consume(x, TheEnd)
    OBVIOUS
  <2>2. u = Consume(v, e)
    BY <2>0, <2>1, ConsumedMore DEF Ideal
  <2>3. /\ e.type = "delta" /\ e.kind = "call" => v.index[e.item] >= 0
        /\ e.type \in {"added", "delta"} => e.kind \in {"message", "call"}
    BY <1>1, <2>0, <2>1, LastFits
  <2>4. v \in Writer /\ u \in Writer /\ ~v.done
    BY <1>1, <1>2, <1>8, <2>1
  <2>5. PICK tail \in Seq(Event) : tail = chat.tail
    BY <1>1
  <2>6. Consume(chat, e) = [Consume(v, e) EXCEPT !.tail = tail]
    <3>1. PICK c \in Writer : c = chat
      BY <1>1
    <3>2. /\ ~c.done /\ c.index = v.index /\ c.tool = v.tool /\ c.next = v.next
          /\ c.out = v.out /\ c.err = v.err /\ c.tail = tail
      BY <1>2, <1>8, <2>1, <2>5, <3>1
    <3>3. Consume(c, e) = [Consume(v, e) EXCEPT !.tail = tail]
      BY <2>0, <2>3, <2>4, <3>2, ConsumeTail
    <3>. QED BY <3>1, <3>3
  <2>7. x = [u EXCEPT !.tail = tail]
    BY <2>1, <2>2, <2>6
  <2>8. /\ x \in Writer /\ x.done = u.done /\ x.index = u.index /\ x.tool = u.tool
        /\ x.next = u.next /\ x.out = u.out /\ x.err = u.err /\ x.tail = tail
    BY <2>4, <2>5, <2>7 DEF Writer
  <2>9. Consumed(chat, Rest) = y
    <3>1. Rest = <<e>> \o <<TheEnd>>
      BY <1>8 DEF Rest, TheEnd
    <3>2. PICK one : one = <<e>>
      OBVIOUS
    <3>3. one \in Seq(Event) /\ Rest = Append(one, TheEnd)
      BY <2>0, <3>1, <3>2, TheEndIs
    <3>4. Consumed(chat, Append(one, TheEnd)) = Consume(Consumed(chat, one), TheEnd)
      BY <3>3, TheEndIs, ConsumedMore
    <3>. QED BY <2>1, <3>2, <3>3, <3>4, ConsumedOne
  <2>10. y.out = Consume(u, TheEnd).out
    <3>1. CASE u.done
      BY <2>1, <2>4, <2>8, <3>1, TheEndWriter
    <3>2. CASE ~u.done
      <4>1. TheEnd \in Event /\ TheEnd.type \notin {"added", "delta"}
        BY TheEndIs
      <4>2. Consume(x, TheEnd) = [Consume(u, TheEnd) EXCEPT !.tail = tail]
        BY <2>4, <2>8, <3>2, <4>1, ConsumeTail
      <4>3. Consume(u, TheEnd) \in Writer
        BY <2>4, TheEndWriter
      <4>4. PICK z \in Writer : z = Consume(u, TheEnd)
        BY <4>3
      <4>. QED BY <2>1, <4>2, <4>4 DEF Writer
    <3>. QED BY <3>1, <3>2
  <2>11. IsPrefix(chat.out, y.out)
    <3>1. IsPrefix(v.out, u.out)
      BY <2>0, <2>2, <2>3, <2>4, ConsumePrefix
    <3>2. IsPrefix(u.out, y.out) /\ Consume(u, TheEnd) \in Writer
      BY <2>4, <2>10, TheEndWriter
    <3>3. v.out \in Seq(Chunk) /\ u.out \in Seq(Chunk) /\ y.out \in Seq(Chunk)
      BY <2>4, <2>10, <3>2 DEF Writer
    <3>4. IsPrefix(v.out, y.out)
      BY <3>1, <3>2, <3>3, PrefixTrans
    <3>. QED BY <1>2, <2>1, <3>4
  <2>12. y \in Writer /\ y.done /\ y.err = u.err /\ y.tail = chat.tail
    BY <2>1, <2>5, <2>8, TheEndWriter
  <2>13. ~u.err
    BY <2>1, GoodFacts
  <2>. QED BY <2>1, <2>9, <2>10, <2>11, <2>12, <2>13
<1>. QED BY <1>5, <1>6, <1>7, <1>8

\* The first completion is the end, and what is assembled from it are the items that
\* were added.
LEMMA AssembledIs ==
  ASSUME NEW s, WellFormed(s), Where(s, "completed") # {}
  PROVE  /\ Completion(s) # {} /\ Ended(s)
         /\ Assembled(s) =
              Told(Cardinality(Texts(s)),
                   {[item |-> i, deltas |-> Deltas(s, i)] : i \in CallsOf(s)},
                   IF CallsOf(s) = {} THEN "stop" ELSE "tool_calls")
<1>0. s \in Seq(Event) /\ Len(s) \in Nat
  BY DEF WellFormed
<1>1. \A i \in Where(s, "completed") : i = Len(s) /\ s[i].type \in Ends /\ i \in DOMAIN s
  BY DEF WellFormed, Where, Ends
<1>2. PICK c : c = Len(s)
  OBVIOUS
<1>3. Where(s, "completed") = {c} /\ Completion(s) = {c} /\ c \in Nat
  BY <1>0, <1>1, <1>2 DEF Completion
<1>4. (CHOOSE i \in Completion(s) : TRUE) = c
  BY <1>3
<1>5. SubSeq(s, 1, c) = s
  <2>1. SubSeq(s, 1, c) \in Seq(Event) /\ Len(SubSeq(s, 1, c)) = Len(s)
        /\ \A i \in 1..Len(s) : SubSeq(s, 1, c)[i] = s[i]
    BY <1>0, <1>2
  <2>. QED BY <1>0, <2>1, SeqEqual
<1>. DEFINE items == ItemsOf(s, IF s[c].kind = "full" THEN "added" ELSE "itemDone")
            calls == {i \in items : KindOf(s, i) = "call"}
            said == {i \in Where(s, "delta") : s[i].item \in items \ calls}
<1>6. Assembled(s) = Told(Cardinality(said),
                          {[item |-> i, deltas |-> Deltas(s, i)] : i \in calls},
                          IF calls = {} THEN "stop" ELSE "tool_calls")
  BY <1>3, <1>4, <1>5 DEF Assembled
<1>7. items = Added(s)
  <2>1. CASE s[c].kind = "full"
    BY <2>1 DEF Added
  <2>2. CASE s[c].kind # "full"
    <3>1. items = ItemsOf(s, "itemDone")
      BY <2>2
    <3>2. Added(s) \subseteq ItemsOf(s, "itemDone")
      BY <1>3, <2>2 DEF WellFormed
    <3>3. ASSUME NEW i \in Where(s, "itemDone")
          PROVE  s[i].item \in Added(s)
      <4>1. Announced(s, s[i])
        BY DEF WellFormed
      <4>. QED BY <4>1 DEF Announced, Added, ItemsOf
    <3>. QED BY <3>1, <3>2, <3>3 DEF ItemsOf
  <2>. QED BY <2>1, <2>2
<1>. HIDE DEF items
<1>8. calls = CallsOf(s)
  <2>1. CallsOf(s) \subseteq Added(s)
    BY DEF CallsOf, Added, ItemsOf
  <2>2. \A i \in Added(s) : KindOf(s, i) = "call" <=> i \in CallsOf(s)
    BY KindFacts
  <2>. QED BY <1>7, <2>1, <2>2
<1>. HIDE DEF calls
<1>9. said = Texts(s)
  <2>1. ASSUME NEW i \in Where(s, "delta")
        PROVE  s[i].item \in Added(s) /\ (s[i].item \in CallsOf(s) <=> s[i].kind = "call")
               /\ s[i].kind \in {"message", "call"}
    <3>1. Announced(s, s[i]) /\ s[i] \in Event
      BY <1>0 DEF WellFormed, Where
    <3>. QED BY <3>1, AnnouncedCall
  <2>. QED BY <1>7, <1>8, <2>1 DEF Texts
<1>. HIDE DEF said
<1>10. Ended(s)
  BY <1>1, <1>3 DEF Ended
<1>. QED BY <1>3, <1>6, <1>8, <1>9, <1>10

LEMMA AssembledAnswer ==
  ASSUME NEW s, WellFormed(s)
  PROVE  Assembled(s) \in Answer /\ (Assembled(s).status = "ok" <=> Where(s, "completed") # {})
<1>1. CASE Where(s, "completed") = {}
  <2>1. Completion(s) = {}
    BY <1>1 DEF Completion
  <2>2. Assembled(s) = Untold("error")
    BY <2>1 DEF Assembled
  <2>. QED BY <1>1, <2>2 DEF Untold, Answer
<1>2. CASE Where(s, "completed") # {}
  <2>1. s \in Seq(Event)
    BY DEF WellFormed
  <2>2. Cardinality(Texts(s)) \in Nat
    <3>1. Texts(s) \subseteq 1..Len(s)
      BY <2>1 DEF Texts, Where
    <3>. QED BY <2>1, <3>1, CountMore
  <2>3. ASSUME NEW i \in CallsOf(s)
        PROVE  i \in Items /\ Deltas(s, i) \in Nat
    <3>1. i \in Items
      BY DEF WellFormed, Added, ItemsOf, CallsOf
    <3>2. {j \in Where(s, "delta") : s[j].item = i} \subseteq 1..Len(s)
      BY <2>1 DEF Where
    <3>. QED BY <2>1, <3>1, <3>2, CountMore DEF Deltas
  <2>4. PICK text, calls, finish :
          /\ text = Cardinality(Texts(s))
          /\ calls = {[item |-> i, deltas |-> Deltas(s, i)] : i \in CallsOf(s)}
          /\ finish = IF CallsOf(s) = {} THEN "stop" ELSE "tool_calls"
    OBVIOUS
  <2>5. text \in Nat /\ finish \in {"stop", "tool_calls"}
    BY <2>2, <2>4
  <2>6. calls \in SUBSET [item : Items, deltas : Nat]
    BY <2>3, <2>4
  <2>7. Assembled(s) = Told(text, calls, finish)
    BY <1>2, <2>4, AssembledIs
  <2>. QED BY <1>2, <2>5, <2>6, <2>7 DEF Told, Answer
<1>. QED BY <1>1, <1>2

LEMMA FinishInv ==
  ASSUME Inv, Finish
  PROVE  Inv'
<1>1. /\ TypeOK /\ Good(sent) /\ ChatInv /\ PhaseInv /\ pc = "answering" /\ Len(chat.tail) <= 1
      /\ chat \in Writer
  BY DEF Finish, Inv, PhaseInv, TypeOK
<1>2. req' = req /\ sent' = sent /\ pc' = "done" /\ Good(sent)'
  BY <1>1 DEF Finish
<1>3. ASSUME ~req.stream
      PROVE  /\ chat' = chat /\ ChatInv' /\ answer' \in Answer
             /\ answer'.status = "ok" <=> Where(sent, "completed") # {}
  <2>1. chat' = chat /\ answer' = Assembled(sent)
    BY <1>3 DEF Finish
  <2>2. ChatInv'
    BY <1>1, <1>2, <1>3, <2>1 DEF ChatInv
  <2>3. WellFormed(sent)
    BY <1>1 DEF Good
  <2>. QED BY <2>1, <2>2, <2>3, AssembledAnswer
<1>4. ASSUME req.stream
      PROVE  /\ chat' \in Writer /\ ChatInv' /\ answer' = answer /\ chat'.tail = chat.tail
             /\ user = "there" /\ ~chat.err => ~chat'.err
             /\ chat.done => chat'.done
  <2>1. chat' \in (IF user = "noticed" THEN {chat} ELSE Written(Rest)) /\ answer' = answer
    BY <1>4 DEF Finish
  <2>2. CASE chat' = chat
    BY <1>1, <1>2, <2>1, <2>2, ChatSame
  <2>3. ASSUME Broken, chat' # chat
        PROVE  FALSE
    BY <2>1, <2>3 DEF Broken, Written, Blocked
  <2>4. ASSUME NEW front \in Seq(Event), Good(front), InStep(front), chat' # chat
        PROVE  /\ chat' \in Writer /\ ChatInv' /\ chat'.tail = chat.tail
               /\ user = "there" => ~chat'.err
               /\ chat.done => chat'.done
    <3>1. PICK all : all = Consumed(chat, Rest)
      OBVIOUS
    <3>2. /\ all \in Writer /\ all.done /\ ~all.err
          /\ all.out = Consume(Ideal(sent), TheEnd).out
          /\ IsPrefix(chat.out, all.out)
          /\ chat.done => all = chat
          /\ all.tail = chat.tail
      BY <1>1, <2>4, <3>1, RestMade
    <3>3. chat' \in Written(Rest) /\ ~chat.err
      BY <2>1, <2>4 DEF InStep
    <3>4. \/ chat' = all
          \/ /\ chat' \in Writer /\ chat'.err /\ chat'.tail = chat.tail /\ chat'.done = chat.done
             /\ IsPrefix(chat'.out, all.out) /\ all.out # chat.out
      <4>1. PICK w \in Written(Rest) : w = chat'
        BY <3>3
      <4>. QED BY <1>1, <1>4, <3>1, <3>2, <3>3, <4>1, WrittenIs
    <3>5. CASE chat' = all
      <4>1. Finished'
        BY <1>2, <3>2, <3>5 DEF Finished
      <4>. QED BY <1>1, <1>2, <1>4, <3>2, <3>5, <4>1 DEF ChatInv
    <3>6. CASE chat' # all
      <4>0. user # "there"
        BY <1>4, <3>1, <3>3, <3>6 DEF Written, Blocked
      <4>1. ~chat.done
        BY <3>2, <3>4, <3>6
      <4>2. chat'.done = FALSE /\ chat'.err
        BY <1>1, <3>4, <3>6, <4>1 DEF Writer
      <4>3. Broken'
        BY <1>2, <3>2, <3>4, <3>6, <4>2 DEF Broken
      <4>. QED BY <1>1, <1>2, <1>4, <3>4, <3>6, <4>0, <4>1, <4>3 DEF ChatInv
    <3>. QED BY <3>5, <3>6
  <2>. QED BY <1>1, <1>4, <2>1, <2>2, <2>3, <2>4 DEF ChatInv, Finished
<1>5. TypeOK'
  BY <1>1, <1>2, <1>3, <1>4 DEF TypeOK, Finish
<1>6. PhaseInv'
  BY <1>1, <1>2, <1>3, <1>4 DEF PhaseInv, Finish
<1>7. OnlyCompletedAnswered'
  BY <1>1, <1>2, <1>3, <1>4 DEF OnlyCompletedAnswered, Finish, PhaseInv
<1>8. LogInv'
  <2>1. UNCHANGED <<req, user, sent, cca, trace>> /\ LogInv /\ answer.status = "none"
    BY <1>1 DEF Finish, Inv, PhaseInv
  <2>2. CASE req.stream
    BY <1>1, <1>2, <1>4, <2>1, <2>2 DEF LogInv
  <2>3. CASE ~req.stream
    <3>1. trace.semantic \in {"unobserved", "completed", "failed", "incomplete"}
      BY <1>1 DEF TypeOK, Ends
    <3>. QED BY <1>1, <1>2, <1>3, <2>1, <2>3, <3>1 DEF LogInv
  <2>. QED BY <2>2, <2>3
<1>. QED BY <1>2, <1>3, <1>4, <1>5, <1>6, <1>7, <1>8 DEF Inv

-----------------------------------------------------------------------------
(* What the invariant says of the properties                               *)

\* What is written in the end: [DONE] after the only finish reason.
Closed(out) ==
  /\ out \in Seq(Chunk) /\ Len(out) >= 2
  /\ out[Len(out)].type = "[DONE]" /\ out[Len(out) - 1].type \in {"stop", "tool_calls"}
  /\ \A i \in 1..(Len(out) - 2) : ~Closes(out[i].type)

LEMMA ClosedEnd ==
  ASSUME NEW s, Good(s)
  PROVE  Closed(Consume(Ideal(s), TheEnd).out)
<1>1. PICK w, o : w = Ideal(s) /\ o = w.out
  OBVIOUS
<1>2. w \in Writer /\ o \in Seq(Chunk) /\ EndTrack(w, s) /\ Len(o) \in Nat
  BY <1>1, GoodFacts DEF Good, Tracks
<1>3. CASE w.done
  <2>1. Consume(w, TheEnd) = w
    BY <1>2, <1>3, TheEndWriter
  <2>2. PICK type : type = IF w.tool THEN "tool_calls" ELSE "stop"
    OBVIOUS
  <2>3. type \in {"stop", "tool_calls"} /\ o[Len(o) - 1].type = type
    BY <1>1, <1>2, <1>3, <2>2 DEF EndTrack
  <2>. QED BY <1>1, <1>2, <1>3, <2>1, <2>3 DEF EndTrack, Closed
<1>4. CASE ~w.done
  <2>1. PICK v : v = Consume(w, TheEnd)
    OBVIOUS
  <2>2. v = [w EXCEPT !.done = TRUE,
               !.out = Append(Append(@, Said(IF w.tool THEN "tool_calls" ELSE "stop", 0, 0)),
                              Said("[DONE]", 0, 0))]
    BY <1>2, <1>4, <2>1, TheEndIs, ConsumeEnd
  <2>3. PICK f, d : f = Said(IF w.tool THEN "tool_calls" ELSE "stop", 0, 0) /\ d = Said("[DONE]", 0, 0)
    OBVIOUS
  <2>4. PICK p : p = v.out
    OBVIOUS
  <2>5. p = Append(Append(o, f), d)
    BY <1>1, <1>2, <2>2, <2>3, <2>4 DEF Writer
  <2>6. v \in Writer
    BY <1>2, <2>1, TheEndWriter
  <2>7. p \in Seq(Chunk)
    BY <2>4, <2>6 DEF Writer
  <2>8. /\ Len(p) = Len(o) + 2 /\ p[Len(o) + 1] = f /\ p[Len(o) + 2] = d
        /\ \A i \in 1..Len(o) : p[i] = o[i]
    <3>1. PICK S : S = Chunk \cup {f, d}
      OBVIOUS
    <3>2. PICK q : q = Append(o, f)
      OBVIOUS
    <3>3. o \in Seq(S) /\ f \in S /\ d \in S
      BY <1>2, <3>1
    <3>4. /\ q \in Seq(S) /\ Len(q) = Len(o) + 1 /\ q[Len(o) + 1] = f
          /\ \A i \in 1..Len(o) : q[i] = o[i]
      BY <3>2, <3>3
    <3>5. /\ Len(p) = Len(q) + 1 /\ p[Len(q) + 1] = d
          /\ \A i \in 1..Len(q) : p[i] = q[i]
      BY <2>5, <3>2, <3>3, <3>4
    <3>. QED BY <1>2, <3>4, <3>5
  <2>9. f.type \in {"stop", "tool_calls"} /\ d.type = "[DONE]"
    BY <2>3 DEF Said
  <2>10. \A i \in 1..Len(o) : ~Closes(p[i].type)
    <3>1. \A i \in 1..Len(o) : ~Closes(o[i].type)
      BY <1>1, <1>2, <1>4 DEF EndTrack
    <3>. QED BY <2>8, <3>1
  <2>11. /\ Len(p) >= 2 /\ Len(p) - 1 = Len(o) + 1 /\ Len(p) - 2 = Len(o)
         /\ p[Len(p)] = d /\ p[Len(p) - 1] = f
    BY <1>2, <2>8
  <2>12. Closed(p)
    BY <2>7, <2>9, <2>10, <2>11 DEF Closed
  <2>. QED BY <1>1, <2>1, <2>4, <2>12
<1>. QED BY <1>3, <1>4

LEMMA LastTwo ==
  ASSUME NEW n \in Nat, NEW j \in 1..n
  PROVE  j = n \/ j = n - 1 \/ j \in 1..(n - 2)
OBVIOUS

\* What the client has of it when it has some of it.
LEMMA ClosedPrefix ==
  ASSUME NEW p, Closed(p), NEW o \in Seq(Chunk), IsPrefix(o, p), NEW i \in Where(o, "[DONE]")
  PROVE  i = Len(o) /\ Where(o, "stop") \cup Where(o, "tool_calls") = {i - 1}
<1>1. PICK n, m : n = Len(o) /\ m = Len(p)
  OBVIOUS
<1>2. p \in Seq(Chunk) /\ m \in Nat /\ m >= 2 /\ n \in Nat /\ DOMAIN o = 1..n
  BY <1>1 DEF Closed
<1>3. /\ p[m].type = "[DONE]" /\ p[m - 1].type \in {"stop", "tool_calls"}
      /\ \A j \in 1..(m - 2) : p[j].type \notin {"stop", "tool_calls", "[DONE]"}
  BY <1>1 DEF Closed, Closes
<1>4. n <= m /\ \A j \in 1..n : o[j] = p[j]
  BY <1>1, <1>2, PrefixIs
<1>5. i \in 1..n /\ o[i].type = "[DONE]"
  BY <1>2 DEF Where
<1>6. p[i].type = "[DONE]"
  BY <1>4, <1>5
<1>7. i = m /\ n = m
  <2>1. i # m - 1 /\ i \notin 1..(m - 2)
    BY <1>3, <1>6
  <2>2. i \in 1..m
    BY <1>2, <1>4, <1>5
  <2>3. i = m
    BY <1>2, <2>1, <2>2, LastTwo
  <2>. QED BY <1>2, <1>4, <1>5, <2>3
<1>8. \A j \in 1..n : o[j].type \in {"stop", "tool_calls"} <=> j = n - 1
  <2>1. ASSUME NEW j \in 1..n
        PROVE  p[j].type \in {"stop", "tool_calls"} <=> j = n - 1
    <3>1. j = n \/ j = n - 1 \/ j \in 1..(n - 2)
      BY <1>2, LastTwo
    <3>2. n # n - 1 /\ n - 1 \notin 1..(n - 2)
      BY <1>2
    <3>. QED BY <1>3, <1>7, <3>1, <3>2
  <2>. QED BY <1>4, <2>1
<1>9. n - 1 \in 1..n
  BY <1>2, <1>7
<1>. QED BY <1>1, <1>2, <1>7, <1>8, <1>9 DEF Where

\* The chunks are an initial part of all that can be written.
LEMMA ChunksOfAll ==
  ASSUME Inv
  PROVE  chat.out \in Seq(Chunk) /\ IsPrefix(chat.out, Consume(Ideal(sent), TheEnd).out)
<1>1. TypeOK /\ Good(sent) /\ ChatInv /\ chat.out \in Seq(Chunk) /\ Len(chat.tail) <= 1
  BY DEF Inv, PhaseInv, TypeOK, Writer
<1>2. PICK w, o, p : w = Ideal(sent) /\ o = w.out /\ p = Consume(w, TheEnd).out
  OBVIOUS
<1>3. w \in Writer /\ o \in Seq(Chunk)
  BY <1>1, <1>2, GoodFacts
<1>4. p \in Seq(Chunk) /\ IsPrefix(o, p)
  <2>1. Consume(w, TheEnd) \in Writer /\ IsPrefix(w.out, Consume(w, TheEnd).out)
    BY <1>3, TheEndWriter
  <2>. QED BY <1>2, <2>1 DEF Writer
<1>5. CASE ~req.stream
  <2>1. chat.out = <<>>
    BY <1>1, <1>5 DEF ChatInv, NewWriter
  <2>2. Len(chat.out) = 0 /\ Len(p) \in Nat
    BY <1>4, <2>1
  <2>3. IsPrefix(chat.out, p)
    BY <1>1, <1>4, <2>2, PrefixIs
  <2>. QED BY <1>1, <1>2, <2>3
<1>6. ASSUME req.stream, NEW front \in Seq(Event), Good(front), InStep(front)
      PROVE  IsPrefix(chat.out, p)
  <2>1. /\ Consumed(chat, Rest).out = Consume(Ideal(sent), TheEnd).out
        /\ IsPrefix(chat.out, Consumed(chat, Rest).out)
    BY <1>1, <1>6, RestMade
  <2>. QED BY <1>2, <2>1
<1>7. CASE req.stream /\ Broken
  <2>1. IsPrefix(chat.out, o) \/ IsPrefix(chat.out, p)
    BY <1>2, <1>7 DEF Broken
  <2>. QED BY <1>1, <1>2, <1>3, <1>4, <2>1, PrefixTrans
<1>8. CASE req.stream /\ Finished
  <2>1. chat.out = p
    BY <1>2, <1>8 DEF Finished
  <2>. QED BY <1>1, <1>2, <2>1, PrefixSelf
<1>. QED BY <1>1, <1>2, <1>5, <1>6, <1>7, <1>8 DEF ChatInv

LEMMA InvOneStream ==
  ASSUME Inv
  PROVE  OneStream
<1>1. PICK p : p = Consume(Ideal(sent), TheEnd).out
  OBVIOUS
<1>2. chat.out \in Seq(Chunk) /\ IsPrefix(chat.out, p) /\ Closed(p) /\ sent \in Seq(Event)
  BY <1>1, ChunksOfAll, ClosedEnd, GoodFacts DEF Inv
<1>3. p = Consumed(NewWriter, sent \o <<Plain("end")>>).out
  <2>1. PICK e \in Event, s \in Seq(Event) : e = TheEnd /\ s = sent
    BY <1>2, TheEndIs
  <2>2. s \o <<e>> = Append(s, e)
    BY <2>1
  <2>3. Consumed(NewWriter, Append(s, e)) = Consume(Consumed(NewWriter, s), e)
    BY <2>1, ConsumedMore
  <2>4. p = Consume(Consumed(NewWriter, s), e).out
    BY <1>1, <2>1 DEF Ideal
  <2>5. p = Consumed(NewWriter, s \o <<e>>).out
    BY <2>2, <2>3, <2>4
  <2>. QED BY <2>1, <2>5 DEF TheEnd
<1>4. PICK o \in Seq(Chunk) : o = chat.out
  BY <1>2
<1>5. \A i \in Where(o, "[DONE]") :
        i = Len(o) /\ Where(o, "stop") \cup Where(o, "tool_calls") = {i - 1}
  <2>1. IsPrefix(o, p) /\ Closed(p)
    BY <1>2, <1>4
  <2>. QED BY <2>1, ClosedPrefix
<1>6. \A type : Chunks(type) = Where(o, type)
  BY <1>4 DEF Chunks, Where
<1>. QED BY <1>2, <1>3, <1>4, <1>5, <1>6 DEF OneStream

\* A stream that is done although the upstream has ended it has all the chunks.
LEMMA DoneChunks ==
  ASSUME Inv, chat.done, Ended(sent)
  PROVE  chat.out = Ideal(sent).out
<1>1. TypeOK /\ Good(sent) /\ ChatInv /\ Len(chat.tail) <= 1
  BY DEF Inv, PhaseInv
<1>2. ASSUME NEW front \in Seq(Event), Good(front), InStep(front)
      PROVE  chat.out = Ideal(sent).out
  BY <1>1, <1>2, RestMade
<1>3. CASE Finished
  <2>1. Ideal(sent) \in Writer /\ Ideal(sent).done
    BY <1>1, GoodFacts
  <2>2. Consume(Ideal(sent), TheEnd) = Ideal(sent)
    BY <2>1, TheEndWriter
  <2>. QED BY <1>3, <2>2 DEF Finished
<1>. QED BY <1>1, <1>2, <1>3 DEF ChatInv, Broken, NewWriter

LEMMA InvStreamMatchesAnswer ==
  ASSUME Inv
  PROVE  StreamMatchesAnswer
<1>1. SUFFICES ASSUME chat.done, Completion(sent) # {}
               PROVE  Reassembled = Assembled(sent)
  BY DEF StreamMatchesAnswer
<1>2. WellFormed(sent) /\ Where(sent, "completed") # {} /\ Good(sent)
  BY <1>1 DEF Inv, Good, Completion
<1>3. /\ Ended(sent)
      /\ Assembled(sent) =
           Told(Cardinality(Texts(sent)),
                {[item |-> i, deltas |-> Deltas(sent, i)] : i \in CallsOf(sent)},
                IF CallsOf(sent) = {} THEN "stop" ELSE "tool_calls")
  BY <1>2, AssembledIs
<1>4. PICK w : w = Ideal(sent)
  OBVIOUS
<1>5. chat.out = w.out /\ w \in Writer /\ w.out \in Seq(Chunk) /\ w.done /\ Tracks(w, sent)
  BY <1>1, <1>2, <1>3, <1>4, DoneChunks, GoodFacts DEF Good
<1>6. \A type : Chunks(type) = Where(w.out, type)
  BY <1>5 DEF Chunks, Where
<1>. DEFINE Args(index) == {j \in Chunks("args") : chat.out[j].index = index}
            told == {[item |-> chat.out[i].item, deltas |-> Cardinality(Args(chat.out[i].index))] :
                       i \in Chunks("call")}
<1>7. Cardinality(Chunks("text")) = Cardinality(Texts(sent))
  BY <1>5, <1>6 DEF Tracks, TextTrack
<1>8. told = {[item |-> k, deltas |-> Deltas(sent, k)] : k \in CallsOf(sent)}
  <2>1. \A index : Args(index) = ArgsOf(w.out, index)
    BY <1>5, <1>6 DEF ArgsOf
  <2>. HIDE DEF Args
  <2>2. ASSUME NEW i \in Chunks("call")
        PROVE  /\ chat.out[i].item \in CallsOf(sent)
               /\ Cardinality(Args(chat.out[i].index)) = Deltas(sent, chat.out[i].item)
    <3>1. i \in Where(w.out, "call")
      BY <1>6
    <3>2. w.out[i].item \in CallsOf(sent) /\ w.out[i].index = w.index[w.out[i].item]
      BY <1>5, <3>1 DEF Tracks, CallTrack
    <3>3. Cardinality(ArgsOf(w.out, w.index[w.out[i].item])) = Deltas(sent, w.out[i].item)
      BY <1>5, <3>2 DEF Tracks, ArgsTrack
    <3>. QED BY <1>5, <2>1, <3>2, <3>3
  <2>3. \A k \in CallsOf(sent) : \E i \in Chunks("call") : chat.out[i].item = k
    BY <1>5, <1>6 DEF Tracks, CallTrack
  <2>. QED BY <2>2, <2>3
<1>. HIDE DEF told
<1>9. Chunks("tool_calls") # {} <=> CallsOf(sent) # {}
  <2>1. w.tool <=> CallsOf(sent) # {}
    BY <1>5 DEF Tracks, IndexTrack
  <2>2. PICK o, n : o = w.out /\ n = Len(o)
    OBVIOUS
  <2>3. o \in Seq(Chunk) /\ n \in Nat /\ DOMAIN o = 1..n
    BY <1>5, <2>2
  <2>4. /\ n >= 2 /\ o[n].type = "[DONE]"
        /\ o[n - 1].type = IF w.tool THEN "tool_calls" ELSE "stop"
        /\ \A i \in 1..(n - 2) : o[i].type # "tool_calls"
    BY <1>5, <2>2 DEF Tracks, EndTrack, Closes
  <2>5. \A i \in 1..n : i = n \/ i = n - 1 \/ i \in 1..(n - 2)
    BY <2>3
  <2>6. n - 1 \in 1..n
    BY <2>3, <2>4
  <2>7. ASSUME w.tool
        PROVE  n - 1 \in Where(o, "tool_calls")
    BY <2>3, <2>4, <2>6, <2>7 DEF Where
  <2>8. ASSUME ~w.tool
        PROVE  Where(o, "tool_calls") = {}
    <3>1. o[n - 1].type = "stop"
      BY <2>4, <2>8
    <3>. QED BY <2>3, <2>4, <2>5, <3>1 DEF Where
  <2>9. Chunks("tool_calls") = Where(o, "tool_calls")
    BY <1>6, <2>2
  <2>. QED BY <2>1, <2>7, <2>8, <2>9
<1>10. Reassembled = Told(Cardinality(Chunks("text")), told,
                          IF Chunks("tool_calls") # {} THEN "tool_calls" ELSE "stop")
  BY DEF Reassembled, told
<1>. QED BY <1>3, <1>7, <1>8, <1>9, <1>10

-----------------------------------------------------------------------------
(* The theorems                                                            *)

LEMMA NextInv ==
  ASSUME Inv, [Next]_vars
  PROVE  Inv'
<1>1. CASE UNCHANGED vars
  <2>1. Good(sent)' /\ TypeOK' /\ PhaseInv' /\ OnlyCompletedAnswered' /\ LogInv'
    BY <1>1 DEF vars, Inv, TypeOK, PhaseInv, OnlyCompletedAnswered, LogInv
  <2>2. ChatInv'
    BY <1>1 DEF vars, Inv, ChatInv, InStep, Broken, Finished
  <2>. QED BY <2>1, <2>2 DEF Inv
<1>. QED BY <1>1, AcceptInv, RejectInv, RelayInv, RelayEndInv, ReadErrorInv, EndEventInv,
            CcaChunkInv, CcaDoneInv, CcaBadInv, CcaEndInv, FinishInv, LeaveInv DEF Next

\* Of every stream the invariant holds: the writer is that of a client that takes
\* everything, or a write has failed, or it is finished (chat.go:339-655).
THEOREM ChatInvariant == Spec => []Inv
<1>1. Init => Inv
  BY InitInv
<1>2. Inv /\ [Next]_vars => Inv'
  BY NextInv
<1>. QED BY <1>1, <1>2, PTL DEF Spec

\* The events, the chunks and the answer stay what they are, however many items and
\* deltas the upstream sends.
THEOREM TypeCorrect == Spec => []TypeOK
<1>1. Inv => TypeOK
  BY DEF Inv
<1>. QED BY <1>1, ChatInvariant, PTL

\* For any number of items and deltas: when a response completes, a client that
\* streams has been told what one that does not stream would have been told
\* (chat.go:339-430 and chat.go:554-655).
THEOREM SameAnswer == Spec => []StreamMatchesAnswer
<1>1. Inv => StreamMatchesAnswer
  BY InvStreamMatchesAnswer
<1>. QED BY <1>1, ChatInvariant, PTL

\* For any number of items and deltas: a client gets an initial part of the chunks of
\* an untroubled client, and [DONE] once, right after the only finish reason
\* (chat.go:506-553, chat.go:629-655).
THEOREM SingleStream == Spec => []OneStream
<1>1. Inv => OneStream
  BY InvOneStream
<1>. QED BY <1>1, ChatInvariant, PTL

\* What broke off, failed or was incomplete is never assembled into an answer
\* (chat.go:401-430).
THEOREM AnswersCompleted == Spec => []OnlyCompletedAnswered
<1>1. Inv => OnlyCompletedAnswered
  BY DEF Inv
<1>. QED BY <1>1, ChatInvariant, PTL


LEMMA InvLoggedAsTold ==
  ASSUME Inv
  PROVE  LoggedAsTold
<1>1. StreamMatchesAnswer
  BY InvStreamMatchesAnswer
<1>2. trace.semantic = "completed" => Completion(sent) # {}
  BY AssembledIs DEF Inv, LogInv, Good
<1>3. req.provider \in {"codex", "google"}
  BY DEF Inv, TypeOK
<1>. QED BY <1>1, <1>2, <1>3 DEF Inv, LogInv, LoggedAsTold, StreamMatchesAnswer

\* The end event and the client tell the same story, for any number of items and
\* deltas: logged as completed, told completely; answered, not logged as broken
\* (gateway.go:517-547, 898-929, chat.go:339-430).
THEOREM LogTruthful == Spec => []LoggedAsTold
<1>1. Inv => LoggedAsTold
  BY InvLoggedAsTold
<1>. QED BY <1>1, ChatInvariant, PTL
=============================================================================
