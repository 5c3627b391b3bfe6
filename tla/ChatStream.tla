----------------------------- MODULE ChatStream -----------------------------
(***************************************************************************)
(* One Chat Completions request on its way back: the canonical Responses   *)
(* events, relayed from ChatGPT by the gateway's proxy, which observes     *)
(* them for the request's end event (internal/gateway), or translated from *)
(* Google's stream (internal/antigravity/response.go); and what the chat   *)
(* handler makes of them (internal/openaiapi): chunks for a streaming      *)
(* client, one answer for any other.                                       *)
(*                                                                         *)
(* An item is a number, its place in the output; of what it says, the      *)
(* number of deltas is left.  A frame that arrives in pieces is there when *)
(* its last piece is, and one that never becomes whole never was.          *)
(***************************************************************************)
EXTENDS Integers, Sequences, FiniteSets, SequencesExt

CONSTANTS
  MaxItems, MaxDeltas   \* bounds on what the upstream sends

ASSUME StreamAssumption == MaxItems \in Nat \ {0} /\ MaxDeltas \in Nat \ {0}

VARIABLES
  req,    \* the provider, and whether the client wants a stream
  pc,     \* where the request stands
  user,   \* the client: there, gone, or gone and noticed by the server
  sent,   \* the canonical events so far
  cca,    \* what translateCCAStream remembers
  chat,   \* the chatStreamWriter, and the chunks it has written
  trace,  \* the requestTrace, or its likes for Google
  answer  \* the answer to a client that does not stream

vars == <<req, pc, user, sent, cca, chat, trace, answer>>

Items == 1..MaxItems
Ends == {"completed", "failed", "incomplete"}

\* kind is that of an item; of a completed response, whether it repeats the items.
Event == [type : {"created", "added", "delta", "itemDone", "end"} \cup Ends,
          item : Items \cup {0}, kind : {"none", "message", "call", "full", "empty"}]

Plain(type) == [type |-> type, item |-> 0, kind |-> "none"]
Completed(kind) == [type |-> "completed", item |-> 0, kind |-> kind]

\* item is not in a chunk: it tells whose arguments the chunk carries.
Chunk == [type : {"role", "text", "call", "args", "stop", "tool_calls", "[DONE]"},
          index : 0..MaxItems, item : Items \cup {0}]

Writer == [done : BOOLEAN, err : BOOLEAN, tool : BOOLEAN, next : 0..MaxItems,
           index : [Items -> 0..MaxItems \cup {-1}], tail : Seq(Event),
           out : Seq(Chunk)]

NewWriter == [done |-> FALSE, err |-> FALSE, tool |-> FALSE, next |-> 0,
              index |-> [i \in Items |-> -1], tail |-> <<>>, out |-> <<>>]

\* What a client is told: the number of its texts, the deltas of every call, and why
\* it ended.
Told(text, calls, finish) ==
  [status |-> "ok", text |-> text, calls |-> calls, finish |-> finish]
Untold(status) == [status |-> status, text |-> 0, calls |-> {}, finish |-> "none"]

Answer == [status : {"none", "error", "ok"}, text : Nat,
           calls : SUBSET [item : Items, deltas : Nat],
           finish : {"none", "stop", "tool_calls"}]

TypeOK ==
  /\ req \in [provider : {"codex", "google"}, stream : BOOLEAN]
  /\ pc \in {"open", "streaming", "served", "aborting", "answering", "done"}
  /\ user \in {"there", "gone", "noticed"}
  /\ sent \in Seq(Event)
  /\ cca \in [data : BOOLEAN, terminal : BOOLEAN, message : Items \cup {0}, failed : BOOLEAN]
  /\ chat \in Writer
  /\ trace \in [semantic : {"unobserved"} \cup Ends, eof : BOOLEAN, readError : BOOLEAN,
                writeError : BOOLEAN,
                outcome : {"none", "client_cancel", "upstream_read_error",
                           "downstream_write_error", "body_eof", "unknown"}]
  /\ answer \in Answer

Init ==
  /\ req \in [provider : {"codex", "google"}, stream : BOOLEAN]
  /\ pc = "open" /\ user = "there"
  /\ sent = <<>>
  /\ cca = [data |-> FALSE, terminal |-> FALSE, message |-> 0, failed |-> FALSE]
  /\ chat = NewWriter
  /\ trace = [semantic |-> "unobserved", eof |-> FALSE, readError |-> FALSE,
              writeError |-> FALSE, outcome |-> "none"]
  /\ answer = Untold("none")

-----------------------------------------------------------------------------
(* Events and their items                                                  *)

Where(evs, type) == {i \in DOMAIN evs : evs[i].type = type}
ItemsOf(evs, type) == {evs[i].item : i \in Where(evs, type)}
Deltas(evs, item) == Cardinality({i \in Where(evs, "delta") : evs[i].item = item})
NextItem == Cardinality(ItemsOf(sent, "added")) + 1
KindOf(evs, item) == evs[CHOOSE i \in Where(evs, "added") : evs[i].item = item].kind
Over == \E type \in Ends : Where(sent, type) # {}

\* The first completed event decides; it may leave its output to the items that
\* were done before.
Completion(evs) == {i \in Where(evs, "completed") : \A j \in Where(evs, "completed") : i <= j}

AssembledAnyway(evs) ==
  LET items == ItemsOf(evs, "itemDone")
      calls == {i \in items : KindOf(evs, i) = "call"}
  IN Told(Cardinality({i \in Where(evs, "delta") : evs[i].item \in items \ calls}),
          {[item |-> i, deltas |-> Deltas(evs, i)] : i \in calls},
          IF calls = {} THEN "stop" ELSE "tool_calls")

\* What a client that does not stream is told.
Assembled(evs) ==
  IF Completion(evs) = {} THEN Untold("error")
  ELSE LET c == CHOOSE i \in Completion(evs) : TRUE
           before == SubSeq(evs, 1, c)
           items == ItemsOf(before, IF evs[c].kind = "full" THEN "added" ELSE "itemDone")
           calls == {i \in items : KindOf(before, i) = "call"}
           said == {i \in Where(before, "delta") : before[i].item \in items \ calls}
       IN Told(Cardinality(said), {[item |-> i, deltas |-> Deltas(before, i)] : i \in calls},
               IF calls = {} THEN "stop" ELSE "tool_calls")

-----------------------------------------------------------------------------
(* The chat stream writer                                                  *)

BlockedNever(w) == FALSE

\* After a failed write nothing more is consumed.
Blocked(w) == w.err

\* One write to the client; after the final chunk there is none.
Emit(w, type, index, item) ==
  IF w.done THEN w
  ELSE [w EXCEPT !.out = Append(@, [type |-> type, index |-> index, item |-> item])]

\* emitFinal.
Final(w) ==
  [Emit(Emit(w, IF w.tool THEN "tool_calls" ELSE "stop", 0, 0), "[DONE]", 0, 0)
     EXCEPT !.done = TRUE]

IndexByOutput(w, e) == e.item - 1

\* The call an argument delta belongs to is known by its item's id.
IndexOf(w, e) == IF w.index[e.item] >= 0 THEN w.index[e.item] ELSE e.item - 1

HeardAsNew(w) == [w EXCEPT !.tool = TRUE, !.next = @ + 1]

\* Arguments alone make the answer one of tool calls.
Heard(w) == [w EXCEPT !.tool = TRUE]

\* consumeFrame.
Consume(w, e) ==
  CASE e.type = "created" -> Emit(w, "role", 0, 0)
    [] e.type = "delta" /\ e.kind = "message" -> Emit(w, "text", 0, 0)
    [] e.type = "added" /\ e.kind = "call" ->
         Emit([w EXCEPT !.index[e.item] = w.next, !.next = @ + 1, !.tool = TRUE],
              "call", w.next, e.item)
    [] e.type = "delta" /\ e.kind = "call" ->
         Emit(Heard(w), "args", IndexOf(w, e), e.item)
    [] e.type \in Ends \cup {"end"} -> Final(w)
    [] OTHER -> w

\* The writer after some events, if every write succeeds.
Consumed(w, evs) ==
  LET after[n \in 0..Len(evs)] == IF n = 0 THEN w ELSE Consume(after[n - 1], evs[n])
  IN after[Len(evs)]

\* A client that has left may still take some of the chunks before a write fails.  A
\* client that does not stream has its events captured.
Written(evs) ==
  IF ~req.stream \/ Blocked(chat) THEN {chat}
  ELSE LET all == Consumed(chat, evs)
       IN {all} \cup {[chat EXCEPT !.err = TRUE, !.out = SubSeq(all.out, 1, n)] :
                        n \in IF user = "there" THEN {} ELSE Len(chat.out)..(Len(all.out) - 1)}

-----------------------------------------------------------------------------
(* The gateway: ReverseProxy relays, requestTrace observes                 *)

\* What ChatGPT may send next.
CodexEvents ==
  LET added == ItemsOf(sent, "added")
      open == added \ ItemsOf(sent, "itemDone")
      Of(type, item) == [type |-> type, item |-> item, kind |-> KindOf(sent, item)]
  IN IF sent = <<>> THEN {Plain("created")}
     ELSE IF Over THEN {}
     ELSE {[type |-> "added", item |-> NextItem, kind |-> k] :
             k \in IF NextItem \in Items THEN {"message", "call"} ELSE {}}
          \cup {Of("delta", i) : i \in {i \in open : Deltas(sent, i) < MaxDeltas}}
          \cup {Of("itemDone", i) : i \in open}
          \cup {Plain(type) : type \in {"failed", "incomplete"}}
          \cup {Completed(kind) : kind \in IF open = {} THEN {"full", "empty"} ELSE {}}

\* sseObserver: the first end it sees is the one.
Observed(semantic, e) == IF semantic = "unobserved" /\ e.type \in Ends THEN e.type ELSE semantic

\* A chunk is read, perhaps together with the end of the body, and written on.
\* A write that fails stops the proxy.
Relay ==
  /\ pc = "streaming" /\ req.provider = "codex"
  /\ \E e \in CodexEvents, eof \in BOOLEAN : \E w \in Written(<<e>>) :
       /\ sent' = Append(sent, e)
       /\ chat' = w
       /\ trace' = [trace EXCEPT !.semantic = Observed(@, e), !.eof = eof, !.writeError = w.err]
       /\ pc' = IF w.err THEN "aborting" ELSE IF eof THEN "served" ELSE "streaming"
  /\ UNCHANGED <<req, user, cca, answer>>

\* The body ends; its last frame may lack its newline.
RelayEnd ==
  /\ pc = "streaming" /\ req.provider = "codex"
  /\ \E tail \in {<<>>} \cup {<<e>> : e \in CodexEvents} :
       /\ sent' = sent \o tail
       /\ chat' = IF req.stream THEN [chat EXCEPT !.tail = tail] ELSE chat
  /\ trace' = [trace EXCEPT !.eof = TRUE]
  /\ pc' = "served"
  /\ UNCHANGED <<req, user, cca, answer>>

\* The upstream breaks off, or the client's departure has canceled it.
ReadError ==
  /\ pc = "streaming"
  /\ IF req.provider = "codex"
       THEN pc' = "aborting" /\ UNCHANGED cca
       ELSE pc' = "served" /\ cca' = [cca EXCEPT !.failed = TRUE]
  /\ trace' = [trace EXCEPT !.readError = TRUE,
                            !.semantic = IF req.provider = "codex" THEN @ ELSE "failed"]
  /\ UNCHANGED <<req, user, sent, chat, answer>>

OutcomeByBody(t) ==
  CASE user = "noticed" -> "client_cancel"
    [] user # "noticed" /\ t.eof -> "body_eof"
    [] user # "noticed" /\ ~t.eof /\ t.readError -> "upstream_read_error"
    [] OTHER -> "downstream_write_error"

\* endEvent.
Outcome(t) ==
  CASE user = "noticed" -> "client_cancel"
    [] user # "noticed" /\ t.readError -> "upstream_read_error"
    [] user # "noticed" /\ ~t.readError /\ t.writeError -> "downstream_write_error"
    [] user # "noticed" /\ ~t.readError /\ ~t.writeError /\ t.eof -> "body_eof"
    [] OTHER -> "unknown"

\* The end event is on its way before the chat handler goes on; after an aborted
\* relay it does not go on at all.
EndEvent ==
  /\ pc \in {"served", "aborting"}
  /\ trace' = [trace EXCEPT !.outcome = IF req.provider = "codex" THEN Outcome(trace)
                                        ELSE IF cca.failed THEN "upstream_read_error"
                                        ELSE "body_eof"]
  /\ pc' = IF pc = "served" THEN "answering" ELSE "done"
  /\ UNCHANGED <<req, user, sent, cca, chat, answer>>

-----------------------------------------------------------------------------
(* translateCCAStream                                                      *)

\* The translator writes events, and does not mind if nobody takes them.
Translate(evs, state, next) ==
  /\ sent' = sent \o evs
  /\ chat' \in Written(evs)
  /\ cca' = state
  /\ trace' = IF next # "served" THEN trace
              ELSE [trace EXCEPT !.semantic = IF state.failed THEN "failed" ELSE "completed",
                                 !.eof = ~state.failed]
  /\ pc' = next
  /\ UNCHANGED <<req, user, answer>>

\* The events for a part of a chunk.
PartEvents(part) ==
  LET Of(type, item, kind) == [type |-> type, item |-> item, kind |-> kind] IN
  CASE part = "text" /\ cca.message = 0 -> <<Of("added", NextItem, "message"),
                                              Of("delta", NextItem, "message")>>
    [] part = "text" /\ cca.message # 0 -> <<Of("delta", cca.message, "message")>>
    [] part = "call" -> <<Of("added", NextItem, "call"), Of("delta", NextItem, "call"),
                          Of("itemDone", NextItem, "call")>>
    [] OTHER -> <<>>

\* A chunk; finishReason or usage make it terminal.  A call seen before and a
\* thought are nothing.
CcaChunk ==
  /\ pc = "streaming" /\ req.provider = "google"
  /\ \E part \in {"text", "call", "nothing"}, terminal \in BOOLEAN :
       /\ part = "call" \/ (part = "text" /\ cca.message = 0) => NextItem \in Items
       /\ part = "text" /\ cca.message # 0 => Deltas(sent, cca.message) < MaxDeltas
       /\ Translate(PartEvents(part),
            [cca EXCEPT !.data = TRUE, !.terminal = @ \/ terminal,
                        !.message = IF part = "text" /\ @ = 0 THEN NextItem ELSE @],
            "streaming")

\* [DONE].
CcaDone ==
  /\ pc = "streaming" /\ req.provider = "google" /\ ~cca.terminal
  /\ Translate(<<>>, [cca EXCEPT !.terminal = TRUE], "streaming")

\* An event that is malformed or says that something went wrong.
CcaBad ==
  /\ pc = "streaming" /\ req.provider = "google"
  /\ Translate(<<Plain("failed")>>, [cca EXCEPT !.failed = TRUE], "served")

\* The end of the body, before or after a terminal response.
CcaEnd ==
  /\ pc = "streaming" /\ req.provider = "google"
  /\ IF cca.data /\ cca.terminal
       THEN Translate((IF cca.message = 0 THEN <<>>
                       ELSE <<[type |-> "itemDone", item |-> cca.message, kind |-> "message"]>>)
                      \o <<Completed("full")>>, cca, "served")
       ELSE Translate(<<Plain("failed")>>, [cca EXCEPT !.failed = TRUE], "served")

-----------------------------------------------------------------------------
(* The chat handler                                                        *)

\* The request is well-formed and the backend's status is fine; or not.
Accept ==
  /\ pc = "open"
  /\ IF req.provider = "google" THEN Translate(<<Plain("created")>>, cca, "streaming")
     ELSE pc' = "streaming" /\ UNCHANGED <<req, user, sent, cca, chat, trace, answer>>

Reject ==
  /\ pc = "open"
  /\ pc' = "done" /\ answer' = Untold("error")
  /\ UNCHANGED <<req, user, sent, cca, chat, trace>>

\* finish: what is left in the buffer, and a final chunk if there was none.
Rest == IF chat.done THEN <<>> ELSE chat.tail \o <<Plain("end")>>

\* The backend has returned.
Finish ==
  /\ pc = "answering"
  /\ IF req.stream
       THEN /\ chat' \in IF user = "noticed" THEN {chat} ELSE Written(Rest)
            /\ UNCHANGED answer
       ELSE answer' = Assembled(sent) /\ UNCHANGED chat
  /\ pc' = "done"
  /\ UNCHANGED <<req, user, sent, cca, trace>>

\* The client leaves, and the server notices.
Leave ==
  /\ pc # "done"
  /\ user' = CASE user = "there" -> "gone" [] OTHER -> "noticed"
  /\ UNCHANGED <<req, pc, sent, cca, chat, trace, answer>>

Next ==
  \/ Accept \/ Reject \/ Relay \/ RelayEnd \/ ReadError \/ EndEvent
  \/ CcaChunk \/ CcaDone \/ CcaBad \/ CcaEnd \/ Finish \/ Leave

Spec == Init /\ [][Next]_vars

-----------------------------------------------------------------------------
(* Properties                                                              *)

Chunks(type) == {i \in DOMAIN chat.out : chat.out[i].type = type}

\* What a streaming client can make of its chunks.
Reassembled ==
  LET Args(index) == {j \in Chunks("args") : chat.out[j].index = index}
  IN Told(Cardinality(Chunks("text")),
          {[item |-> chat.out[i].item, deltas |-> Cardinality(Args(chat.out[i].index))] :
             i \in Chunks("call")},
          IF Chunks("tool_calls") # {} THEN "tool_calls" ELSE "stop")

\* When the response completes, a client that streams has been told what one that
\* does not stream would have been told: the same text, every call with its own
\* arguments, and the same finish reason, by two translations that share no code
\* (chat.go:339-430 and chat.go:554-655).
StreamMatchesAnswer ==
  chat.done /\ Completion(sent) # {} => Reassembled = Assembled(sent)

\* The chunks are always an initial part of those an untroubled client gets, so
\* that a failed write is never followed by one that gets through, although the
\* Google translator goes on writing; and [DONE] comes once, right after the only
\* finish reason, be it the upstream or the handler that ends the stream
\* (chat.go:506-553, chat.go:629-655, response.go:268-277).
OneStream ==
  /\ IsPrefix(chat.out, Consumed(NewWriter, sent \o <<Plain("end")>>).out)
  /\ \A i \in Chunks("[DONE]") :
       /\ i = Len(chat.out)
       /\ Chunks("stop") \cup Chunks("tool_calls") = {i - 1}

\* A stream that broke off, failed or was incomplete is never assembled into an
\* answer (docs/openai-compatible-api.md:168, chat.go:401-430).
OnlyCompletedAnswered ==
  answer.status = "ok" =>
    /\ Where(sent, "completed") # {}
    /\ ~cca.failed /\ ~trace.readError

\* The end event and the client tell the same story, although the observer, the
\* chunk writer and the assembler each parse the stream for themselves.  A request
\* logged as read to its end and completed has told a streaming client the whole
\* answer and has given any other its answer, even if the client was leaving; of a
\* Google stream, whose translator does not notice that nobody takes what it writes,
\* if the client stayed.  And nobody is given an answer whose request is logged as
\* broken, failed or incomplete (gateway.go:517-547, 898-929, chat.go:339-430).
LoggedAsTold ==
  /\ /\ pc = "done" /\ trace.outcome = "body_eof" /\ trace.semantic = "completed"
     /\ req.provider = "google" => user = "there"
     => IF req.stream THEN chat.done /\ Reassembled = Assembled(sent)
        ELSE answer.status = "ok"
  /\ answer.status = "ok" =>
       /\ trace.outcome \in {"body_eof", "client_cancel"}
       /\ trace.semantic \in {"completed", "unobserved"}

\* Promised by docs/openai-compatible-api.md:168: a Google stream that is malformed
\* or truncated is not treated as a completed generation.
TruncatedNotCompleted == cca.failed => ~chat.done
=============================================================================
