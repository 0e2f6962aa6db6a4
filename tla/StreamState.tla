----------------------------- MODULE StreamState -----------------------------
(***************************************************************************)
(* The encoders of the gateway: streamState of gateway/stream.go, which    *)
(* turns each upstream event into frames of a Chat, Responses or Messages  *)
(* stream, and accumulated of gateway/response.go, which gathers the       *)
(* events of an answer that is sent as one JSON document.                  *)
(*                                                                         *)
(* A frame says which output item or content block it is about and which   *)
(* argument fragments it carries; texts are left out.                      *)
(***************************************************************************)
EXTENDS EventParser

Frame(type, at, item, args) == [type |-> type, at |-> at, item |-> item, args |-> args]
Emit(s, frames) == [s EXCEPT !.out = @ \o frames]
Text == Id("msg", 0)
Reasoning == Id("rs", 0)

NewStream == [tools |-> <<>>, keys |-> {}, usage |-> FALSE, next |-> 0, text |-> -1, reasoning |-> -1,
              open |-> FALSE, blockKind |-> "", blockTool |-> NoId, blockIndex |-> 0, out |-> <<>>]

\* start: the frames that precede the first event.
Start(s, op) == Emit(s, CASE op = "chat" -> <<Frame("role", -1, NoId, <<>>)>>
                          [] op = "responses" -> <<Frame("created", -1, NoId, <<>>)>>
                          [] op = "messages" -> <<Frame("message_start", -1, NoId, <<>>)>>)

(* record: a tool call is looked up by the id of the event, and from then on is also known by
   the item id.  The answer is the new state, the tool's place and whether it is new. *)
Record(s, e) ==
  LET known == {b \in s.keys : b[1] = e.id}
      fresh == known = {}
      n     == IF fresh THEN Len(s.tools) + 1 ELSE (CHOOSE b \in known : TRUE)[2]
      tools == IF fresh THEN Append(s.tools, [id |-> e.id, itemID |-> e.itemID, outputIndex |-> -1,
                                              args |-> e.args])
               ELSE [s.tools EXCEPT ![n].itemID = e.itemID, ![n].args = @ \o e.args]
  IN  [s |-> [s EXCEPT !.tools = tools,
                       !.keys = {b \in @ : b[1] \notin {e.id, e.itemID}}
                                \cup {<<e.id, n>>, <<e.itemID, n>>}],
       n |-> n, fresh |-> fresh]

\* chatEvent: one chunk; the first one of a tool call names it.
ChatEvent(s, e) ==
  IF e.kind # "tool" THEN Emit(s, <<Frame("content", -1, NoId, <<>>)>>)
  ELSE LET r == Record(s, e)
       IN  Emit(r.s, <<Frame("tool_calls", r.n - 1, IF r.fresh THEN e.id ELSE NoId, e.args)>>)

\* ensureResponseText and ensureResponseReasoning: the item is added at its first delta.
EnsureText(s) ==
  IF s.text >= 0 THEN s
  ELSE Emit([s EXCEPT !.text = s.next, !.next = @ + 1], <<Frame("added", s.next, Text, <<>>)>>)
EnsureReasoning(s) ==
  IF s.reasoning >= 0 THEN s
  ELSE Emit([s EXCEPT !.reasoning = s.next, !.next = @ + 1], <<Frame("added", s.next, Reasoning, <<>>)>>)

ResponsesTool(s, e) ==
  LET r     == Record(s, e)
      tool  == r.s.tools[r.n]
      added == IF tool.outputIndex >= 0 THEN r.s
               ELSE Emit([r.s EXCEPT !.tools[r.n].outputIndex = r.s.next, !.next = @ + 1],
                         <<Frame("added", r.s.next, tool.itemID, <<>>)>>)
  IN  IF e.args = <<>> THEN added
      ELSE Emit(added, <<Frame("delta", added.tools[r.n].outputIndex, tool.itemID, e.args)>>)

ResponsesEvent(s, e) ==
  CASE e.kind = "tool" -> ResponsesTool(s, e)
    [] e.kind = "reasoning" ->
         LET q == EnsureReasoning(s) IN Emit(q, <<Frame("delta", q.reasoning, Reasoning, <<>>)>>)
    [] e.kind \in {"text", "image", "video"} ->
         LET q == EnsureText(s) IN Emit(q, <<Frame("delta", q.text, Text, <<>>)>>)

\* Mutant: the next block takes the index of the one just closed.
CloseBlockInPlace(s) ==
  IF ~s.open THEN s
  ELSE Emit([s EXCEPT !.open = FALSE, !.blockTool = NoId],
            <<Frame("block_stop", s.blockIndex, NoId, <<>>)>>)

CloseBlock(s) ==
  IF ~s.open THEN s
  ELSE Emit([s EXCEPT !.open = FALSE, !.blockTool = NoId, !.blockIndex = @ + 1],
            <<Frame("block_stop", s.blockIndex, NoId, <<>>)>>)

OpenBlock(s, kind, tool) ==
  LET q == CloseBlock(s)
  IN  Emit([q EXCEPT !.open = TRUE, !.blockKind = kind, !.blockTool = tool],
           <<Frame("block_start", q.blockIndex, tool, <<>>)>>)

(* messagesEvent: a delta goes to the open block when that is of its kind, and of its tool;
   otherwise the open block is closed and another one opened. *)
MessagesEvent(s, e) ==
  LET kind == IF e.kind \in {"image", "video"} THEN "text" ELSE e.kind
      q    == IF kind = "tool" THEN Record(s, e).s ELSE s
      fits == s.open /\ s.blockKind = kind /\ (kind = "tool" => s.blockTool = e.id)
      b    == IF fits THEN q ELSE OpenBlock(q, kind, e.id)
  IN  IF kind = "tool" /\ e.args = <<>> THEN b
      ELSE Emit(b, <<Frame("block_delta", b.blockIndex, e.id, e.args)>>)

\* event
StreamEvent(s, op, e) ==
  CASE e.kind = "usage" -> [s EXCEPT !.usage = TRUE]
    [] e.kind # "usage" /\ op = "chat" -> ChatEvent(s, e)
    [] e.kind # "usage" /\ op = "responses" -> ResponsesEvent(s, e)
    [] e.kind # "usage" /\ op = "messages" -> MessagesEvent(s, e)

\* finishResponses: every item is closed, then the response with its output array.
FinishResponses(s) ==
  LET done(at, item, args) == IF at < 0 THEN <<>> ELSE <<Frame("done", at, item, args)>>
  IN  Emit(s, done(s.reasoning, Reasoning, <<>>) \o done(s.text, Text, <<>>)
              \o FlattenSeq([n \in DOMAIN s.tools |->
                   done(s.tools[n].outputIndex, s.tools[n].itemID, s.tools[n].args)])
              \o <<Frame("completed", s.next, NoId, <<>>)>>)

\* finish and writeError: the frames that end the stream.
Finish(s, op) ==
  CASE op = "chat" -> Emit(s, <<Frame("finish", Len(s.tools), NoId, <<>>), Frame("end", -1, NoId, <<>>)>>)
    [] op = "responses" -> Emit(FinishResponses(s), <<Frame("end", -1, NoId, <<>>)>>)
    [] op = "messages" -> Emit(CloseBlock(s), <<Frame("finish", Len(s.tools), NoId, <<>>),
                                                Frame("end", -1, NoId, <<>>)>>)
WriteError(s, op) ==
  Emit(s, <<Frame("error", -1, NoId, <<>>)>>
          \o (IF op = "messages" THEN <<>> ELSE <<Frame("end", -1, NoId, <<>>)>>))

\* The accumulated answer: tool calls by id, and the last error.
NoAnswer == [tools |-> <<>>, media |-> <<>>, usage |-> FALSE, err |-> FALSE]

AddTool(a, e) ==
  LET same == {n \in DOMAIN a.tools : a.tools[n].id = e.id}
  IN  IF same = {} THEN [a EXCEPT !.tools = Append(@, [id |-> e.id, args |-> e.args])]
      ELSE [a EXCEPT !.tools[CHOOSE n \in same : TRUE].args = @ \o e.args]

\* A picture asked for as data is not compared with the others, one asked for as a URL is.
AddEncoded(a, e) == [a EXCEPT !.media = Append(@, e)]
Add(a, e) ==
  CASE e.kind = "tool" -> AddTool(a, e)
    [] e.kind \in {"image", "video"} -> IF e \in Range(a.media) THEN a ELSE AddEncoded(a, e)
    [] e.kind = "usage" -> [a EXCEPT !.usage = TRUE]
    [] e.kind = "error" -> [a EXCEPT !.err = TRUE]
    [] e.kind \in {"text", "reasoning", "done"} -> a

-----------------------------------------------------------------------------
\* What a client can check of the frames f it has received.
Occurs(f, type) == {i \in DOMAIN f : f[i].type = type}

(* An output item is added once, at the next index, every delta and its end go to an item that
   is open, under the same id, and the response is complete with all its items closed. *)
OutputWellFormed(f) ==
  /\ \A i \in Occurs(f, "added") : f[i].at = Cardinality({j \in Occurs(f, "added") : j < i})
  /\ \A i \in Occurs(f, "delta") \cup Occurs(f, "done") :
       /\ \E j \in Occurs(f, "added") : j < i /\ f[j].at = f[i].at /\ f[j].item = f[i].item
       /\ ~\E j \in Occurs(f, "done") : j < i /\ f[j].at = f[i].at
  /\ \A i \in Occurs(f, "completed") :
       /\ f[i].at = Cardinality(Occurs(f, "added"))
       /\ {f[j].at : j \in Occurs(f, "done")} = 0..(f[i].at - 1)

(* Content blocks do not overlap, are numbered in order, and all are closed when the message
   ends. *)
BlocksWellFormed(f) ==
  LET starts(i) == Cardinality({j \in Occurs(f, "block_start") : j <= i})
      stops(i)  == Cardinality({j \in Occurs(f, "block_stop") : j <= i})
  IN  \A i \in DOMAIN f :
        /\ starts(i) - stops(i) \in {0, 1}
        /\ f[i].type \in {"block_start", "block_delta"} =>
             f[i].at = starts(i) - 1 /\ starts(i) - stops(i) = 1
        /\ f[i].type = "block_stop" => f[i].at = starts(i) - 1
        /\ f[i].type = "finish" => starts(i) = stops(i)

\* Nothing follows the end, and an answer has at most one of finish and error.
EndsOnce(f) ==
  /\ \A i \in Occurs(f, "end") : i = Len(f)
  /\ Cardinality(Occurs(f, "finish") \cup Occurs(f, "completed") \cup Occurs(f, "error")) <= 1

(* The argument fragments sent for the tool call with this id, in order; a chunk of a Chat stream
   has the number of its tool call instead, which the first chunk gives. *)
ArgumentsOf(f, item) ==
  LET named   == {f[i].at : i \in {j \in Occurs(f, "tool_calls") : f[j].item = item}}
      mine(x) == \/ x.type = "tool_calls" /\ x.at \in named
                 \/ x.type \in {"delta", "block_delta"} /\ x.item = item
  IN  FlattenSeq([n \in DOMAIN f |-> IF mine(f[n]) THEN f[n].args ELSE <<>>])
=============================================================================
