---------------------------- MODULE EventParser ----------------------------
(***************************************************************************)
(* The parser of upstream/event_parser.go: from the messages an upstream   *)
(* sends, over SSE or as one JSON body, to the events the gateway encodes. *)
(*                                                                         *)
(* The identifiers of a tool call t are its item id, its call id and its   *)
(* output index; a provider sends some of them on an item and some on a    *)
(* fragment of its arguments.  Arguments are sequences of fragments, and   *)
(* every other payload is left out: a message says only what the parser's  *)
(* control depends on.                                                     *)
(***************************************************************************)
EXTENDS Integers, Sequences, SequencesExt, FiniteSetsExt

Id(kind, t) == <<kind, t>>
NoId == <<"", 0>>

\* An event for the gateway; only a tool call and a picture carry data.
Event(kind) == [kind |-> kind, id |-> NoId, itemID |-> NoId, args |-> <<>>, url |-> 0]
Picture(url) == [Event("image") EXCEPT !.url = url]

NewParser == [tools |-> <<>>, keys |-> {}, images |-> {}, done |-> FALSE]

\* An identifier of the message, or the empty one when the provider leaves it out.
Field(m, kind) == IF kind \in m.has THEN Id(kind, m.tool) ELSE NoId

\* item_id, call_id and output_index, in the order in which they are tried.
ToolKeys(m) == <<Field(m, "item"), Field(m, "call"), Field(m, "output")>>

\* The tool that the first known key of a message is bound to, 0 when none is known.
Bound(p, keys) ==
  LET known == {i \in DOMAIN keys : \E b \in p.keys : b[1] = keys[i]}
  IN  IF known = {} THEN 0 ELSE (CHOOSE b \in p.keys : b[1] = keys[Min(known)])[2]

\* A tool is also known by its id as if that were a call id, which it mostly is.
CallKey(id) == IF id[1] = "call" THEN id ELSE Id("other", id[2])

BindToolKeys(p, n, keys) ==
  LET mine == (Range(keys) \ {NoId}) \cup {CallKey(p.tools[n].id)}
  IN  [p EXCEPT !.keys = {b \in @ : b[1] \notin mine} \cup {<<key, n>> : key \in mine}]

\* The first identifier that is there.
FirstOf(first, second) == IF first # NoId THEN first ELSE second

(* The state of the tool a message is about, made when no key knows it.  An item renames it,
   a fragment of arguments does not. *)
ToolState(p, m) ==
  LET keys == ToolKeys(m)
      n    == Bound(p, keys)
      call == FirstOf(Field(m, "call"), Field(m, "item"))
      made == [id     |-> IF call = NoId THEN Id("new", Len(p.tools)) ELSE call,
               itemID |-> IF Field(m, "item") = NoId THEN Id("fc", m.tool) ELSE Field(m, "item"),
               announced |-> FALSE, argumentsSeen |-> FALSE]
      known == [p.tools[n] EXCEPT
                  !.id     = IF m.item /\ call # NoId THEN call ELSE @,
                  !.itemID = IF m.item /\ Field(m, "item") # NoId THEN Field(m, "item") ELSE @]
  IN  IF n = 0 THEN [n |-> Len(p.tools) + 1,
                     p |-> BindToolKeys([p EXCEPT !.tools = Append(@, made)], Len(p.tools) + 1, keys)]
      ELSE [n |-> n, p |-> [BindToolKeys(p, n, keys) EXCEPT !.tools[n] = known]]

ToolEvent(p, n, args) ==
  [Event("tool") EXCEPT !.id = p.tools[n].id, !.itemID = p.tools[n].itemID, !.args = args]

Parsed(p, events) == [p |-> p, events |-> events]

(* response.output_item.added and .done of a function call: announce it once, and pass its
   arguments on once. *)
FunctionItem(p, m) ==
  LET s    == ToolState(p, m)
      tool == s.p.tools[s.n]
      late == m.type = "itemDone" /\ m.args # <<>> /\ ~tool.argumentsSeen
  IN  IF tool.announced
      THEN Parsed(IF late THEN [s.p EXCEPT !.tools[s.n].argumentsSeen = TRUE] ELSE s.p,
                  IF late THEN <<ToolEvent(s.p, s.n, m.args)>> ELSE <<>>)
      ELSE Parsed([s.p EXCEPT !.tools[s.n].announced = TRUE,
                              !.tools[s.n].argumentsSeen = (m.args # <<>>)],
                  <<ToolEvent(s.p, s.n, m.args)>>)

\* response.function_call_arguments.delta
ArgumentsDelta(p, m) ==
  LET s == ToolState(p, m)
  IN  Parsed([s.p EXCEPT !.tools[s.n].argumentsSeen = TRUE], <<ToolEvent(s.p, s.n, m.args)>>)

\* response.function_call_arguments.done: all of them, unless fragments came first.
ArgumentsDone(p, m) ==
  LET s == ToolState(p, m)
  IN  IF s.p.tools[s.n].argumentsSeen THEN Parsed(s.p, <<>>) ELSE ArgumentsDelta(p, m)

\* A picture repeated under the same item is passed on once.
ImageItem(p, m) ==
  IF <<m.tool, m.url>> \in p.images THEN Parsed(p, <<>>)
  ELSE Parsed([p EXCEPT !.images = {i \in @ : i[1] # m.tool} \cup {<<m.tool, m.url>>}],
              <<Picture(m.url)>>)

\* A picture or video found twice in one message is passed on once.
DeduplicateMedia(events) ==
  FlattenSeq([i \in DOMAIN events |->
    IF events[i].kind \in {"image", "video"} /\ \E j \in 1..(i - 1) : events[j] = events[i] THEN <<>>
    ELSE <<events[i]>>])

\* The usage a message reports.
Reported(m) == IF m.usage THEN <<Event("usage")>> ELSE <<>>

\* A message of grok.com: an error, or pictures, a video, a token, and perhaps the end.
GrokWebEvents(p, m) ==
  IF m.error THEN Parsed(p, <<Event("error")>>)
  ELSE LET media == [i \in 1..Len(m.media) |->
                       IF m.media[i] = "video" THEN Event("video") ELSE Picture(m.url)]
           token == IF m.token = "" THEN <<>> ELSE <<Event(m.token)>>
           final == Reported(m)
                    \o (IF m.final THEN <<Event("done")>> ELSE <<>>)
       IN  Parsed([p EXCEPT !.done = @ \/ m.final],
                  DeduplicateMedia(media \o token) \o final)

(* One message.  Nothing is read after the end; an error reported in passing does not end the
   parser, a failed response does. *)
Parse(p, m) ==
  IF p.done THEN Parsed(p, <<>>)
  ELSE CASE m.type = "malformed" -> Parsed(p, <<>>)
         [] m.type = "DONE" -> Parsed([p EXCEPT !.done = TRUE], <<Event("done")>>)
         [] m.type = "error" -> Parsed(p, <<Event("error")>>)
         [] m.type \in {"itemAdded", "itemDone"} -> FunctionItem(p, m)
         [] m.type = "argsDelta" -> ArgumentsDelta(p, m)
         [] m.type = "argsDone" -> ArgumentsDone(p, m)
         [] m.type \in {"partialImage", "imageDone"} -> ImageItem(p, m)
         [] m.type = "reasoningDelta" -> Parsed(p, <<Event("reasoning")>>)
         [] m.type = "textDelta" -> Parsed(p, <<Event("text")>>)
         [] m.type = "completed" -> Parsed([p EXCEPT !.done = TRUE],
                                           Reported(m) \o <<Event("done")>>)
         [] m.type = "failed" -> Parsed([p EXCEPT !.done = TRUE], <<Event("error")>>)
         [] m.type = "grok" -> GrokWebEvents(p, m)

\* The events of a JSON body, from its output items in their order.
OutputEvents(item) ==
  CASE item.type = "reasoningDelta" -> <<Event("reasoning")>>
    [] item.type = "textDelta" -> <<Event("text")>>
    [] item.type = "imageDone" -> <<Picture(item.url)>>
    [] item.type = "itemDone" ->
         <<[Event("tool") EXCEPT !.id = FirstOf(Field(item, "call"), Field(item, "item")),
                                 !.itemID = Field(item, "item"), !.args = item.args]>>

ParseNonStream(body) ==
  IF body.type = "malformed" THEN <<Event("error")>>
  ELSE DeduplicateMedia(FlattenSeq([i \in DOMAIN body.output |-> OutputEvents(body.output[i])]))
       \o Reported(body) \o <<Event("done")>>
=============================================================================
