---------------------------- MODULE StreamProofs ----------------------------
(***************************************************************************)
(* What a client gets of Gateway, for any number of tool calls, fragments  *)
(* and limits, and for any provider that identifies its tool calls.        *)
(*                                                                         *)
(* The frames themselves do not say why the next one fits.  That takes     *)
(* three things: what the state of the stream knows of the frames that are *)
(* out (GoesWell), that each event waiting for the encoder names its tool  *)
(* call by the two identifiers of that call (IsToolEvent), and, so that    *)
(* this is so, that the parser leads every identifier a message may carry  *)
(* to one and the same tool (Knows).  The facts about sequences, frames    *)
(* and the parser are in GatewayProofs.  Here are the encoders, their end, *)
(* and the request that carries events from the one to the other.          *)
(*                                                                         *)
(* Then what has been delivered when an answer is finished: the pictures   *)
(* that a WebSocket of grok.com makes (Imagining), and the tool calls.     *)
(* What a client can gather from the frames is what the stream has         *)
(* recorded (Says), and this, with what is still in the channel and with   *)
(* the producer, is all the upstream has said of its calls (Bears); both   *)
(* hold together from the first message to the last (Delivery).            *)
(***************************************************************************)
EXTENDS GatewayProofs

-----------------------------------------------------------------------------
(* What holds of a stream that goes on.                                    *)

\* An item was added at this index.
Opened(f, at, item) == \E j \in Occurs(f, "added") : f[j].at = at /\ f[j].item = item

(* The places an item can have an index in: -1 for the reasoning, 0 for the text and n for tool
   call n, which is the order in which they are closed. *)
Places(s) == -1..Len(s.tools)
IndexAt(s, n) == IF n = -1 THEN s.reasoning ELSE IF n = 0 THEN s.text ELSE s.tools[n].outputIndex
ItemAt(s, n) == IF n = -1 THEN Reasoning ELSE IF n = 0 THEN Text ELSE s.tools[n].itemID

(* The items of a Responses stream: each has an index of its own, under which it was added, the
   indices are those up to next, and none is closed. *)
Items(s) ==
  /\ Count(s.out, "added") = s.next /\ Occurs(s.out, "done") = {}
  /\ \A n \in Places(s) :
       IndexAt(s, n) = -1 \/ (IndexAt(s, n) \in 0..(s.next - 1) /\ Opened(s.out, IndexAt(s, n), ItemAt(s, n)))
  /\ \A n, m \in Places(s) : IndexAt(s, n) >= 0 /\ IndexAt(s, m) = IndexAt(s, n) => m = n
  /\ \A k \in 0..(s.next - 1) : \E n \in Places(s) : IndexAt(s, n) = k

\* The content blocks of a Messages stream: those before the current one are closed.
Blocks(s) ==
  /\ Count(s.out, "block_start") = s.blockIndex + (IF s.open THEN 1 ELSE 0)
  /\ Count(s.out, "block_stop") = s.blockIndex

GoesWell(s, op, pr) ==
  /\ s \in Streams /\ Recorded(s.tools, s.keys, pr)
  /\ WellFormed(s.out) /\ Ongoing(s.out)
  /\ Items(s) /\ Blocks(s)
  /\ s.open => op = "messages"

Ends == {"finish", "completed", "error", "end"}
Structural == {"added", "delta", "done", "block_start", "block_delta", "block_stop"} \cup Ends

\* What one more frame changes.
LEMMA FrameChanges ==
  ASSUME NEW f \in Seq(Frames), NEW x \in Frames
  PROVE  /\ Append(f, x) \in Seq(Frames)
         /\ \A at, item : Opened(f, at, item) => Opened(Append(f, x), at, item)
         /\ x.type = "added" => Opened(Append(f, x), x.at, x.item)
         /\ Ongoing(f) /\ x.type \notin Ends => Ongoing(Append(f, x))
         /\ Occurs(f, "done") = {} /\ x.type # "done" => Occurs(Append(f, x), "done") = {}
<1> DEFINE g == Append(f, x)
           n == Len(f) + 1
<1>1. g \in Seq(Frames) /\ g[n] = x /\ Len(f) \in Nat /\ \A i \in 1..Len(f) : g[i] = f[i]
  OBVIOUS
<1>2. \A type : Occurs(g, type) = Occurs(f, type) \cup (IF x.type = type THEN {n} ELSE {})
  BY OccursAppend
<1>3. Occurs(f, "added") \subseteq 1..Len(f)
  BY OccursFinite
<1> HIDE DEF g, n
<1>4. \A at, item : Opened(f, at, item) => Opened(g, at, item)
  BY <1>1, <1>2, <1>3 DEF Opened
<1>5. x.type = "added" => Opened(g, x.at, x.item)
  BY <1>1, <1>2 DEF Opened
<1>6. Ongoing(f) /\ x.type \notin Ends => Ongoing(g)
  BY <1>2 DEF Ongoing, Endings, Ends
<1>7. Occurs(f, "done") = {} /\ x.type # "done" => Occurs(g, "done") = {}
  BY <1>2
<1> QED
  BY <1>1, <1>4, <1>5, <1>6, <1>7 DEF g

\* The fields of a stream state, and their types.
LEMMA StreamFields ==
  ASSUME NEW s \in Streams
  PROVE  /\ s = [tools |-> s.tools, keys |-> s.keys, usage |-> s.usage, next |-> s.next, text |-> s.text,
                 reasoning |-> s.reasoning, open |-> s.open, blockKind |-> s.blockKind,
                 blockTool |-> s.blockTool, blockIndex |-> s.blockIndex, out |-> s.out]
         /\ s.tools \in Seq(ToolEntries) /\ s.next \in Nat /\ s.text \in Int /\ s.reasoning \in Int
         /\ s.open \in BOOLEAN /\ s.blockTool \in Idents /\ s.blockIndex \in Nat /\ s.out \in Seq(Frames)
BY DEF Streams

\* Emitting one frame.
LEMMA EmitOne ==
  ASSUME NEW s \in Streams, NEW x \in Frames
  PROVE  /\ Emit(s, <<x>>) = [s EXCEPT !.out = Append(s.out, x)]
         /\ Emit(s, <<x>>) \in Streams
<1>1. s.out \in Seq(Frames) /\ s.out \o <<x>> = Append(s.out, x)
  BY StreamFields
<1>2. Append(s.out, x) \in Seq(Frames)
  BY <1>1
<1> QED
  BY <1>1, <1>2 DEF Emit, Streams

\* A frame that opens and closes nothing, and is about something open.
LEMMA EmitInside ==
  ASSUME NEW s, NEW op, NEW pr, GoesWell(s, op, pr), NEW x \in Frames,
         x.type \notin {"added", "done", "block_start", "block_stop"} \cup Ends,
         x.type = "delta" => Opened(s.out, x.at, x.item),
         x.type = "block_delta" => s.open /\ x.at = s.blockIndex
  PROVE  GoesWell(Emit(s, <<x>>), op, pr)
<1> DEFINE f == s.out
           g == Append(f, x)
           q == Emit(s, <<x>>)
<1>1. s \in Streams /\ f \in Seq(Frames) /\ WellFormed(f) /\ Ongoing(f)
  BY StreamFields DEF GoesWell
<1>2. q = [s EXCEPT !.out = g] /\ q \in Streams
  BY <1>1, EmitOne
<1>3. /\ q.out = g /\ q.tools = s.tools /\ q.keys = s.keys /\ q.next = s.next /\ q.text = s.text
      /\ q.reasoning = s.reasoning /\ q.open = s.open /\ q.blockIndex = s.blockIndex
  BY <1>1, <1>2, StreamFields
<1>4. /\ Count(g, "block_start") = Count(f, "block_start") /\ Count(g, "block_stop") = Count(f, "block_stop")
      /\ Count(g, "added") = Count(f, "added")
  <2>1. /\ Count(g, "block_start") = Count(f, "block_start") + 0 /\ Count(g, "block_stop") = Count(f, "block_stop") + 0
        /\ Count(g, "added") = Count(f, "added") + 0
    BY <1>1, OccursAppend
  <2>2. Count(f, "block_start") \in Nat /\ Count(f, "block_stop") \in Nat /\ Count(f, "added") \in Nat
    BY <1>1, OccursFinite
  <2> QED
    BY <2>1, <2>2
<1>5. Occurs(f, "done") = {} /\ Occurs(f, "completed") = {} /\ Endings(f) = {} /\ Occurs(f, "end") = {}
  BY <1>1 DEF GoesWell, Items, Ongoing, Endings
<1>6. WellFormed(g)
  <2>1. BlockFits(f, x)
    <3>1. /\ Count(f, "block_start") = s.blockIndex + (IF s.open THEN 1 ELSE 0)
          /\ Count(f, "block_stop") = s.blockIndex /\ s.blockIndex \in Nat /\ s.open \in BOOLEAN
      BY <1>1, StreamFields DEF GoesWell, Blocks
    <3>2. x.type \notin {"block_start", "block_stop", "finish"}
      BY DEF Ends
    <3> QED
      BY <3>1, <3>2 DEF BlockFits
  <2>2. OutputFits(f, x)
    BY <1>5 DEF OutputFits, Opened, Ends
  <2>3. EndFits(f, x)
    BY <1>5 DEF EndFits
  <2> QED
    BY <1>1, <2>1, <2>2, <2>3, FrameFits
<1>7. /\ \A at, item : Opened(f, at, item) => Opened(g, at, item)
      /\ Ongoing(g) /\ Occurs(g, "done") = {}
  BY <1>1, <1>5, FrameChanges
<1> HIDE DEF q, g
<1>8. Items(q)
  <2>1. Places(q) = Places(s) /\ \A n \in Places(s) : IndexAt(q, n) = IndexAt(s, n) /\ ItemAt(q, n) = ItemAt(s, n)
    BY <1>3 DEF Places, IndexAt, ItemAt
  <2> QED
    BY <1>3, <1>4, <1>7, <2>1 DEF Items, GoesWell
<1>9. Blocks(q)
  BY <1>3, <1>4 DEF Blocks, GoesWell
<1> QED
  BY <1>2, <1>3, <1>6, <1>7, <1>8, <1>9 DEF GoesWell, q

\* The updates the encoders make stay in the type.
LEMMA StreamUpdates ==
  ASSUME NEW s \in Streams
  PROVE  /\ \A text \in Int, k \in Nat : [s EXCEPT !.text = text, !.next = k] \in Streams
         /\ \A reasoning \in Int, k \in Nat : [s EXCEPT !.reasoning = reasoning, !.next = k] \in Streams
         /\ \A tools \in Seq(ToolEntries), k \in Nat : [s EXCEPT !.tools = tools, !.next = k] \in Streams
BY DEF Streams

\* The frame that adds an item.
AddedFrame(k, item) == Frame("added", k, item, <<>>)

\* The fields of that frame.
LEMMA AddedFrameType ==
  ASSUME NEW k \in Nat, NEW item \in Idents
  PROVE  /\ AddedFrame(k, item) \in Frames /\ AddedFrame(k, item).type = "added"
         /\ AddedFrame(k, item).at = k /\ AddedFrame(k, item).item = item
BY DEF AddedFrame, Frame, Frames, FrameTypes

\* The item of a place that has no index yet is added at the next one.
LEMMA AddItem ==
  ASSUME NEW s, NEW op, NEW pr, GoesWell(s, op, pr), NEW n \in Places(s), IndexAt(s, n) < 0,
         NEW q \in Streams, ItemAt(s, n) \in Idents,
         q.out = Append(s.out, AddedFrame(s.next, ItemAt(s, n))),
         q.next = s.next + 1, q.open = s.open, q.blockIndex = s.blockIndex,
         Places(q) = Places(s), \A m \in Places(s) : ItemAt(q, m) = ItemAt(s, m),
         IndexAt(q, n) = s.next, \A m \in Places(s) : m # n => IndexAt(q, m) = IndexAt(s, m),
         Recorded(q.tools, q.keys, pr)
  PROVE  GoesWell(q, op, pr) /\ Opened(q.out, s.next, ItemAt(s, n))
<1> DEFINE f == s.out
           x == AddedFrame(s.next, ItemAt(s, n))
           g == q.out
<1>1. s \in Streams /\ f \in Seq(Frames) /\ WellFormed(f) /\ Ongoing(f) /\ s.next \in Nat /\ s.blockIndex \in Nat
  BY StreamFields DEF GoesWell
<1>2. x \in Frames /\ x.type = "added" /\ x.at = s.next /\ x.item = ItemAt(s, n)
  BY <1>1, AddedFrameType
<1>3. g = Append(f, x)
  OBVIOUS
<1> HIDE DEF x, f, g
<1>4. /\ Count(g, "block_start") = Count(f, "block_start") /\ Count(g, "block_stop") = Count(f, "block_stop")
      /\ Count(g, "added") = s.next + 1
  <2>1. /\ Count(g, "block_start") = Count(f, "block_start") + 0 /\ Count(g, "block_stop") = Count(f, "block_stop") + 0
        /\ Count(g, "added") = Count(f, "added") + 1
    BY <1>1, <1>2, <1>3, OccursAppend
  <2>2. Count(f, "block_start") \in Nat /\ Count(f, "block_stop") \in Nat /\ Count(f, "added") \in Nat
    BY <1>1, OccursFinite
  <2>3. Count(f, "added") = s.next
    BY DEF GoesWell, Items, f
  <2> QED
    BY <2>1, <2>2, <2>3
<1>5. Occurs(f, "done") = {} /\ Occurs(f, "completed") = {} /\ Endings(f) = {} /\ Occurs(f, "end") = {}
  BY <1>1 DEF GoesWell, Items, Ongoing, Endings, f
<1>6. WellFormed(g)
  <2>1. BlockFits(f, x)
    <3>1. /\ Count(f, "block_start") = s.blockIndex + (IF s.open THEN 1 ELSE 0)
          /\ Count(f, "block_stop") = s.blockIndex /\ s.blockIndex \in Nat
      BY <1>1, StreamFields DEF GoesWell, Blocks, f
    <3> QED
      BY <3>1, <1>2 DEF BlockFits
  <2>2. OutputFits(f, x)
    BY <1>2, <1>5 DEF OutputFits, GoesWell, Items, f
  <2>3. EndFits(f, x)
    BY <1>2, <1>5 DEF EndFits
  <2> QED
    BY <1>1, <1>2, <1>3, <2>1, <2>2, <2>3, FrameFits
<1>7. /\ \A at, item : Opened(f, at, item) => Opened(g, at, item)
      /\ Ongoing(g) /\ Occurs(g, "done") = {} /\ Opened(g, s.next, ItemAt(s, n))
  <2>1. "added" \notin Ends
    BY DEF Ends
  <2> QED
    BY <1>1, <1>2, <1>3, <1>5, <2>1, FrameChanges
<1>8. \A m \in Places(s) : /\ IndexAt(s, m) = -1 \/ (IndexAt(s, m) \in 0..(s.next - 1)
                                                   /\ Opened(f, IndexAt(s, m), ItemAt(s, m)))
                           /\ \A k \in Places(s) : IndexAt(s, m) >= 0 /\ IndexAt(s, k) = IndexAt(s, m) => k = m
  BY DEF GoesWell, Items, f
<1>9. \A k \in 0..(s.next - 1) : \E m \in Places(s) : IndexAt(s, m) = k
  BY DEF GoesWell, Items
<1>10. Items(q)
  <2>1. \A m \in Places(q) : IndexAt(q, m) = -1 \/ (IndexAt(q, m) \in 0..(q.next - 1)
                                                  /\ Opened(g, IndexAt(q, m), ItemAt(q, m)))
    BY <1>1, <1>7, <1>8
  <2>2. ASSUME NEW m \in Places(q), NEW k \in Places(q), IndexAt(q, m) >= 0, IndexAt(q, k) = IndexAt(q, m)
        PROVE  k = m
    BY <1>1, <1>8, <2>2
  <2>3. ASSUME NEW k \in 0..(q.next - 1) PROVE \E m \in Places(q) : IndexAt(q, m) = k
    <3>1. CASE k = s.next
      BY <3>1
    <3>2. CASE k # s.next
      <4>1. k \in 0..(s.next - 1)
        BY <1>1, <3>2
      <4>2. PICK m \in Places(s) : IndexAt(s, m) = k
        BY <1>9, <4>1
      <4>3. m # n
        BY <4>1, <4>2
      <4> QED
        BY <4>2, <4>3
    <3> QED
      BY <3>1, <3>2
  <2> QED
    BY <1>4, <1>7, <2>1, <2>2, <2>3 DEF Items, g
<1>11. Blocks(q)
  BY <1>4 DEF Blocks, GoesWell, f, g
<1> QED
  BY <1>6, <1>7, <1>10, <1>11 DEF GoesWell, g

\* Recording a tool event changes nothing that the frames show.
LEMMA RecordGoesWell ==
  ASSUME NEW s, NEW op, NEW pr, GoesWell(s, op, pr), NEW t \in Tools, NEW e, IsToolEvent(e, pr, t)
  PROVE  GoesWell(Record(s, e).s, op, pr)
<1> DEFINE r == Record(s, e)
           q == r.s
<1>1. s \in Streams /\ Recorded(s.tools, s.keys, pr)
  BY DEF GoesWell
<1> SUFFICES GoesWell(q, op, pr)
  OBVIOUS
<1>10. Records(s, e, pr, t, r)
  BY <1>1, RecordStep
<1> HIDE DEF r
<1>2. /\ q \in Streams /\ Recorded(q.tools, q.keys, pr)
      /\ q = [s EXCEPT !.tools = q.tools, !.keys = q.keys]
      /\ r.n \in DOMAIN q.tools /\ q.tools[r.n].id = CallOf(pr, t) /\ q.tools[r.n].itemID = ItemOf(pr, t)
      /\ r.fresh => /\ r.n = Len(s.tools) + 1
                    /\ q.tools = Append(s.tools, [id |-> e.id, itemID |-> e.itemID, outputIndex |-> -1,
                                                  args |-> e.args])
      /\ ~r.fresh => /\ r.n \in DOMAIN s.tools /\ s.tools[r.n].id = CallOf(pr, t)
                     /\ s.tools[r.n].itemID = ItemOf(pr, t)
                     /\ q.tools = [s.tools EXCEPT ![r.n].args = @ \o e.args]
  BY <1>10 DEF Records
<1>3. /\ q.next = s.next /\ q.text = s.text /\ q.reasoning = s.reasoning /\ q.open = s.open
      /\ q.blockIndex = s.blockIndex /\ q.out = s.out
  BY <1>1, <1>2, StreamFields
<1>4. s.tools \in Seq(ToolEntries) /\ q.tools \in Seq(ToolEntries) /\ s.next \in Nat
  BY <1>1, <1>2, StreamFields
<1>5. Items(s) /\ Blocks(s)
  BY DEF GoesWell
<1>6. CASE ~r.fresh
  <2>1. \A n \in DOMAIN s.tools : /\ q.tools[n].outputIndex = s.tools[n].outputIndex
                                  /\ q.tools[n].itemID = s.tools[n].itemID
    <3> SUFFICES ASSUME NEW n \in DOMAIN s.tools
                 PROVE  /\ q.tools[n].outputIndex = s.tools[n].outputIndex
                        /\ q.tools[n].itemID = s.tools[n].itemID
      OBVIOUS
    <3>0. s.tools[n] \in ToolEntries
      BY <1>4
    <3>1. CASE n = r.n
      <4>1. q.tools[n] = [s.tools[n] EXCEPT !.args = @ \o e.args]
        BY <1>2, <1>4, <1>6, <3>1
      <4> QED
        BY <3>0, <4>1 DEF ToolEntries
    <3>2. CASE n # r.n
      BY <1>2, <1>4, <1>6, <3>2
    <3> QED
      BY <3>1, <3>2
  <2>2. Len(q.tools) = Len(s.tools) /\ DOMAIN s.tools = 1..Len(s.tools) /\ Len(s.tools) \in Nat
    BY <1>2, <1>4, <1>6
  <2> HIDE DEF q
  <2>3. Places(q) = Places(s) /\ \A n \in Places(s) : IndexAt(q, n) = IndexAt(s, n) /\ ItemAt(q, n) = ItemAt(s, n)
    <3>1. \A n \in Places(s) : n \notin {-1, 0} => n \in DOMAIN s.tools
      BY <2>2 DEF Places
    <3> QED
      BY <1>3, <2>1, <2>2, <3>1 DEF Places, IndexAt, ItemAt
  <2>4. Items(q)
    BY <1>3, <1>5, <2>3 DEF Items
  <2> QED
    BY <1>2, <1>3, <1>5, <2>4 DEF GoesWell, Blocks, q
<1>7. CASE r.fresh
  <2> DEFINE n == Len(s.tools) + 1
  <2>1. /\ Len(s.tools) \in Nat /\ Len(q.tools) = n /\ DOMAIN s.tools = 1..Len(s.tools)
        /\ \A m \in DOMAIN s.tools : q.tools[m] = s.tools[m]
        /\ q.tools[n].outputIndex = -1
    BY <1>2, <1>4, <1>7
  <2> HIDE DEF q
  <2>2. Places(q) = Places(s) \cup {n} /\ n \notin Places(s) /\ n \notin {-1, 0}
    BY <2>1 DEF Places
  <2>3. \A m \in Places(s) : IndexAt(q, m) = IndexAt(s, m) /\ ItemAt(q, m) = ItemAt(s, m)
    <3>1. \A m \in Places(s) : m \notin {-1, 0} => m \in DOMAIN s.tools
      BY <2>1 DEF Places
    <3> QED
      BY <1>3, <2>1, <3>1 DEF IndexAt, ItemAt
  <2>4. IndexAt(q, n) = -1
    BY <2>1, <2>2 DEF IndexAt
  <2> HIDE DEF n
  <2>5. Items(q)
    <3>1. \A k \in 0..(q.next - 1) : \E m \in Places(q) : IndexAt(q, m) = k
      BY <1>3, <1>5, <2>2, <2>3 DEF Items
    <3>2. \A m \in Places(q) : IndexAt(q, m) = -1 \/ (IndexAt(q, m) \in 0..(q.next - 1)
                                                    /\ Opened(q.out, IndexAt(q, m), ItemAt(q, m)))
      BY <1>3, <1>5, <2>2, <2>3, <2>4 DEF Items
    <3>3. ASSUME NEW m \in Places(q), NEW k \in Places(q), IndexAt(q, m) >= 0, IndexAt(q, k) = IndexAt(q, m)
          PROVE  k = m
      <4>1. m # n /\ k # n
        BY <2>4, <3>3
      <4>2. m \in Places(s) /\ k \in Places(s)
        BY <2>2, <4>1
      <4> QED
        BY <1>5, <2>3, <3>3, <4>2 DEF Items
    <3> QED
      BY <1>3, <1>5, <3>1, <3>2, <3>3 DEF Items
  <2> QED
    BY <1>2, <1>3, <1>5, <2>5 DEF GoesWell, Blocks, q
<1> QED
  BY <1>6, <1>7

\* An item with an index was added under it.
LEMMA OpenItem ==
  ASSUME NEW s, NEW op, NEW pr, GoesWell(s, op, pr), NEW n \in Places(s)
  PROVE  IndexAt(s, n) = -1 \/ (IndexAt(s, n) \in Nat /\ Opened(s.out, IndexAt(s, n), ItemAt(s, n)))
<1>1. s.next \in Nat
  BY StreamFields DEF GoesWell
<1> QED
  BY <1>1 DEF GoesWell, Items

\* EnsureText: the text has an index under which it was added.
LEMMA TextGoesWell ==
  ASSUME NEW s, NEW op, NEW pr, GoesWell(s, op, pr)
  PROVE  /\ GoesWell(EnsureText(s), op, pr)
         /\ EnsureText(s).text \in Nat /\ Opened(EnsureText(s).out, EnsureText(s).text, Text)
<1>1. s \in Streams /\ Recorded(s.tools, s.keys, pr) /\ s.next \in Nat /\ s.text \in Int /\ Len(s.tools) \in Nat
  BY StreamFields DEF GoesWell
<1>2. 0 \in Places(s) /\ IndexAt(s, 0) = s.text /\ ItemAt(s, 0) = Text
  BY <1>1 DEF Places, IndexAt, ItemAt
<1>3. CASE s.text >= 0
  <2>1. EnsureText(s) = s
    BY <1>3 DEF EnsureText
  <2>2. s.text # -1
    BY <1>3
  <2> QED
    BY <1>2, <2>1, <2>2, OpenItem
<1>4. CASE ~(s.text >= 0)
  <2> DEFINE p == [s EXCEPT !.text = s.next, !.next = @ + 1]
             x == AddedFrame(s.next, Text)
             q == Emit(p, <<x>>)
  <2>1. EnsureText(s) = q
    BY <1>4 DEF EnsureText, AddedFrame
  <2>0. s.next \in Int /\ s.next + 1 \in Nat
    BY <1>1
  <2>2. p \in Streams
    BY <1>1, <2>0, StreamUpdates
  <2>3. x \in Frames
    BY <1>1, FixedNames, AddedFrameType
  <2>4. q = [p EXCEPT !.out = Append(p.out, x)] /\ q \in Streams
    BY <2>2, <2>3, EmitOne
  <2>5. /\ p.out = s.out /\ p.next = s.next + 1 /\ p.open = s.open /\ p.blockIndex = s.blockIndex
        /\ p.tools = s.tools /\ p.keys = s.keys /\ p.text = s.next /\ p.reasoning = s.reasoning
    BY <1>1, StreamFields
  <2> HIDE DEF p, q
  <2>6. /\ q.out = Append(s.out, x) /\ q.next = s.next + 1 /\ q.open = s.open /\ q.blockIndex = s.blockIndex
        /\ q.tools = s.tools /\ q.keys = s.keys /\ q.text = s.next /\ q.reasoning = s.reasoning
    BY <2>2, <2>4, <2>5, StreamFields
  <2>7. /\ Places(q) = Places(s) /\ IndexAt(q, 0) = s.next
        /\ \A m \in Places(s) : ItemAt(q, m) = ItemAt(s, m) /\ (m # 0 => IndexAt(q, m) = IndexAt(s, m))
    BY <2>6 DEF Places, IndexAt, ItemAt
  <2>8. GoesWell(q, op, pr) /\ Opened(q.out, s.next, Text)
    <3>1. IndexAt(s, 0) < 0 /\ ItemAt(s, 0) \in Idents
      BY <1>1, <1>2, <1>4, FixedNames
    <3>2. q.out = Append(s.out, AddedFrame(s.next, ItemAt(s, 0)))
      BY <1>2, <2>6
    <3>3. \A m \in Places(s) : ItemAt(q, m) = ItemAt(s, m)
      BY <2>7
    <3>4. \A m \in Places(s) : m # 0 => IndexAt(q, m) = IndexAt(s, m)
      BY <2>7
    <3>5. Recorded(q.tools, q.keys, pr)
      BY <1>1, <2>6
    <3> HIDE DEF x
    <3>6. GoesWell(q, op, pr) /\ Opened(q.out, s.next, ItemAt(s, 0))
      BY <1>2, <3>1, <3>2, <3>3, <3>4, <3>5, <1>1, <2>4, <2>6, <2>7, AddItem
    <3> QED
      BY <1>2, <3>6
  <2> QED
    BY <1>1, <2>1, <2>6, <2>8
<1> QED
  BY <1>3, <1>4

\* EnsureReasoning: so has the reasoning.
LEMMA ReasoningGoesWell ==
  ASSUME NEW s, NEW op, NEW pr, GoesWell(s, op, pr)
  PROVE  /\ GoesWell(EnsureReasoning(s), op, pr)
         /\ EnsureReasoning(s).reasoning \in Nat
         /\ Opened(EnsureReasoning(s).out, EnsureReasoning(s).reasoning, Reasoning)
<1>1. s \in Streams /\ Recorded(s.tools, s.keys, pr) /\ s.next \in Nat /\ s.reasoning \in Int /\ Len(s.tools) \in Nat
  BY StreamFields DEF GoesWell
<1>2. -1 \in Places(s) /\ IndexAt(s, -1) = s.reasoning /\ ItemAt(s, -1) = Reasoning
  BY <1>1 DEF Places, IndexAt, ItemAt
<1>3. CASE s.reasoning >= 0
  <2>1. EnsureReasoning(s) = s
    BY <1>3 DEF EnsureReasoning
  <2>2. s.reasoning # -1
    BY <1>3
  <2> QED
    BY <1>2, <2>1, <2>2, OpenItem
<1>4. CASE ~(s.reasoning >= 0)
  <2> DEFINE p == [s EXCEPT !.reasoning = s.next, !.next = @ + 1]
             x == AddedFrame(s.next, Reasoning)
             q == Emit(p, <<x>>)
  <2>1. EnsureReasoning(s) = q
    BY <1>4 DEF EnsureReasoning, AddedFrame
  <2>0. s.next \in Int /\ s.next + 1 \in Nat
    BY <1>1
  <2>2. p \in Streams
    BY <1>1, <2>0, StreamUpdates
  <2>3. x \in Frames
    BY <1>1, FixedNames, AddedFrameType
  <2>4. q = [p EXCEPT !.out = Append(p.out, x)] /\ q \in Streams
    BY <2>2, <2>3, EmitOne
  <2>5. /\ p.out = s.out /\ p.next = s.next + 1 /\ p.open = s.open /\ p.blockIndex = s.blockIndex
        /\ p.tools = s.tools /\ p.keys = s.keys /\ p.reasoning = s.next /\ p.text = s.text
    BY <1>1, StreamFields
  <2> HIDE DEF p, q
  <2>6. /\ q.out = Append(s.out, x) /\ q.next = s.next + 1 /\ q.open = s.open /\ q.blockIndex = s.blockIndex
        /\ q.tools = s.tools /\ q.keys = s.keys /\ q.reasoning = s.next /\ q.text = s.text
    BY <2>2, <2>4, <2>5, StreamFields
  <2>7. /\ Places(q) = Places(s) /\ IndexAt(q, -1) = s.next
        /\ \A m \in Places(s) : ItemAt(q, m) = ItemAt(s, m) /\ (m # -1 => IndexAt(q, m) = IndexAt(s, m))
    BY <2>6 DEF Places, IndexAt, ItemAt
  <2>8. GoesWell(q, op, pr) /\ Opened(q.out, s.next, Reasoning)
    <3>1. IndexAt(s, -1) < 0 /\ ItemAt(s, -1) \in Idents
      BY <1>1, <1>2, <1>4, FixedNames
    <3>2. q.out = Append(s.out, AddedFrame(s.next, ItemAt(s, -1)))
      BY <1>2, <2>6
    <3>3. \A m \in Places(s) : ItemAt(q, m) = ItemAt(s, m)
      BY <2>7
    <3>4. \A m \in Places(s) : m # -1 => IndexAt(q, m) = IndexAt(s, m)
      BY <2>7
    <3>5. Recorded(q.tools, q.keys, pr)
      BY <1>1, <2>6
    <3> HIDE DEF x
    <3>6. GoesWell(q, op, pr) /\ Opened(q.out, s.next, ItemAt(s, -1))
      BY <1>2, <3>1, <3>2, <3>3, <3>4, <3>5, <1>1, <2>4, <2>6, <2>7, AddItem
    <3> QED
      BY <1>2, <3>6
  <2> QED
    BY <1>1, <2>1, <2>6, <2>8
<1> QED
  BY <1>3, <1>4

\* The item of tool call n, when it has no index yet.
AddedTool(s, n) ==
  IF s.tools[n].outputIndex >= 0 THEN s
  ELSE Emit([s EXCEPT !.tools[n].outputIndex = s.next, !.next = @ + 1],
            <<Frame("added", s.next, s.tools[n].itemID, <<>>)>>)

\* AddedTool: so has a tool call.
LEMMA ToolGoesWell ==
  ASSUME NEW s, NEW op, NEW pr, GoesWell(s, op, pr), NEW n \in DOMAIN s.tools
  PROVE  LET q == AddedTool(s, n)
         IN  /\ GoesWell(q, op, pr)
             /\ q.tools[n].outputIndex \in Nat
             /\ Opened(q.out, q.tools[n].outputIndex, s.tools[n].itemID)
<1>1. /\ s \in Streams /\ Recorded(s.tools, s.keys, pr) /\ s.next \in Nat /\ s.tools \in Seq(ToolEntries)
      /\ Len(s.tools) \in Nat /\ DOMAIN s.tools = 1..Len(s.tools)
  BY StreamFields DEF GoesWell
<1>2. /\ n \in Places(s) /\ n \notin {-1, 0}
      /\ IndexAt(s, n) = s.tools[n].outputIndex /\ ItemAt(s, n) = s.tools[n].itemID
  BY <1>1 DEF Places, IndexAt, ItemAt
<1>0. s.tools[n] \in ToolEntries /\ s.tools[n].outputIndex \in Int /\ s.tools[n].itemID \in Idents
  <2>1. s.tools[n] \in ToolEntries
    BY <1>1
  <2> QED
    BY <2>1 DEF ToolEntries
<1>3. CASE s.tools[n].outputIndex >= 0
  <2>1. AddedTool(s, n) = s
    BY <1>3 DEF AddedTool
  <2>2. s.tools[n].outputIndex # -1
    BY <1>3
  <2> QED
    BY <1>2, <2>1, <2>2, OpenItem
<1>4. CASE ~(s.tools[n].outputIndex >= 0)
  <2> DEFINE entry == [s.tools[n] EXCEPT !.outputIndex = s.next]
             tools == [s.tools EXCEPT ![n] = entry]
             p == [s EXCEPT !.tools = tools, !.next = @ + 1]
             x == AddedFrame(s.next, s.tools[n].itemID)
             q == Emit(p, <<x>>)
  <2>0. [s EXCEPT !.tools[n].outputIndex = s.next, !.next = @ + 1] = p
    BY <1>1
  <2>1. AddedTool(s, n) = q
    BY <1>4, <2>0 DEF AddedTool, AddedFrame
  <2>2. entry \in ToolEntries /\ entry.outputIndex = s.next /\ entry.id = s.tools[n].id /\ entry.itemID = s.tools[n].itemID
    <3>1. PICK v \in ToolEntries : v = s.tools[n]
      BY <1>0
    <3>2. s.next \in Int
      BY <1>1
    <3>3. /\ [v EXCEPT !.outputIndex = s.next] \in ToolEntries
          /\ [v EXCEPT !.outputIndex = s.next].outputIndex = s.next
          /\ [v EXCEPT !.outputIndex = s.next].id = v.id /\ [v EXCEPT !.outputIndex = s.next].itemID = v.itemID
      BY <3>2 DEF ToolEntries
    <3> QED
      BY <3>1, <3>3
  <2> HIDE DEF entry
  <2>3. /\ tools \in Seq(ToolEntries) /\ DOMAIN tools = DOMAIN s.tools /\ Len(tools) = Len(s.tools)
        /\ tools[n] = entry /\ \A m \in DOMAIN s.tools : m # n => tools[m] = s.tools[m]
    BY <1>1, <2>2
  <2> HIDE DEF tools
  <2>12. s.next + 1 \in Nat
    BY <1>1
  <2>4. p \in Streams
    BY <1>1, <2>3, <2>12, StreamUpdates
  <2>5. x \in Frames
    BY <1>0, <1>1, AddedFrameType
  <2>6. q = [p EXCEPT !.out = Append(p.out, x)] /\ q \in Streams
    BY <2>4, <2>5, EmitOne
  <2>7. /\ p.out = s.out /\ p.next = s.next + 1 /\ p.open = s.open /\ p.blockIndex = s.blockIndex
        /\ p.tools = tools /\ p.keys = s.keys /\ p.reasoning = s.reasoning /\ p.text = s.text
    BY <1>1, StreamFields
  <2> HIDE DEF p, q
  <2>8. /\ q.out = Append(s.out, x) /\ q.next = s.next + 1 /\ q.open = s.open /\ q.blockIndex = s.blockIndex
        /\ q.tools = tools /\ q.keys = s.keys /\ q.reasoning = s.reasoning /\ q.text = s.text
    BY <2>4, <2>6, <2>7, StreamFields
  <2>9. /\ Places(q) = Places(s) /\ IndexAt(q, n) = s.next
        /\ \A m \in Places(s) : ItemAt(q, m) = ItemAt(s, m) /\ (m # n => IndexAt(q, m) = IndexAt(s, m))
    <3>1. \A m \in Places(s) : m \notin {-1, 0} => m \in DOMAIN s.tools
      BY <1>1 DEF Places
    <3> QED
      BY <1>2, <2>2, <2>3, <2>8, <3>1 DEF Places, IndexAt, ItemAt
  <2>10. Recorded(q.tools, q.keys, pr)
    <3>1. \A m \in DOMAIN tools : tools[m].id = s.tools[m].id /\ tools[m].itemID = s.tools[m].itemID
      BY <2>2, <2>3
    <3>2. {<<tools[m].id, m>> : m \in DOMAIN tools} = {<<s.tools[m].id, m>> : m \in DOMAIN s.tools}
      BY <2>3, <3>1
    <3>3. {<<tools[m].itemID, m>> : m \in DOMAIN tools} = {<<s.tools[m].itemID, m>> : m \in DOMAIN s.tools}
      BY <2>3, <3>1
    <3>4. \A m \in DOMAIN tools : \E t \in Tools : tools[m].id = CallOf(pr, t) /\ tools[m].itemID = ItemOf(pr, t)
      BY <1>1, <2>3, <3>1 DEF Recorded
    <3>5. \A m, k \in DOMAIN tools : tools[m].id = tools[k].id => m = k
      BY <1>1, <2>3, <3>1 DEF Recorded
    <3>6. s.keys = {<<tools[m].id, m>> : m \in DOMAIN tools} \cup {<<tools[m].itemID, m>> : m \in DOMAIN tools}
      BY <1>1, <3>2, <3>3 DEF Recorded
    <3> QED
      BY <2>8, <3>4, <3>5, <3>6 DEF Recorded
  <2>11. GoesWell(q, op, pr) /\ Opened(q.out, s.next, s.tools[n].itemID)
    <3>1. IndexAt(s, n) < 0 /\ ItemAt(s, n) \in Idents
      BY <1>1, <1>2, <1>4, <1>0
    <3>2. q.out = Append(s.out, AddedFrame(s.next, ItemAt(s, n)))
      BY <1>2, <2>8
    <3>3. \A m \in Places(s) : ItemAt(q, m) = ItemAt(s, m)
      BY <2>9
    <3>4. \A m \in Places(s) : m # n => IndexAt(q, m) = IndexAt(s, m)
      BY <2>9
    <3>5. Recorded(q.tools, q.keys, pr)
      BY <2>10
    <3> HIDE DEF x
    <3>6. GoesWell(q, op, pr) /\ Opened(q.out, s.next, ItemAt(s, n))
      BY <1>2, <3>1, <3>2, <3>3, <3>4, <3>5, <2>6, <2>8, <2>9, <2>10, AddItem
    <3> QED
      BY <1>2, <3>6
  <2> QED
    BY <1>1, <2>1, <2>2, <2>3, <2>8, <2>11
<1> QED
  BY <1>3, <1>4

-----------------------------------------------------------------------------
(* The events of a stream.                                                 *)

\* A delta about an item that was added.
LEMMA EmitDelta ==
  ASSUME NEW s, NEW op, NEW pr, GoesWell(s, op, pr), NEW at \in Nat, NEW item \in Idents, NEW args \in Seq(Nat),
         Opened(s.out, at, item)
  PROVE  GoesWell(Emit(s, <<Frame("delta", at, item, args)>>), op, pr)
<1> DEFINE x == Frame("delta", at, item, args)
<1>1. x \in Frames /\ x.type = "delta" /\ x.at = at /\ x.item = item
  BY DEF Frame, Frames, FrameTypes
<1> HIDE DEF x
<1>2. x.type \notin {"added", "done", "block_start", "block_stop"} \cup Ends /\ x.type # "block_delta"
  BY <1>1 DEF Ends
<1>3. Opened(s.out, x.at, x.item)
  BY <1>1
<1>4. GoesWell(Emit(s, <<x>>), op, pr)
  BY <1>1, <1>2, <1>3, EmitInside
<1> QED
  BY <1>4 DEF x

\* A delta of the block that is open.
LEMMA EmitBlockDelta ==
  ASSUME NEW s, NEW op, NEW pr, GoesWell(s, op, pr), NEW item \in Idents, NEW args \in Seq(Nat), s.open
  PROVE  GoesWell(Emit(s, <<Frame("block_delta", s.blockIndex, item, args)>>), op, pr)
<1> DEFINE x == Frame("block_delta", s.blockIndex, item, args)
<1>1. s.blockIndex \in Int
  BY StreamFields DEF GoesWell
<1>2. x \in Frames /\ x.type = "block_delta" /\ x.at = s.blockIndex
  BY <1>1 DEF Frame, Frames, FrameTypes
<1> HIDE DEF x
<1>3. x.type \notin {"added", "done", "block_start", "block_stop"} \cup Ends /\ x.type # "delta"
  BY <1>2 DEF Ends
<1>4. GoesWell(Emit(s, <<x>>), op, pr)
  BY <1>2, <1>3, EmitInside
<1> QED
  BY <1>4 DEF x

\* The frames of a Chat stream, and the first frame of every stream.
LEMMA EmitPlain ==
  ASSUME NEW s, NEW op, NEW pr, GoesWell(s, op, pr),
         NEW type \in {"role", "created", "message_start", "content", "tool_calls"},
         NEW at \in Int, NEW item \in Idents, NEW args \in Seq(Nat)
  PROVE  GoesWell(Emit(s, <<Frame(type, at, item, args)>>), op, pr)
<1> DEFINE x == Frame(type, at, item, args)
<1>1. x \in Frames /\ x.type = type
  BY DEF Frame, Frames, FrameTypes
<1> HIDE DEF x
<1>2. x.type \notin {"added", "done", "block_start", "block_stop"} \cup Ends /\ x.type \notin {"delta", "block_delta"}
  BY <1>1 DEF Ends
<1>3. GoesWell(Emit(s, <<x>>), op, pr)
  BY <1>1, <1>2, EmitInside
<1> QED
  BY <1>3 DEF x

\* Fields of the state of a block.
LEMMA BlockUpdates ==
  ASSUME NEW s \in Streams
  PROVE  /\ \A k \in Nat, tool \in Idents :
              [s EXCEPT !.open = FALSE, !.blockTool = tool, !.blockIndex = k] \in Streams
         /\ \A kind \in BlockKinds, tool \in Idents :
              [s EXCEPT !.open = TRUE, !.blockKind = kind, !.blockTool = tool] \in Streams
BY DEF Streams

\* A frame that opens or closes a block.
LEMMA BlockChange ==
  ASSUME NEW s, NEW pr, GoesWell(s, "messages", pr), NEW x \in Frames, x.type \in {"block_start", "block_stop"},
         NEW q \in Streams, q.out = Append(s.out, x),
         q.tools = s.tools, q.keys = s.keys, q.next = s.next, q.text = s.text, q.reasoning = s.reasoning,
         x.at = s.blockIndex,
         x.type = "block_start" => ~s.open /\ q.open /\ q.blockIndex = s.blockIndex,
         x.type = "block_stop" => s.open /\ ~q.open /\ q.blockIndex = s.blockIndex + 1
  PROVE  GoesWell(q, "messages", pr)
<1> DEFINE f == s.out
           g == q.out
<1>1. s \in Streams /\ f \in Seq(Frames) /\ WellFormed(f) /\ Ongoing(f) /\ s.blockIndex \in Nat
      /\ q.blockIndex \in Nat
  BY StreamFields DEF GoesWell
<1>2. /\ Count(f, "block_start") = s.blockIndex + (IF s.open THEN 1 ELSE 0)
      /\ Count(f, "block_stop") = s.blockIndex
  BY DEF GoesWell, Blocks, f
<1>3. /\ Count(g, "block_start") = Count(f, "block_start") + (IF x.type = "block_start" THEN 1 ELSE 0)
      /\ Count(g, "block_stop") = Count(f, "block_stop") + (IF x.type = "block_stop" THEN 1 ELSE 0)
  BY <1>1, OccursAppend
<1>4. Count(g, "added") = Count(f, "added")
  <2>1. Count(g, "added") = Count(f, "added") + 0
    BY <1>1, OccursAppend
  <2>2. Count(f, "added") \in Nat
    BY <1>1, OccursFinite
  <2> QED
    BY <2>1, <2>2
<1>5. Occurs(f, "done") = {} /\ Occurs(f, "completed") = {} /\ Endings(f) = {} /\ Occurs(f, "end") = {}
  BY <1>1 DEF GoesWell, Items, Ongoing, Endings, f
<1>6. WellFormed(g)
  <2>1. BlockFits(f, x)
    <3> HIDE DEF f
    <3>1. CASE x.type = "block_start"
      <4>1. x.type \notin {"block_stop", "block_delta", "finish"} /\ ~s.open
        BY <3>1
      <4>2. Count(f, "block_start") = s.blockIndex
        BY <1>1, <1>2, <4>1
      <4> QED
        BY <1>1, <1>2, <3>1, <4>1, <4>2 DEF BlockFits
    <3>2. CASE x.type = "block_stop"
      <4>1. x.type \notin {"block_start", "block_delta", "finish"} /\ s.open
        BY <3>2
      <4>2. Count(f, "block_start") = s.blockIndex + 1
        BY <1>1, <1>2, <4>1
      <4> QED
        BY <1>1, <1>2, <3>2, <4>1, <4>2 DEF BlockFits
    <3> QED
      BY <3>1, <3>2
  <2>2. OutputFits(f, x)
    BY <1>5 DEF OutputFits
  <2>3. EndFits(f, x)
    BY <1>5 DEF EndFits
  <2> QED
    BY <1>1, <2>1, <2>2, <2>3, FrameFits
<1>7. /\ \A at, item : Opened(f, at, item) => Opened(g, at, item)
      /\ Ongoing(g) /\ Occurs(g, "done") = {}
  <2>1. x.type \notin Ends /\ x.type # "done"
    BY DEF Ends
  <2> QED
    BY <1>1, <1>5, <2>1, FrameChanges
<1>8. Items(q)
  <2>1. Places(q) = Places(s) /\ \A n \in Places(s) : IndexAt(q, n) = IndexAt(s, n) /\ ItemAt(q, n) = ItemAt(s, n)
    BY DEF Places, IndexAt, ItemAt
  <2> HIDE DEF f, g
  <2> QED
    BY <1>4, <1>7, <2>1 DEF Items, GoesWell, f, g
<1>9. Blocks(q)
  BY <1>1, <1>2, <1>3 DEF Blocks
<1> QED
  BY <1>6, <1>7, <1>8, <1>9 DEF GoesWell

\* closeBlock closes the open block, if there is one.
LEMMA CloseGoesWell ==
  ASSUME NEW s, NEW pr, GoesWell(s, "messages", pr)
  PROVE  GoesWell(CloseBlock(s), "messages", pr) /\ ~CloseBlock(s).open
<1>1. s \in Streams /\ s.blockIndex \in Nat /\ s.blockIndex \in Int /\ s.blockIndex + 1 \in Nat /\ s.open \in BOOLEAN
  BY StreamFields DEF GoesWell
<1>2. CASE ~s.open
  BY <1>2 DEF CloseBlock
<1>3. CASE s.open
  <2> DEFINE p == [s EXCEPT !.open = FALSE, !.blockTool = NoId, !.blockIndex = @ + 1]
             x == Frame("block_stop", s.blockIndex, NoId, <<>>)
             q == Emit(p, <<x>>)
  <2>1. CloseBlock(s) = q
    BY <1>3 DEF CloseBlock
  <2>2. x \in Frames /\ x.type = "block_stop" /\ x.at = s.blockIndex
    BY <1>1, FixedNames DEF Frame, Frames, FrameTypes
  <2> HIDE DEF x
  <2>3. p \in Streams
    BY <1>1, FixedNames, BlockUpdates
  <2>4. q = [p EXCEPT !.out = Append(p.out, x)] /\ q \in Streams
    BY <2>2, <2>3, EmitOne
  <2>5. /\ p.out = s.out /\ p.next = s.next /\ ~p.open /\ p.blockIndex = s.blockIndex + 1
        /\ p.tools = s.tools /\ p.keys = s.keys /\ p.reasoning = s.reasoning /\ p.text = s.text
    BY <1>1, StreamFields
  <2> HIDE DEF p, q
  <2>6. /\ q.out = Append(s.out, x) /\ q.next = s.next /\ ~q.open /\ q.blockIndex = s.blockIndex + 1
        /\ q.tools = s.tools /\ q.keys = s.keys /\ q.reasoning = s.reasoning /\ q.text = s.text
    BY <2>3, <2>4, <2>5, StreamFields
  <2>7. GoesWell(q, "messages", pr)
    BY <1>3, <2>2, <2>4, <2>6, BlockChange
  <2> QED
    BY <2>1, <2>6, <2>7
<1> QED
  BY <1>1, <1>2, <1>3

\* openBlock closes the open block and opens the next one.
LEMMA OpenGoesWell ==
  ASSUME NEW s, NEW pr, GoesWell(s, "messages", pr), NEW kind \in BlockKinds, NEW tool \in Idents
  PROVE  GoesWell(OpenBlock(s, kind, tool), "messages", pr) /\ OpenBlock(s, kind, tool).open
<1> DEFINE c == CloseBlock(s)
<1>0. GoesWell(c, "messages", pr) /\ ~c.open
  BY CloseGoesWell
<1>1. c \in Streams /\ c.blockIndex \in Int
  BY <1>0, StreamFields DEF GoesWell
<1> DEFINE p == [c EXCEPT !.open = TRUE, !.blockKind = kind, !.blockTool = tool]
           x == Frame("block_start", c.blockIndex, tool, <<>>)
           q == Emit(p, <<x>>)
<1>2. OpenBlock(s, kind, tool) = q
  BY DEF OpenBlock
<1> HIDE DEF c
<1>3. x \in Frames /\ x.type = "block_start" /\ x.at = c.blockIndex
  BY <1>1 DEF Frame, Frames, FrameTypes
<1> HIDE DEF x
<1>4. p \in Streams
  BY <1>1, BlockUpdates
<1>5. q = [p EXCEPT !.out = Append(p.out, x)] /\ q \in Streams
  BY <1>3, <1>4, EmitOne
<1>6. /\ p.out = c.out /\ p.next = c.next /\ p.open /\ p.blockIndex = c.blockIndex
      /\ p.tools = c.tools /\ p.keys = c.keys /\ p.reasoning = c.reasoning /\ p.text = c.text
  BY <1>1, StreamFields
<1> HIDE DEF p, q
<1>7. /\ q.out = Append(c.out, x) /\ q.next = c.next /\ q.open /\ q.blockIndex = c.blockIndex
      /\ q.tools = c.tools /\ q.keys = c.keys /\ q.reasoning = c.reasoning /\ q.text = c.text
  BY <1>4, <1>5, <1>6, StreamFields
<1>8. GoesWell(q, "messages", pr)
  BY <1>0, <1>3, <1>5, <1>7, BlockChange
<1> QED
  BY <1>2, <1>7, <1>8

\* What a tool event recorded: its item is the item of its call.
LEMMA RecordedCall ==
  ASSUME NEW s, NEW op, NEW pr, GoesWell(s, op, pr), NEW t \in Tools, NEW e, IsToolEvent(e, pr, t)
  PROVE  LET r == Record(s, e)
         IN  /\ GoesWell(r.s, op, pr) /\ r.s.open = s.open
             /\ r.n \in Nat /\ r.n \in DOMAIN r.s.tools /\ r.s.tools[r.n].itemID = ItemOf(pr, t)
             /\ e.id \in Idents /\ ItemOf(pr, t) \in Idents /\ e.args \in Seq(Nat) /\ e.kind = "tool"
<1> DEFINE r == Record(s, e)
<1>1. s \in Streams /\ Recorded(s.tools, s.keys, pr)
  BY DEF GoesWell
<1>2. Records(s, e, pr, t, r)
  BY <1>1, RecordStep
<1>3. GoesWell(r.s, op, pr)
  BY RecordGoesWell
<1>4. e.id \in Idents /\ ItemOf(pr, t) \in Idents /\ e.args \in Seq(Nat) /\ e.kind = "tool"
  BY Names DEF IsToolEvent
<1> HIDE DEF r
<1>5. /\ r.s = [s EXCEPT !.tools = r.s.tools, !.keys = r.s.keys]
      /\ r.n \in DOMAIN r.s.tools /\ r.s.tools[r.n].itemID = ItemOf(pr, t)
  BY <1>2 DEF Records
<1>6. r.s.open = s.open
  BY <1>1, <1>5, StreamFields
<1>7. r.n \in Nat
  <2>1. r.s.tools \in Seq(ToolEntries)
    BY <1>3, StreamFields DEF GoesWell
  <2> QED
    BY <1>5, <2>1
<1> QED
  BY <1>3, <1>4, <1>5, <1>6, <1>7 DEF r

\* Chat completions: every event leaves a stream that goes well.
LEMMA ChatGoesWell ==
  ASSUME NEW s, NEW op, NEW pr, GoesWell(s, op, pr), NEW e, IsEvent(e, pr)
  PROVE  GoesWell(ChatEvent(s, e), op, pr)
<1>0. <<>> \in Seq(Nat) /\ NoId \in Idents
  BY FixedNames
<1>1. CASE IsPlain(e)
  <2>1. e.kind # "tool"
    BY <1>1 DEF IsPlain, Kinds
  <2>2. GoesWell(Emit(s, <<Frame("content", -1, NoId, <<>>)>>), op, pr)
    <3>1. "content" \in {"role", "created", "message_start", "content", "tool_calls"}
      OBVIOUS
    <3>2. -1 \in Int
      OBVIOUS
    <3> QED
      BY <1>0, <3>1, <3>2, EmitPlain, Zenon
  <2> QED
    BY <2>1, <2>2 DEF ChatEvent
<1>2. CASE \E t \in Tools : IsToolEvent(e, pr, t)
  <2>1. PICK t \in Tools : IsToolEvent(e, pr, t)
    BY <1>2
  <2> DEFINE r == Record(s, e)
             id == IF r.fresh THEN e.id ELSE NoId
  <2>2. GoesWell(r.s, op, pr) /\ r.n \in Nat /\ e.id \in Idents /\ e.args \in Seq(Nat) /\ e.kind = "tool"
    BY <2>1, RecordedCall
  <2>3. id \in Idents
    BY <1>0, <2>2
  <2>4. ChatEvent(s, e) = Emit(r.s, <<Frame("tool_calls", r.n - 1, id, e.args)>>)
    BY <2>2 DEF ChatEvent
  <2> HIDE DEF r, id
  <2>5. r.n - 1 \in Int
    BY <2>2
  <2>6. GoesWell(Emit(r.s, <<Frame("tool_calls", r.n - 1, id, e.args)>>), op, pr)
    BY <2>2, <2>3, <2>5, EmitPlain
  <2> QED
    BY <2>4, <2>6
<1> QED
  BY <1>1, <1>2 DEF IsEvent

\* Responses: every event leaves a stream that goes well.
LEMMA ResponsesGoesWell ==
  ASSUME NEW s, NEW op, NEW pr, GoesWell(s, op, pr), NEW e, IsEvent(e, pr),
         e.kind \notin {"usage", "error", "done"}
  PROVE  GoesWell(ResponsesEvent(s, e), op, pr)
<1>0. <<>> \in Seq(Nat) /\ Text \in Idents /\ Reasoning \in Idents
  BY FixedNames
<1>1. CASE IsPlain(e) /\ e.kind = "reasoning"
  <2>1. GoesWell(EnsureReasoning(s), op, pr) /\ EnsureReasoning(s).reasoning \in Nat
        /\ Opened(EnsureReasoning(s).out, EnsureReasoning(s).reasoning, Reasoning)
    BY ReasoningGoesWell
  <2>2. GoesWell(Emit(EnsureReasoning(s), <<Frame("delta", EnsureReasoning(s).reasoning, Reasoning, <<>>)>>), op, pr)
    BY <1>0, <2>1, EmitDelta
  <2>3. ResponsesEvent(s, e) = Emit(EnsureReasoning(s), <<Frame("delta", EnsureReasoning(s).reasoning, Reasoning, <<>>)>>)
    BY <1>1, Zenon DEF ResponsesEvent
  <2> QED
    BY <2>2, <2>3
<1>2. CASE IsPlain(e) /\ e.kind # "reasoning"
  <2>1. GoesWell(EnsureText(s), op, pr) /\ EnsureText(s).text \in Nat
        /\ Opened(EnsureText(s).out, EnsureText(s).text, Text)
    BY TextGoesWell
  <2>2. GoesWell(Emit(EnsureText(s), <<Frame("delta", EnsureText(s).text, Text, <<>>)>>), op, pr)
    BY <1>0, <2>1, EmitDelta
  <2>3. e.kind \in {"text", "image", "video"} /\ e.kind \notin {"tool", "reasoning"}
    BY <1>2 DEF IsPlain, Kinds
  <2>4. ResponsesEvent(s, e) = Emit(EnsureText(s), <<Frame("delta", EnsureText(s).text, Text, <<>>)>>)
    BY <2>3, Zenon DEF ResponsesEvent
  <2> QED
    BY <2>2, <2>4
<1>3. CASE \E t \in Tools : IsToolEvent(e, pr, t)
  <2>1. PICK t \in Tools : IsToolEvent(e, pr, t)
    BY <1>3
  <2> DEFINE r == Record(s, e)
             a == AddedTool(r.s, r.n)
             i == r.s.tools[r.n].itemID
  <2>2. GoesWell(r.s, op, pr) /\ r.n \in DOMAIN r.s.tools /\ i = ItemOf(pr, t)
        /\ ItemOf(pr, t) \in Idents /\ e.args \in Seq(Nat) /\ e.kind = "tool"
    BY <2>1, RecordedCall
  <2>3. GoesWell(a, op, pr) /\ a.tools[r.n].outputIndex \in Nat /\ Opened(a.out, a.tools[r.n].outputIndex, i)
    BY <2>2, ToolGoesWell
  <2>4. ResponsesEvent(s, e) = ResponsesTool(s, e)
    BY <2>2, Zenon DEF ResponsesEvent
  <2>5. ResponsesTool(s, e) = IF e.args = <<>> THEN a
                              ELSE Emit(a, <<Frame("delta", a.tools[r.n].outputIndex, i, e.args)>>)
    BY Zenon DEF ResponsesTool, AddedTool
  <2> HIDE DEF a, r, i
  <2>6. GoesWell(Emit(a, <<Frame("delta", a.tools[r.n].outputIndex, i, e.args)>>), op, pr)
    BY <2>2, <2>3, EmitDelta
  <2> QED
    BY <2>3, <2>4, <2>5, <2>6
<1> QED
  BY <1>1, <1>2, <1>3 DEF IsEvent

\* Messages: every event leaves a stream that goes well.
LEMMA MessagesGoesWell ==
  ASSUME NEW s, NEW pr, GoesWell(s, "messages", pr), NEW e, IsEvent(e, pr)
  PROVE  GoesWell(MessagesEvent(s, e), "messages", pr)
<1> DEFINE kind == IF e.kind \in {"image", "video"} THEN "text" ELSE e.kind
           q == IF kind = "tool" THEN Record(s, e).s ELSE s
           fits == s.open /\ s.blockKind = kind /\ (kind = "tool" => s.blockTool = e.id)
           b == IF fits THEN q ELSE OpenBlock(q, kind, e.id)
<1>1. kind \in BlockKinds /\ e.id \in Idents /\ e.args \in Seq(Nat) /\ (kind = "tool" <=> e.kind = "tool")
  <2>1. CASE IsPlain(e)
    <3>1. e.kind \in Kinds /\ e.kind # "tool" /\ e.id \in Idents /\ e.args \in Seq(Nat)
      BY <2>1, FixedNames DEF IsPlain, Kinds
    <3>2. kind \in Kinds /\ kind # "tool"
      BY <3>1 DEF Kinds
    <3> QED
      BY <3>1, <3>2 DEF BlockKinds
  <2>2. CASE \E t \in Tools : IsToolEvent(e, pr, t)
    <3>1. e.kind = "tool" /\ e.id \in Idents /\ e.args \in Seq(Nat)
      BY <2>2, RecordedCall DEF IsToolEvent
    <3>2. kind = "tool"
      BY <3>1
    <3> QED
      BY <3>1, <3>2 DEF BlockKinds
  <2> QED
    BY <2>1, <2>2 DEF IsEvent
<1>2. GoesWell(q, "messages", pr) /\ q.open = s.open
  <2>1. CASE e.kind = "tool"
    <3>1. PICK t \in Tools : IsToolEvent(e, pr, t)
      BY <2>1 DEF IsEvent, IsPlain, Kinds
    <3>2. GoesWell(Record(s, e).s, "messages", pr) /\ Record(s, e).s.open = s.open
      BY <3>1, RecordedCall
    <3> QED
      BY <1>1, <2>1, <3>2
  <2>2. CASE e.kind # "tool"
    BY <1>1, <2>2
  <2> QED
    BY <2>1, <2>2
<1>3. MessagesEvent(s, e) = IF kind = "tool" /\ e.args = <<>> THEN b
                            ELSE Emit(b, <<Frame("block_delta", b.blockIndex, e.id, e.args)>>)
  BY Zenon DEF MessagesEvent
<1> HIDE DEF q, kind
<1>4. GoesWell(b, "messages", pr) /\ b.open
  <2>1. CASE fits
    BY <1>2, <2>1
  <2>2. CASE ~fits
    BY <1>1, <1>2, <2>2, OpenGoesWell
  <2> QED
    BY <2>1, <2>2
<1> HIDE DEF b
<1>5. GoesWell(Emit(b, <<Frame("block_delta", b.blockIndex, e.id, e.args)>>), "messages", pr)
  BY <1>1, <1>4, EmitBlockDelta
<1> QED
  BY <1>3, <1>4, <1>5

\* Every event leaves a stream that goes well.
LEMMA EventGoesWell ==
  ASSUME NEW s, NEW op \in Conversational, NEW pr, GoesWell(s, op, pr), NEW e, IsEvent(e, pr),
         e.kind \notin {"error", "done"}
  PROVE  GoesWell(StreamEvent(s, op, e), op, pr)
<1>1. CASE e.kind = "usage"
  <2> DEFINE q == [s EXCEPT !.usage = TRUE]
  <2>1. StreamEvent(s, op, e) = q
    BY <1>1, Zenon DEF StreamEvent
  <2>2. s \in Streams
    BY DEF GoesWell
  <2>3. q \in Streams
    BY <2>2 DEF Streams
  <2>4. /\ q.out = s.out /\ q.next = s.next /\ q.open = s.open /\ q.blockIndex = s.blockIndex
        /\ q.tools = s.tools /\ q.keys = s.keys /\ q.reasoning = s.reasoning /\ q.text = s.text
    BY <2>2, StreamFields
  <2> HIDE DEF q
  <2>5. Places(q) = Places(s) /\ \A n \in Places(s) : IndexAt(q, n) = IndexAt(s, n) /\ ItemAt(q, n) = ItemAt(s, n)
    BY <2>4 DEF Places, IndexAt, ItemAt
  <2>6. Items(q) /\ Blocks(q)
    BY <2>4, <2>5 DEF GoesWell, Items, Blocks
  <2> QED
    BY <2>1, <2>3, <2>4, <2>6 DEF GoesWell
<1>2. CASE e.kind # "usage" /\ op = "chat"
  <2>1. StreamEvent(s, op, e) = ChatEvent(s, e)
    BY <1>2, Zenon DEF StreamEvent
  <2> QED
    BY <2>1, ChatGoesWell
<1>3. CASE e.kind # "usage" /\ op = "responses"
  <2>1. StreamEvent(s, op, e) = ResponsesEvent(s, e)
    BY <1>3 DEF StreamEvent
  <2>2. e.kind \notin {"usage", "error", "done"}
    BY <1>3
  <2> QED
    BY <2>1, <2>2, ResponsesGoesWell
<1>4. CASE e.kind # "usage" /\ op = "messages"
  <2>1. StreamEvent(s, op, e) = MessagesEvent(s, e)
    BY <1>4 DEF StreamEvent
  <2> QED
    BY <1>4, <2>1, MessagesGoesWell
<1> QED
  BY <1>1, <1>2, <1>3, <1>4 DEF Conversational

-----------------------------------------------------------------------------
(* The beginning of a stream, and its end.                                 *)

\* No frames at all are well formed.
LEMMA NoFrames ==
  /\ <<>> \in Seq(Frames) /\ \A type : Occurs(<<>>, type) = {} /\ Count(<<>>, type) = 0
  /\ WellFormed(<<>>) /\ Ongoing(<<>>)
<1>1. \A type : Occurs(<<>>, type) = {}
  BY DEF Occurs
<1>2. Cardinality({}) = 0
  BY FS_EmptySet
<1>3. \A type : Count(<<>>, type) = 0
  BY <1>1, <1>2 DEF Count
<1>4. Ongoing(<<>>)
  BY <1>1 DEF Ongoing, Endings
<1>5. EndsOnce(<<>>)
  <2>1. Occurs(<<>>, "finish") \cup Occurs(<<>>, "completed") \cup Occurs(<<>>, "error") = {}
    BY <1>1
  <2>2. Cardinality(Occurs(<<>>, "finish") \cup Occurs(<<>>, "completed") \cup Occurs(<<>>, "error")) = 0
    BY <1>2, <2>1
  <2> QED
    BY <1>1, <2>2 DEF EndsOnce
<1>6. OutputWellFormed(<<>>)
  BY <1>1 DEF OutputWellFormed
<1>7. BlocksWellFormed(<<>>)
  BY DEF BlocksWellFormed
<1> QED
  BY <1>1, <1>3, <1>4, <1>5, <1>6, <1>7 DEF WellFormed

\* A stream goes well before it has started.
LEMMA NewGoesWell == \A op, pr : GoesWell(NewStream, op, pr)
<1>0. TAKE op, pr
<1>1. /\ NewStream.tools = <<>> /\ NewStream.keys = {} /\ NewStream.next = 0 /\ NewStream.text = -1
      /\ NewStream.reasoning = -1 /\ NewStream.open = FALSE /\ NewStream.blockIndex = 0 /\ NewStream.out = <<>>
  BY DEF NewStream
<1>2. NewStream \in Streams
  <2>1. /\ <<>> \in Seq(ToolEntries) /\ <<>> \in Seq(Frames) /\ -1 \in Int /\ 0 \in Nat
        /\ {} \in SUBSET (Idents \X Nat) /\ NoId \in Idents /\ FALSE \in BOOLEAN
    BY FixedNames
  <2>2. "" \in BlockKinds
    BY DEF BlockKinds
  <2> QED
    BY <2>1, <2>2, Zenon DEF NewStream, Streams
<1>3. Recorded(<<>>, {}, pr)
  BY DEF Recorded
<1>4. Places(NewStream) = {-1, 0} /\ IndexAt(NewStream, -1) = -1 /\ IndexAt(NewStream, 0) = -1
  BY <1>1 DEF Places, IndexAt
<1>5. Items(NewStream)
  BY <1>1, <1>4, NoFrames DEF Items
<1>6. Blocks(NewStream)
  BY <1>1, NoFrames DEF Blocks
<1> QED
  BY <1>1, <1>2, <1>3, <1>5, <1>6, NoFrames DEF GoesWell

\* The first frame of every operation.
LEMMA StartGoesWell ==
  ASSUME NEW op \in Conversational, NEW pr
  PROVE  GoesWell(Start(NewStream, op), op, pr)
<1>1. GoesWell(NewStream, op, pr) /\ NoId \in Idents /\ <<>> \in Seq(Nat) /\ -1 \in Int
  BY NewGoesWell, FixedNames
<1>2. \A type \in {"role", "created", "message_start", "content", "tool_calls"} :
         GoesWell(Emit(NewStream, <<Frame(type, -1, NoId, <<>>)>>), op, pr)
  BY <1>1, EmitPlain, Zenon
<1>3. \E type \in {"role", "created", "message_start", "content", "tool_calls"} :
         Start(NewStream, op) = Emit(NewStream, <<Frame(type, -1, NoId, <<>>)>>)
  <2>1. CASE op = "chat"
    BY <2>1, Zenon DEF Start
  <2>2. CASE op = "responses"
    BY <2>2 DEF Start
  <2>3. CASE op = "messages"
    BY <2>3 DEF Start
  <2> QED
    BY <2>1, <2>2, <2>3 DEF Conversational
<1> QED
  BY <1>2, <1>3

\* A stream whose last frames are being sent.
Balanced(f) == Count(f, "block_start") - Count(f, "block_stop") \in {0, 1}
Closing(f) == f \in Seq(Frames) /\ WellFormed(f) /\ Occurs(f, "end") = {} /\ Balanced(f)

\* A stream that goes well can be ended, and its blocks are paired when none is open.
LEMMA StreamCloses ==
  ASSUME NEW s, NEW op, NEW pr, GoesWell(s, op, pr)
  PROVE  /\ Closing(s.out) /\ Ongoing(s.out)
         /\ ~s.open => Count(s.out, "block_start") = Count(s.out, "block_stop")
<1>1. s \in Streams /\ s.out \in Seq(Frames) /\ s.blockIndex \in Nat /\ s.open \in BOOLEAN
  BY StreamFields DEF GoesWell
<1>2. WellFormed(s.out) /\ Ongoing(s.out) /\ Occurs(s.out, "end") = {}
  BY DEF GoesWell, Ongoing
<1>3. /\ Count(s.out, "block_start") = s.blockIndex + (IF s.open THEN 1 ELSE 0)
      /\ Count(s.out, "block_stop") = s.blockIndex
  BY DEF GoesWell, Blocks
<1> QED
  BY <1>1, <1>2, <1>3 DEF Closing, Balanced

\* The frames that end a stream.
LEMMA LastFrames ==
  ASSUME NEW f, Closing(f), NEW x \in Frames, x.type \in Ends,
         x.type # "end" => Endings(f) = {},
         x.type = "finish" => Count(f, "block_start") = Count(f, "block_stop"),
         x.type = "completed" => x.at = Count(f, "added") /\ {f[j].at : j \in Occurs(f, "done")} = 0..(x.at - 1)
  PROVE  WellFormed(Append(f, x)) /\ Append(f, x) \in Seq(Frames) /\ (x.type # "end" => Closing(Append(f, x)))
<1> DEFINE g == Append(f, x)
<1>1. f \in Seq(Frames) /\ WellFormed(f) /\ Occurs(f, "end") = {} /\ Balanced(f)
  BY DEF Closing
<1>2. Count(f, "block_start") \in Nat /\ Count(f, "block_stop") \in Nat
  BY <1>1, OccursFinite
<1>3. x.type \notin {"added", "delta", "done", "block_start", "block_delta", "block_stop"}
  BY DEF Ends
<1>4. BlockFits(f, x)
  BY <1>1, <1>2, <1>3 DEF BlockFits, Balanced
<1>5. OutputFits(f, x)
  BY <1>3 DEF OutputFits
<1>6. EndFits(f, x)
  BY <1>1 DEF EndFits
<1>7. WellFormed(g) /\ g \in Seq(Frames)
  BY <1>1, <1>4, <1>5, <1>6, FrameFits
<1>8. ASSUME x.type # "end" PROVE Closing(g)
  <2>1. Occurs(g, "end") = {}
    BY <1>1, <1>8, OccursAppend
  <2>2. Count(g, "block_start") = Count(f, "block_start") + 0 /\ Count(g, "block_stop") = Count(f, "block_stop") + 0
    BY <1>1, <1>3, OccursAppend
  <2>3. Balanced(g)
    BY <1>1, <1>2, <2>2 DEF Balanced
  <2> QED
    BY <1>7, <2>1, <2>3 DEF Closing
<1> QED
  BY <1>7, <1>8

\* The frames that end a stream have the types of an end.
LEMMA LastTypes ==
  ASSUME NEW at \in Int
  PROVE  /\ \A type \in Ends : Frame(type, at, NoId, <<>>) \in Frames /\ Frame(type, at, NoId, <<>>).type = type
                               /\ Frame(type, at, NoId, <<>>).at = at
         /\ "finish" \in Ends /\ "completed" \in Ends /\ "error" \in Ends /\ "end" \in Ends
<1>1. NoId \in Idents /\ <<>> \in Seq(Nat)
  BY FixedNames
<1> QED
  BY <1>1 DEF Frame, Frames, FrameTypes, Ends

\* writeError ends any stream well formed.
LEMMA ErrorWellFormed ==
  ASSUME NEW s, NEW op, NEW pr, GoesWell(s, op, pr)
  PROVE  WellFormed(WriteError(s, op).out)
<1> DEFINE x == Frame("error", -1, NoId, <<>>)
           z == Frame("end", -1, NoId, <<>>)
           f == s.out
<1>1. s \in Streams /\ f \in Seq(Frames) /\ Closing(f) /\ Endings(f) = {}
  BY StreamCloses, StreamFields DEF GoesWell, Ongoing
<1>2. -1 \in Int
  OBVIOUS
<1>3. x \in Frames /\ x.type = "error" /\ z \in Frames /\ z.type = "end"
  BY <1>2, LastTypes, Zenon
<1>4. WriteError(s, op).out = f \o (<<x>> \o (IF op = "messages" THEN <<>> ELSE <<z>>))
  <2> DEFINE more == <<x>> \o (IF op = "messages" THEN <<>> ELSE <<z>>)
  <2>1. WriteError(s, op) = Emit(s, more)
    BY Zenon DEF WriteError
  <2> HIDE DEF more
  <2>2. Emit(s, more).out = f \o more
    BY <1>1, StreamFields DEF Emit
  <2> QED
    BY <2>1, <2>2 DEF more
<1> HIDE DEF x, z, f
<1>5. f \o (<<x>> \o (IF op = "messages" THEN <<>> ELSE <<z>>))
      = IF op = "messages" THEN Append(f, x) ELSE Append(Append(f, x), z)
  <2>1. f \o (<<x>> \o <<>>) = Append(f, x) /\ f \o (<<x>> \o <<z>>) = Append(Append(f, x), z)
    BY <1>1, <1>3
  <2> QED
    BY <2>1
<1>6. Ends = {"finish", "completed", "error", "end"}
  BY DEF Ends
<1>7. WellFormed(Append(f, x)) /\ Closing(Append(f, x))
  BY <1>1, <1>3, <1>6, LastFrames
<1>8. WellFormed(Append(Append(f, x), z))
  BY <1>3, <1>6, <1>7, LastFrames
<1> QED
  BY <1>4, <1>5, <1>7, <1>8

\* The last frame of all.
LEMMA EndWellFormed ==
  ASSUME NEW f, Closing(f)
  PROVE  WellFormed(f \o <<Frame("end", -1, NoId, <<>>)>>)
<1> DEFINE z == Frame("end", -1, NoId, <<>>)
<1>1. -1 \in Int
  OBVIOUS
<1>2. z \in Frames /\ z.type = "end" /\ "end" \in Ends
  BY <1>1, LastTypes, Zenon
<1> HIDE DEF z
<1>3. f \in Seq(Frames)
  BY DEF Closing
<1>4. WellFormed(Append(f, z))
  BY <1>2, LastFrames
<1>5. f \o <<z>> = Append(f, z)
  BY <1>2, <1>3
<1> QED
  BY <1>4, <1>5 DEF z

\* finish of a stream without an open block.
LEMMA FinishPlain ==
  ASSUME NEW f, NEW k \in Int, Closing(f), Endings(f) = {}, Count(f, "block_start") = Count(f, "block_stop")
  PROVE  WellFormed(f \o <<Frame("finish", k, NoId, <<>>), Frame("end", -1, NoId, <<>>)>>)
<1> DEFINE x == Frame("finish", k, NoId, <<>>)
           z == Frame("end", -1, NoId, <<>>)
<1>1. -1 \in Int
  OBVIOUS
<1>2. z \in Frames
  BY <1>1, LastTypes, Zenon
<1>3. x \in Frames /\ x.type = "finish" /\ "finish" \in Ends
  BY LastTypes, Zenon
<1>4. WellFormed(Append(f, x) \o <<z>>)
  <2> HIDE DEF x
  <2>1. x.type \notin {"end", "completed"} /\ x.type \in Ends
    BY <1>3
  <2>2. Closing(Append(f, x))
    BY <1>3, <2>1, LastFrames
  <2> QED
    BY <2>2, EndWellFormed
<1> HIDE DEF x, z
<1>5. f \in Seq(Frames)
  BY DEF Closing
<1>6. f \o <<x, z>> = Append(f, x) \o <<z>>
  BY <1>2, <1>3, <1>5
<1> QED
  BY <1>4, <1>6 DEF x, z

-----------------------------------------------------------------------------
(* The end of a Responses stream.                                          *)

DoneAt(at, item, args) == IF at < 0 THEN <<>> ELSE <<Frame("done", at, item, args)>>
DoneIndices(f) == {f[j].at : j \in Occurs(f, "done")}

\* The frames f close the items of s up to the place k.
ClosedUpTo(f, s, k) ==
  /\ f \in Seq(Frames) /\ WellFormed(f) /\ Ongoing(f) /\ Balanced(f)
  /\ Count(f, "added") = s.next
  /\ \A n \in Places(s) : IndexAt(s, n) >= 0 => Opened(f, IndexAt(s, n), ItemAt(s, n))
  /\ DoneIndices(f) = {IndexAt(s, n) : n \in {m \in Places(s) : m <= k /\ IndexAt(s, m) >= 0}}

\* Before the end no item is closed.
LEMMA NothingClosed ==
  ASSUME NEW s, NEW op, NEW pr, GoesWell(s, op, pr)
  PROVE  ClosedUpTo(s.out, s, -2)
<1>1. Closing(s.out) /\ Ongoing(s.out)
  BY StreamCloses
<1>2. \A n \in Places(s) : IndexAt(s, n) >= 0 => Opened(s.out, IndexAt(s, n), ItemAt(s, n))
  BY OpenItem
<1>3. DoneIndices(s.out) = {} /\ Count(s.out, "added") = s.next
  BY DEF GoesWell, Items, DoneIndices
<1>4. {m \in Places(s) : m <= -2 /\ IndexAt(s, m) >= 0} = {}
  <2>1. Len(s.tools) \in Nat
    BY StreamFields DEF GoesWell
  <2> QED
    BY <2>1 DEF Places
<1> QED
  BY <1>1, <1>2, <1>3, <1>4 DEF ClosedUpTo, Closing

\* A frame that closes an item closes its index.
LEMMA DoneIndicesAppend ==
  ASSUME NEW f \in Seq(Frames), NEW x \in Frames, x.type = "done"
  PROVE  DoneIndices(Append(f, x)) = DoneIndices(f) \cup {x.at}
<1>1. Occurs(Append(f, x), "done") = Occurs(f, "done") \cup {Len(f) + 1}
  BY OccursAppend
<1>2. Occurs(f, "done") \subseteq 1..Len(f) /\ Len(f) \in Nat
  BY OccursFinite
<1>3. /\ \A i \in 1..Len(f) : Append(f, x)[i] = f[i]
      /\ Append(f, x)[Len(f) + 1] = x
  OBVIOUS
<1> DEFINE g == Append(f, x)
<1> HIDE DEF g
<1> QED
  BY <1>1, <1>2, <1>3 DEF DoneIndices

\* One more item is closed.
LEMMA CloseItem ==
  ASSUME NEW s, NEW op, NEW pr, GoesWell(s, op, pr), NEW n \in Places(s), NEW f, ClosedUpTo(f, s, n - 1),
         NEW args \in Seq(Nat), ItemAt(s, n) \in Idents
  PROVE  ClosedUpTo(f \o DoneAt(IndexAt(s, n), ItemAt(s, n), args), s, n)
<1> DEFINE at == IndexAt(s, n)
           x == Frame("done", at, ItemAt(s, n), args)
           g == Append(f, x)
           before(k) == {m \in Places(s) : m <= k /\ IndexAt(s, m) >= 0}
<1>0. n \in Int /\ Places(s) \subseteq Int
  BY DEF Places
<1>1. f \in Seq(Frames) /\ WellFormed(f) /\ Ongoing(f) /\ Balanced(f)
  BY DEF ClosedUpTo
<1>2. /\ at \in Int
      /\ \A m \in Places(s) : IndexAt(s, m) >= 0 /\ IndexAt(s, m) = at => m = n
  <2>1. at = -1 \/ at \in Nat
    BY OpenItem
  <2> QED
    BY <2>1 DEF GoesWell, Items
<1>3. CASE at < 0
  <2>1. f \o DoneAt(at, ItemAt(s, n), args) = f
    BY <1>1, <1>3 DEF DoneAt
  <2>2. before(n) = before(n - 1)
    <3>1. ASSUME NEW m \in Places(s), IndexAt(s, m) >= 0 PROVE m <= n <=> m <= n - 1
      <4>1. m # n
        BY <1>2, <1>3, <3>1
      <4> QED
        BY <1>0, <4>1
    <3> QED
      BY <3>1
  <2> HIDE DEF at
  <2> QED
    BY <2>1, <2>2 DEF ClosedUpTo, at
<1>4. CASE at >= 0
  <2>1. x \in Frames /\ x.type = "done" /\ x.at = at /\ x.item = ItemAt(s, n)
    BY <1>2 DEF Frame, Frames, FrameTypes
  <2>2. DoneAt(at, ItemAt(s, n), args) = <<x>>
    <3>1. ~(at < 0)
      BY <1>2, <1>4
    <3> QED
      BY <3>1, Zenon DEF DoneAt
  <2> HIDE DEF x
  <2>3. f \o <<x>> = g
    BY <1>1, <2>1
  <2>4. Opened(f, at, ItemAt(s, n))
    BY <1>4 DEF ClosedUpTo
  <2>5. at \notin DoneIndices(f)
    <3> SUFFICES ASSUME at \in DoneIndices(f) PROVE FALSE
      OBVIOUS
    <3>1. PICK m \in before(n - 1) : IndexAt(s, m) = at
      BY DEF ClosedUpTo
    <3>2. m = n
      BY <1>2, <1>4, <3>1
    <3> QED
      BY <1>0, <3>1, <3>2
  <2>6. Occurs(f, "completed") = {} /\ Endings(f) = {} /\ Occurs(f, "end") = {}
    BY <1>1 DEF Ongoing, Endings
  <2>7. Count(f, "block_start") \in Nat /\ Count(f, "block_stop") \in Nat /\ Count(f, "added") \in Nat
    BY <1>1, OccursFinite
  <2>8. x.type \notin {"added", "delta", "completed", "block_start", "block_delta", "block_stop"} \cup Ends
    BY <2>1 DEF Ends
  <2>9. WellFormed(g) /\ g \in Seq(Frames)
    <3>1. BlockFits(f, x)
      <4>1. x.type # "finish"
        BY <2>8 DEF Ends
      <4> QED
        BY <1>1, <2>7, <2>8, <4>1 DEF BlockFits, Balanced
    <3>2. OutputFits(f, x)
      BY <2>1, <2>4, <2>5, <2>6, <2>8 DEF OutputFits, Opened, DoneIndices
    <3>3. EndFits(f, x)
      BY <2>6 DEF EndFits
    <3> QED
      BY <1>1, <2>1, <3>1, <3>2, <3>3, FrameFits
  <2>10. /\ Count(g, "block_start") = Count(f, "block_start") + 0 /\ Count(g, "block_stop") = Count(f, "block_stop") + 0
         /\ Count(g, "added") = Count(f, "added") + 0
    BY <1>1, <2>1, <2>8, OccursAppend
  <2>11. Ongoing(g) /\ \A k, item : Opened(f, k, item) => Opened(g, k, item)
    BY <1>1, <2>1, <2>8, FrameChanges
  <2>12. DoneIndices(g) = DoneIndices(f) \cup {at}
    BY <1>1, <2>1, DoneIndicesAppend
  <2>13. before(n) = before(n - 1) \cup {n}
    BY <1>0, <1>4
  <2>14. DoneIndices(f) = {IndexAt(s, m) : m \in before(n - 1)}
    BY DEF ClosedUpTo
  <2>15. DoneIndices(g) = {IndexAt(s, m) : m \in before(n)}
    <3> HIDE DEF before, g
    <3> QED
      BY <2>12, <2>13, <2>14
  <2>16. Balanced(g) /\ Count(g, "added") = s.next
    BY <1>1, <2>7, <2>10 DEF Balanced, ClosedUpTo
  <2>17. \A m \in Places(s) : IndexAt(s, m) >= 0 => Opened(g, IndexAt(s, m), ItemAt(s, m))
    BY <2>11 DEF ClosedUpTo
  <2>18. ClosedUpTo(g, s, n)
    BY <2>9, <2>11, <2>15, <2>16, <2>17 DEF ClosedUpTo
  <2> QED
    BY <2>2, <2>3, <2>18
<1> QED
  BY <1>2, <1>3, <1>4

\* Concatenations stay sequences of their kind.
LEMMA Concats ==
  ASSUME NEW X, NEW a \in Seq(X), NEW b \in Seq(X)
  PROVE  a \o b \in Seq(X) /\ a \o <<>> = a /\ \A x \in X : a \o (b \o <<x>>) = Append(a \o b, x)
OBVIOUS

\* The frames that close one item.
LEMMA DoneType ==
  ASSUME NEW at \in Int, NEW item \in Idents, NEW args \in Seq(Nat)
  PROVE  DoneAt(at, item, args) \in Seq(Frames)
<1>1. Frame("done", at, item, args) \in Frames
  BY DEF Frame, Frames, FrameTypes
<1> QED
  BY <1>1 DEF DoneAt

\* The frames that close tool call n, and those that close them all.
ToolDone(s, n) == DoneAt(s.tools[n].outputIndex, s.tools[n].itemID, s.tools[n].args)
ToolsDone(s) == [n \in DOMAIN s.tools |-> ToolDone(s, n)]
ItemsDone(s) == DoneAt(s.reasoning, Reasoning, <<>>) \o DoneAt(s.text, Text, <<>>) \o FlattenSeq(ToolsDone(s))

\* The frames that close all tool calls.
LEMMA ToolsDoneType ==
  ASSUME NEW s \in Streams
  PROVE  /\ ToolsDone(s) \in Seq(Seq(Frames)) /\ Len(ToolsDone(s)) = Len(s.tools)
         /\ \A n \in 1..Len(s.tools) : ToolsDone(s)[n] = ToolDone(s, n)
<1>1. s.tools \in Seq(ToolEntries) /\ Len(s.tools) \in Nat /\ DOMAIN s.tools = 1..Len(s.tools)
  BY StreamFields
<1>2. ASSUME NEW n \in 1..Len(s.tools) PROVE ToolDone(s, n) \in Seq(Frames)
  <2>1. s.tools[n] \in ToolEntries
    BY <1>1
  <2>2. s.tools[n].outputIndex \in Int /\ s.tools[n].itemID \in Idents /\ s.tools[n].args \in Seq(Nat)
    BY <2>1 DEF ToolEntries
  <2> QED
    BY <2>2, DoneType DEF ToolDone
<1> QED
  BY <1>1, <1>2 DEF ToolsDone

\* After the frames of ItemsDone every item is closed.
LEMMA AllClosed ==
  ASSUME NEW s, NEW op, NEW pr, GoesWell(s, op, pr)
  PROVE  ClosedUpTo(s.out \o ItemsDone(s), s, Len(s.tools)) /\ ItemsDone(s) \in Seq(Frames)
<1> DEFINE d == ToolsDone(s)
           ra == DoneAt(s.reasoning, Reasoning, <<>>)
           ta == DoneAt(s.text, Text, <<>>)
           tools(k) == FlattenSeq(SubSeq(d, 1, k))
           N == Len(s.tools)
           f(k) == ((s.out \o ra) \o ta) \o tools(k)
           S == {k \in Nat : k <= N => ClosedUpTo(f(k), s, k)}
<1>1. /\ s \in Streams /\ N \in Nat /\ s.out \in Seq(Frames) /\ s.text \in Int /\ s.reasoning \in Int
      /\ s.tools \in Seq(ToolEntries) /\ DOMAIN s.tools = 1..N
  BY StreamFields DEF GoesWell
<1>2. <<>> \in Seq(Nat) /\ Text \in Idents /\ Reasoning \in Idents
  BY FixedNames
<1>3. d \in Seq(Seq(Frames)) /\ Len(d) = N /\ \A n \in 1..N : d[n] = ToolDone(s, n)
  BY <1>1, ToolsDoneType
<1>4. ra \in Seq(Frames) /\ ta \in Seq(Frames)
  BY <1>1, <1>2, DoneType
<1>5. ASSUME NEW k \in 0..N PROVE SubSeq(d, 1, k) \in Seq(Seq(Frames)) /\ tools(k) \in Seq(Frames)
  <2>1. SubSeq(d, 1, k) \in Seq(Seq(Frames))
    BY <1>1, <1>3
  <2> QED
    BY <2>1, FlatType
<1> HIDE DEF d
<1>6. 0 \in S
  <2>1. /\ -1 \in Places(s) /\ IndexAt(s, -1) = s.reasoning /\ ItemAt(s, -1) = Reasoning
        /\ 0 \in Places(s) /\ IndexAt(s, 0) = s.text /\ ItemAt(s, 0) = Text
    BY <1>1 DEF Places, IndexAt, ItemAt
  <2>2. ClosedUpTo(s.out, s, -2)
    BY NothingClosed
  <2>3. -1 - 1 = -2 /\ 0 - 1 = -1
    OBVIOUS
  <2>4. ClosedUpTo(s.out, s, -1 - 1)
    BY <2>2, <2>3
  <2>5. ClosedUpTo(s.out \o DoneAt(IndexAt(s, -1), ItemAt(s, -1), <<>>), s, -1)
    BY <1>2, <2>1, <2>4, CloseItem
  <2>6. ClosedUpTo(s.out \o ra, s, -1)
    BY <2>1, <2>5
  <2>7. ClosedUpTo(s.out \o ra, s, 0 - 1)
    BY <2>3, <2>6
  <2> HIDE DEF ra
  <2>8. ClosedUpTo((s.out \o ra) \o DoneAt(IndexAt(s, 0), ItemAt(s, 0), <<>>), s, 0)
    BY <1>2, <2>1, <2>7, CloseItem
  <2>9. ClosedUpTo((s.out \o ra) \o ta, s, 0)
    BY <2>1, <2>8
  <2> HIDE DEF ta
  <2>10. tools(0) = <<>>
    <3>1. SubSeq(d, 1, 0) = <<>>
      BY <1>3
    <3> QED
      BY <3>1, FlatEmpty
  <2>11. f(0) = (s.out \o ra) \o ta
    <3> DEFINE o == (s.out \o ra) \o ta
    <3>1. s.out \o ra \in Seq(Frames)
      BY <1>1, <1>4, Concats
    <3>2. o \in Seq(Frames)
      BY <1>4, <3>1, Concats
    <3> HIDE DEF tools, o
    <3>3. o \o <<>> = o
      BY <3>2, Concats
    <3>4. o \o tools(0) = o
      BY <2>10, <3>3
    <3> QED
      BY <3>4 DEF o
  <2> QED
    BY <2>9, <2>11
<1>7. ASSUME NEW k \in 0..(N - 1), k \in S PROVE k + 1 \in S
  <2>1. k \in Nat /\ k \in 0..N /\ k + 1 \in 1..N /\ k + 1 \in 0..N
    BY <1>1
  <2>2. SubSeq(d, 1, k + 1) = Append(SubSeq(d, 1, k), d[k + 1])
    BY <1>3, <2>1
  <2>3. d[k + 1] = ToolDone(s, k + 1) /\ d[k + 1] \in Seq(Frames)
    BY <1>3, <2>1
  <2>4. tools(k + 1) = tools(k) \o ToolDone(s, k + 1)
    BY <1>5, <2>1, <2>2, <2>3, FlatStep
  <2>5. /\ k + 1 \in Places(s) /\ IndexAt(s, k + 1) = s.tools[k + 1].outputIndex
        /\ ItemAt(s, k + 1) = s.tools[k + 1].itemID
    BY <1>1, <2>1 DEF Places, IndexAt, ItemAt
  <2>6. s.tools[k + 1].itemID \in Idents /\ s.tools[k + 1].args \in Seq(Nat)
    <3>1. s.tools[k + 1] \in ToolEntries
      BY <1>1, <2>1
    <3> QED
      BY <3>1 DEF ToolEntries
  <2>7. ClosedUpTo(f(k), s, k)
    BY <1>7, <2>1
  <2>8. (k + 1) - 1 = k
    BY <2>1
  <2>9. tools(k) \in Seq(Frames) /\ (s.out \o ra) \o ta \in Seq(Frames) /\ ToolDone(s, k + 1) \in Seq(Frames)
    BY <1>1, <1>4, <1>5, <2>1, <2>3
  <2>10. f(k + 1) = f(k) \o ToolDone(s, k + 1)
    <3> DEFINE o == (s.out \o ra) \o ta
    <3> HIDE DEF tools, o
    <3>1. PICK u \in Seq(Frames), v \in Seq(Frames), w \in Seq(Frames) :
            u = o /\ v = tools(k) /\ w = ToolDone(s, k + 1)
      BY <2>9 DEF o
    <3>2. u \o (v \o w) = (u \o v) \o w
      OBVIOUS
    <3>3. o \o tools(k + 1) = (o \o tools(k)) \o ToolDone(s, k + 1)
      BY <2>4, <3>1, <3>2
    <3> QED
      BY <3>3 DEF o
  <2> HIDE DEF f
  <2>11. ClosedUpTo(f(k), s, (k + 1) - 1)
    BY <2>7, <2>8
  <2>12. ClosedUpTo(f(k) \o DoneAt(IndexAt(s, k + 1), ItemAt(s, k + 1), s.tools[k + 1].args), s, k + 1)
    <3> DEFINE n == k + 1
    <3>1. n \in Places(s) /\ ItemAt(s, n) \in Idents /\ s.tools[n].args \in Seq(Nat)
      BY <2>5, <2>6
    <3>2. ClosedUpTo(f(k), s, n - 1)
      BY <2>11
    <3> HIDE DEF n
    <3>3. ClosedUpTo(f(k) \o DoneAt(IndexAt(s, n), ItemAt(s, n), s.tools[n].args), s, n)
      BY <3>1, <3>2, CloseItem
    <3> QED
      BY <3>3 DEF n
  <2>13. ClosedUpTo(f(k + 1), s, k + 1)
    BY <2>5, <2>10, <2>12 DEF ToolDone
  <2> QED
    BY <2>1, <2>13
<1> HIDE DEF S, f, N, ra, ta
<1>8. N \in S
  BY <1>1, <1>6, <1>7, Induction
<1>9. ClosedUpTo(f(N), s, N)
  BY <1>1, <1>8 DEF S
<1>10. tools(N) = FlattenSeq(d)
  <2>1. SubSeq(d, 1, N) = d
    BY <1>1, <1>3
  <2> QED
    BY <2>1
<1>11. FlattenSeq(d) \in Seq(Frames)
  BY <1>3, FlatType
<1>12. f(N) = s.out \o ((ra \o ta) \o FlattenSeq(d))
  <2>1. PICK u \in Seq(Frames), v \in Seq(Frames), w \in Seq(Frames), o \in Seq(Frames) :
          o = s.out /\ u = ra /\ v = ta /\ w = FlattenSeq(d)
    BY <1>1, <1>4, <1>11
  <2>2. o \o (u \o v) = (o \o u) \o v /\ (u \o v) \in Seq(Frames)
    OBVIOUS
  <2>3. \A x \in Seq(Frames) : o \o (x \o w) = (o \o x) \o w
    OBVIOUS
  <2>4. o \o ((u \o v) \o w) = ((o \o u) \o v) \o w
    BY <2>2, <2>3
  <2> HIDE DEF tools
  <2> QED
    BY <1>10, <2>1, <2>4 DEF f
<1>13. ItemsDone(s) = (ra \o ta) \o FlattenSeq(d)
  BY DEF ItemsDone, ra, ta, d
<1>14. (ra \o ta) \o FlattenSeq(d) \in Seq(Frames)
  BY <1>4, <1>11
<1> QED
  BY <1>9, <1>12, <1>13, <1>14 DEF N

\* The indices that are closed in the end are those up to next.
LEMMA IndicesClosed ==
  ASSUME NEW s, NEW op, NEW pr, GoesWell(s, op, pr), NEW f, ClosedUpTo(f, s, Len(s.tools))
  PROVE  DoneIndices(f) = 0..(s.next - 1)
<1>1. Len(s.tools) \in Nat /\ s.next \in Nat
  BY StreamFields DEF GoesWell
<1>2. \A n \in Places(s) : n <= Len(s.tools)
  BY <1>1 DEF Places
<1>3. DoneIndices(f) = {IndexAt(s, n) : n \in {m \in Places(s) : IndexAt(s, m) >= 0}}
  BY <1>2 DEF ClosedUpTo
<1>4. \A n \in Places(s) : IndexAt(s, n) = -1 \/ IndexAt(s, n) \in 0..(s.next - 1)
  BY DEF GoesWell, Items
<1>5. \A k \in 0..(s.next - 1) : \E n \in Places(s) : IndexAt(s, n) = k
  BY DEF GoesWell, Items
<1> QED
  BY <1>1, <1>3, <1>4, <1>5

\* The end of a Responses stream: every item is closed once, and the count of items is right.
LEMMA FinishResponsesWellFormed ==
  ASSUME NEW s, NEW op, NEW pr, GoesWell(s, op, pr)
  PROVE  WellFormed(Finish(s, "responses").out)
<1> DEFINE i == ItemsDone(s)
           f == s.out \o i
           x == Frame("completed", s.next, NoId, <<>>)
           z == Frame("end", -1, NoId, <<>>)
<1>1. s \in Streams /\ s.out \in Seq(Frames) /\ s.next \in Nat /\ s.next \in Int
  BY StreamFields DEF GoesWell
<1>2. ClosedUpTo(f, s, Len(s.tools)) /\ i \in Seq(Frames)
  BY AllClosed
<1>3. DoneIndices(f) = 0..(s.next - 1)
  BY <1>2, IndicesClosed
<1>4. FinishResponses(s).out = s.out \o (i \o <<x>>)
  <2>1. FinishResponses(s) = Emit(s, i \o <<x>>)
    BY Zenon DEF FinishResponses, ItemsDone, ToolsDone, ToolDone, DoneAt
  <2> DEFINE more == i \o <<x>>
  <2> HIDE DEF more
  <2>2. Emit(s, more).out = s.out \o more
    BY <1>1, StreamFields DEF Emit
  <2> QED
    BY <2>1, <2>2 DEF more
<1>5. x \in Frames /\ x.type = "completed" /\ x.at = s.next
  BY <1>1, LastTypes, Zenon
<1> HIDE DEF x, i
<1>6. i \o <<x>> \in Seq(Frames)
  BY <1>2, <1>5
<1>7. FinishResponses(s) = [s EXCEPT !.out = s.out \o (i \o <<x>>)]
  <2>1. FinishResponses(s) = Emit(s, i \o <<x>>)
    BY Zenon DEF FinishResponses, ItemsDone, ToolsDone, ToolDone, DoneAt, i, x
  <2> QED
    BY <2>1 DEF Emit
<1>8. FinishResponses(s) \in Streams
  <2> DEFINE o == s.out \o (i \o <<x>>)
  <2>1. o \in Seq(Frames)
    BY <1>1, <1>6, Concats
  <2> HIDE DEF o
  <2>2. [s EXCEPT !.out = o] \in Streams
    BY <1>1, <2>1 DEF Streams
  <2> QED
    BY <1>7, <2>2 DEF o
<1>9. Finish(s, "responses").out = FinishResponses(s).out \o <<z>>
  <2>1. Finish(s, "responses") = Emit(FinishResponses(s), <<z>>)
    BY Zenon DEF Finish
  <2>2. PICK q \in Streams : q = FinishResponses(s)
    BY <1>8
  <2> HIDE DEF z
  <2>3. Emit(q, <<z>>).out = q.out \o <<z>>
    BY StreamFields DEF Emit
  <2> QED
    BY <2>1, <2>2, <2>3
<1>10. s.out \o (i \o <<x>>) = Append(f, x)
  <2>1. x \in Frames
    BY <1>5
  <2>2. PICK a \in Seq(Frames), b \in Seq(Frames) : a = s.out /\ b = i
    BY <1>1, <1>2
  <2>3. a \o (b \o <<x>>) = Append(a \o b, x)
    BY <2>1, Concats
  <2> QED
    BY <2>2, <2>3
<1>11. Closing(f) /\ Endings(f) = {} /\ Count(f, "added") = s.next
  BY <1>2 DEF ClosedUpTo, Closing, Ongoing
<1>12. x.type \notin {"end", "finish"} /\ x.type \in Ends
  BY <1>5 DEF Ends
<1> HIDE DEF f, z
<1>13. {f[j].at : j \in Occurs(f, "done")} = 0..(x.at - 1)
  BY <1>3, <1>5 DEF DoneIndices
<1>14. Closing(Append(f, x))
  BY <1>5, <1>11, <1>12, <1>13, LastFrames
<1>15. WellFormed(Append(f, x) \o <<z>>)
  BY <1>14, EndWellFormed DEF z
<1> QED
  BY <1>4, <1>9, <1>10, <1>15

\* Every stream can be finished.
LEMMA FinishWellFormed ==
  ASSUME NEW s, NEW op \in Conversational, NEW pr, GoesWell(s, op, pr)
  PROVE  WellFormed(Finish(s, op).out)
<1>1. s \in Streams /\ Len(s.tools) \in Int
  BY StreamFields DEF GoesWell
<1>2. CASE op = "chat"
  <2>1. Finish(s, op) = Emit(s, <<Frame("finish", Len(s.tools), NoId, <<>>), Frame("end", -1, NoId, <<>>)>>)
    BY <1>2, Zenon DEF Finish
  <2>2. Finish(s, op).out = s.out \o <<Frame("finish", Len(s.tools), NoId, <<>>), Frame("end", -1, NoId, <<>>)>>
    <3> DEFINE more == <<Frame("finish", Len(s.tools), NoId, <<>>), Frame("end", -1, NoId, <<>>)>>
    <3> HIDE DEF more
    <3>1. Emit(s, more).out = s.out \o more
      BY <1>1, StreamFields DEF Emit
    <3> QED
      BY <2>1, <3>1 DEF more
  <2>3. Closing(s.out) /\ Endings(s.out) = {} /\ Count(s.out, "block_start") = Count(s.out, "block_stop")
    BY <1>2, StreamCloses DEF GoesWell, Ongoing
  <2>4. WellFormed(s.out \o <<Frame("finish", Len(s.tools), NoId, <<>>), Frame("end", -1, NoId, <<>>)>>)
    BY <1>1, <2>3, FinishPlain
  <2> QED
    BY <2>2, <2>4
<1>3. CASE op = "responses"
  BY <1>3, FinishResponsesWellFormed
<1>4. CASE op = "messages"
  <2> DEFINE c == CloseBlock(s)
  <2>0. GoesWell(c, op, pr) /\ ~c.open
    BY <1>4, CloseGoesWell
  <2>1. Finish(s, op) = Emit(c, <<Frame("finish", Len(s.tools), NoId, <<>>), Frame("end", -1, NoId, <<>>)>>)
    BY <1>4, Zenon DEF Finish
  <2> HIDE DEF c
  <2>2. Finish(s, op).out = c.out \o <<Frame("finish", Len(s.tools), NoId, <<>>), Frame("end", -1, NoId, <<>>)>>
    <3> DEFINE more == <<Frame("finish", Len(s.tools), NoId, <<>>), Frame("end", -1, NoId, <<>>)>>
    <3> HIDE DEF more
    <3>0. c \in Streams
      BY <2>0 DEF GoesWell
    <3>1. Emit(c, more).out = c.out \o more
      BY <3>0, StreamFields DEF Emit
    <3> QED
      BY <2>1, <3>1 DEF more
  <2>3. Closing(c.out) /\ Endings(c.out) = {} /\ Count(c.out, "block_start") = Count(c.out, "block_stop")
    BY <2>0, StreamCloses DEF GoesWell, Ongoing
  <2>4. WellFormed(c.out \o <<Frame("finish", Len(s.tools), NoId, <<>>), Frame("end", -1, NoId, <<>>)>>)
    BY <1>1, <2>3, FinishPlain
  <2> QED
    BY <2>2, <2>4
<1> QED
  BY <1>2, <1>3, <1>4 DEF Conversational

-----------------------------------------------------------------------------
(* The request.                                                              *)

Paces == -1..(Fragments + 2)
Events(pr) == {e \in AllEvents : IsEvent(e, pr)}
Upstreams == [progress : [Tools -> Paces], sent : Nat, over : BOOLEAN]
Idle == parser = NewParser /\ upstream = Silent /\ pending = <<>> /\ answer = NewStream

\* What is on its way to the client, and what the client has.
Underway ==
  /\ producer = "read" /\ pc \notin Over =>
       /\ upstream \in Upstreams
       /\ ~parser.done => Knows(parser, req.provider, upstream.progress)
  /\ pending \in Seq(Events(req.provider))
Streamed ==
  req.stream => /\ req.op \in Conversational
                /\ producer # "imagine" /\ pc \notin {"collect", "body"}
                /\ channel \in Seq(Events(req.provider))
                /\ pc = "start" => answer = NewStream
                /\ pc = "stream" => GoesWell(answer, req.op, req.provider)
                /\ WellFormed(answer.out)
Requests == [op : Ops, stream : BOOLEAN, b64 : BOOLEAN, provider : Providers]
Streaming ==
  /\ req \in Requests
  /\ pc \in Trying => Idle
  /\ Underway /\ Streamed

\* Nothing underway is a list of events.
LEMMA NothingUnderway == \A pr : <<>> \in Seq(Events(pr))
OBVIOUS

\* Before the body is read nothing is underway.
LEMMA StreamingInit == Init => Streaming
<1> SUFFICES ASSUME Init PROVE Streaming
  OBVIOUS
<1>1. /\ req.stream => req.op \in Conversational
      /\ req \in Requests
  <2>1. PICK op \in Ops, stream \in BOOLEAN, b64 \in BOOLEAN :
          (stream => op \in Conversational) /\ req = [op |-> op, stream |-> stream, b64 |-> b64, provider |-> Usual]
    BY DEF Init
  <2>2. Usual \in Providers
    BY GatewayAssumption
  <2> HIDE DEF Conversational
  <2> QED
    BY <2>1, <2>2 DEF Requests
<1>2. /\ pc = "check" /\ producer = "off" /\ upstream = Silent /\ parser = NewParser
      /\ pending = <<>> /\ channel = <<>> /\ answer = NewStream
  BY DEF Init
<1>4. WellFormed(answer.out)
  BY <1>2, NewGoesWell DEF GoesWell
<1>5. Underway
  BY <1>2, NothingUnderway DEF Underway
<1>6. Streamed
  BY <1>1, <1>2, <1>4, NothingUnderway DEF Streamed
<1> QED
  BY <1>1, <1>2, <1>5, <1>6 DEF Streaming, Idle

\* The steps that leave what is underway alone.
Quiet ==
  /\ UNCHANGED <<req, answer, producer, upstream, parser, pending, channel>>
  /\ \/ pc' = pc
     \/ pc \in Trying /\ pc' \in Trying
     \/ pc' \in Over
     \/ pc \notin Over /\ pc' \in {"settle", "reject"}

\* A step that leaves stream, channel and producer alone.
LEMMA QuietStreaming == Streaming /\ Quiet => Streaming'
<1> SUFFICES ASSUME Streaming, Quiet PROVE Streaming'
  OBVIOUS
<1>1. /\ req' = req /\ answer' = answer /\ producer' = producer /\ upstream' = upstream /\ parser' = parser
      /\ pending' = pending /\ channel' = channel
  BY DEF Quiet
<1>2. /\ pc' \notin Over => pc \notin Over
      /\ pc' \in Trying => pc \in Trying
      /\ pc' \in {"collect", "body", "start", "stream"} => pc' = pc
  BY DEF Quiet, Over, Trying, Calling, CallOut
<1>3. Underway'
  BY <1>1, <1>2 DEF Streaming, Underway
<1>4. Streamed'
  BY <1>1, <1>2 DEF Streaming, Streamed
<1> QED
  BY <1>1, <1>2, <1>3, <1>4 DEF Streaming, Idle

\* The steps that do so.
LEMMA QuietSteps ==
  ASSUME \/ RefuseBody \/ RefuseModel \/ RefusePayload \/ Accept \/ Acquire \/ NoAccountLeft
         \/ ProxyResolved \/ ProxyFails \/ Send \/ UploadEnds \/ UploadsJoined \/ PostCreated
         \/ DoFails \/ DoUnauthorized \/ Refreshed \/ RefreshFails \/ DoRetryable \/ DoRejects
         \/ Reject \/ StreamCanceled \/ Collected \/ BodyFails \/ BodyImage
         \/ StartPolling \/ KeepWithoutPolling \/ Cancel
         \/ (Video /\ UNCHANGED <<handlerVars, streamVars, canceled>>) \/ UNCHANGED vars
  PROVE  Quiet
<1> USE DEF Quiet, streamVars, Over, Trying, Calling, CallOut
<1>1. CASE RefuseBody \/ RefuseModel \/ RefusePayload
  BY <1>1 DEF RefuseBody, RefuseModel, RefusePayload, Refused
<1>2. CASE Accept
  BY <1>2 DEF Accept
<1>3. CASE Acquire
  BY <1>3 DEF Acquire
<1>4. CASE NoAccountLeft
  BY <1>4 DEF NoAccountLeft, Fails
<1>5. CASE ProxyResolved
  BY <1>5 DEF ProxyResolved
<1>6. ASSUME NEW excluded, NEW err, NEW feedback, NextAttempt(excluded, err, feedback), pc \in Trying PROVE Quiet
  BY <1>6 DEF NextAttempt, Fails
<1>7. CASE ProxyFails \/ DoFails \/ Refreshed \/ RefreshFails
  BY <1>6, <1>7 DEF ProxyFails, DoFails, Refreshed, RefreshFails
<1>8. CASE DoRetryable
  BY <1>6, <1>8 DEF DoRetryable, Answered
<1>9. CASE Send
  BY <1>9 DEF Send
<1>10. CASE UploadEnds
  BY <1>10 DEF UploadEnds, handlerVars
<1>11. CASE UploadsJoined
  BY <1>11 DEF UploadsJoined, Joined
<1>12. CASE PostCreated
  BY <1>12 DEF PostCreated
<1>13. CASE DoUnauthorized
  BY <1>13 DEF DoUnauthorized
<1>14. CASE DoRejects
  BY <1>14 DEF DoRejects, Answered
<1>15. CASE Reject
  BY <1>15 DEF Reject
<1>16. CASE StreamCanceled
  BY <1>16 DEF StreamCanceled, StreamEnds
<1>17. CASE Collected
  BY <1>17 DEF Collected
<1>18. CASE BodyFails
  BY <1>18 DEF BodyFails
<1>19. CASE BodyImage
  BY <1>19 DEF BodyImage, BodyWritten
<1>20. CASE StartPolling
  BY <1>20 DEF StartPolling
<1>21. CASE KeepWithoutPolling
  BY <1>21 DEF KeepWithoutPolling, BodyWritten
<1>22. CASE Cancel
  BY <1>22 DEF Cancel, handlerVars
<1>23. CASE Video /\ UNCHANGED <<handlerVars, streamVars, canceled>>
  BY <1>23 DEF handlerVars
<1>24. CASE UNCHANGED vars
  BY <1>24 DEF vars, handlerVars
<1> QED
  BY <1>1, <1>2, <1>3, <1>4, <1>5, <1>7, <1>8, <1>9, <1>10, <1>11, <1>12, <1>13, <1>14, <1>15, <1>16, <1>17,
     <1>18, <1>19, <1>20, <1>21, <1>22, <1>23, <1>24

\* A new parser knows what has come before the first message: nothing.
LEMMA NewKnows == \A pr, pg : pg \in [Tools -> Paces] /\ (\A t \in Tools : pg[t] = -1) => Knows(NewParser, pr, pg)
<1> SUFFICES ASSUME NEW pr, NEW pg \in [Tools -> Paces], \A t \in Tools : pg[t] = -1 PROVE Knows(NewParser, pr, pg)
  OBVIOUS
<1>1. Paces \subseteq Int
  BY GatewayAssumption DEF Paces
<1>2. NewParser \in Parsers /\ NewParser.tools = <<>> /\ NewParser.keys = {}
  BY DEF NewParser, Parsers
<1>3. \A t \in Tools : ~(pg[t] >= 0)
  OBVIOUS
<1>4. DOMAIN <<>> = {}
  OBVIOUS
<1> QED
  BY <1>1, <1>2, <1>3, <1>4 DEF Knows, KeysLead

\* An upstream that has said nothing has begun no call.
LEMMA SilentPaces == Silent \in Upstreams /\ \A t \in Tools : Silent.progress[t] = -1
<1>1. -1 \in Paces
  BY GatewayAssumption DEF Paces
<1> QED
  BY <1>1 DEF Silent, Upstreams

\* The response of a stream begins it with a new parser and an empty channel.
LEMMA BeginsStreaming ==
  ASSUME Streaming, Channel, DoStreams
  PROVE  Streaming'
<1>1. /\ pc = "upstream" /\ producer' = "read" /\ pc' = (IF req.stream THEN "start" ELSE "collect")
      /\ answer' = (IF req.stream THEN NewStream ELSE NoAnswer)
      /\ upstream' = upstream /\ parser' = parser /\ pending' = pending /\ channel' = channel
  BY DEF DoStreams
<1>2. PICK provider \in Providers : req' = [req EXCEPT !.provider = provider]
  BY DEF DoStreams
<1>3. pc \in Trying
  BY <1>1 DEF Trying, Calling, CallOut
<1>4. parser = NewParser /\ upstream = Silent /\ pending = <<>> /\ channel = <<>>
  BY <1>3 DEF Streaming, Idle, Channel
<1>5. Knows(parser', req'.provider, upstream'.progress) /\ upstream' \in Upstreams
  BY <1>1, <1>4, SilentPaces, NewKnows DEF Upstreams
<1>6. req'.stream = req.stream /\ req'.op = req.op /\ req' \in Requests
  BY <1>2 DEF Streaming, Requests
<1>7. Underway'
  BY <1>1, <1>4, <1>5, NothingUnderway DEF Underway
<1>8. WellFormed(NewStream.out)
  BY NewGoesWell DEF GoesWell
<1>9. Streamed'
  <2> SUFFICES ASSUME req.stream
               PROVE  /\ req'.op \in Conversational
                      /\ producer' # "imagine" /\ pc' \notin {"collect", "body"}
                      /\ channel' \in Seq(Events(req'.provider))
                      /\ pc' = "start" => answer' = NewStream
                      /\ pc' = "stream" => GoesWell(answer', req'.op, req'.provider)
                      /\ WellFormed(answer'.out)
    BY <1>6 DEF Streamed
  <2>1. req.op \in Conversational
    BY DEF Streaming, Streamed
  <2>2. answer' = NewStream /\ pc' = "start"
    BY <1>1
  <2> QED
    BY <1>1, <1>4, <1>6, <1>8, <2>1, <2>2, NothingUnderway
<1>10. pc' \notin Trying
  BY <1>1 DEF Trying, Calling, CallOut
<1> QED
  BY <1>6, <1>7, <1>9, <1>10 DEF Streaming

\* An answer that is not a stream.
LEMMA OtherStreaming ==
  ASSUME Streaming, ~req.stream, req' = req, pc' \notin Trying, pending' = pending,
         producer' # "read" \/ pc' \in Over \/ (producer' = producer /\ parser' = parser /\ upstream' = upstream /\ pc \notin Over)
  PROVE  Streaming'
<1>1. Underway'
  BY DEF Streaming, Underway
<1>2. Streamed'
  BY DEF Streaming, Streamed
<1> QED
  BY <1>1, <1>2 DEF Streaming

\* Documents and pictures are collected without a stream.
LEMMA DocumentStreaming == Streaming /\ (DoDocument \/ DoImagine \/ Collect) => Streaming'
<1> SUFFICES ASSUME Streaming, DoDocument \/ DoImagine \/ Collect PROVE Streaming'
  OBVIOUS
<1>1. CASE DoDocument
  <2>1. ~req.stream /\ req' = req /\ pending' = pending /\ producer' = "closed" /\ pc' \in {"collect", "body"}
    BY <1>1 DEF DoDocument
  <2> QED
    BY <2>1, OtherStreaming DEF Trying, Calling, CallOut
<1>2. CASE DoImagine
  <2>1. req.op = "image" /\ req' = req /\ pending' = pending /\ producer' = "imagine" /\ pc' = "collect"
    BY <1>2 DEF DoImagine
  <2>2. ~req.stream
    BY <2>1 DEF Streaming, Streamed, Conversational
  <2> QED
    BY <2>1, <2>2, OtherStreaming DEF Trying, Calling, CallOut
<1>3. CASE Collect
  <2>1. /\ pc = "collect" /\ pc' = pc /\ req' = req /\ pending' = pending /\ producer' = producer
        /\ parser' = parser /\ upstream' = upstream
    BY <1>3 DEF Collect
  <2>2. ~req.stream
    BY <2>1 DEF Streaming, Streamed
  <2> QED
    BY <2>1, <2>2, OtherStreaming DEF Trying, Calling, CallOut, Over
<1> QED
  BY <1>1, <1>2, <1>3

\* The frames of the Imagine WebSocket.
LEMMA ImagineStreaming == Streaming /\ Channel /\ (ReadFrame \/ ReadFrameFails) => Streaming'
<1> SUFFICES ASSUME Streaming, Channel, ReadFrame \/ ReadFrameFails PROVE Streaming'
  OBVIOUS
<1>1. PICK step : ImagineStep(step)
  BY Zenon DEF ReadFrame, ReadFrameFails
<1>2. producer = "imagine" /\ producer' # "read" /\ pending' = pending
      /\ UNCHANGED handlerVars
  BY <1>1 DEF ImagineStep
<1>3. ~req.stream
  BY <1>2 DEF Streaming, Streamed
<1>4. req' = req /\ pc' = pc /\ answer' = answer
  BY <1>2 DEF handlerVars
<1>5. pc \notin Trying
  BY <1>2 DEF Channel
<1> QED
  BY <1>2, <1>3, <1>4, <1>5, OtherStreaming

\* The end of the answer, and the death of the process.
LEMMA SettleStreaming == Streaming /\ (Settle \/ Die) => Streaming'
<1> SUFFICES ASSUME Streaming, Settle \/ Die PROVE Streaming'
  OBVIOUS
<1>1. pc' \in Over /\ answer' = NewStream /\ req' = req
  BY DEF Settle, Die, Over
<1>2. pending' \in {pending, <<>>} /\ channel' \in {channel, <<>>} /\ producer' \in {producer, "off", "closed"}
  BY DEF Settle, Die
<1>3. pc' \notin Trying /\ pc' \notin {"start", "stream", "collect", "body"}
  BY <1>1 DEF Over, Trying, Calling, CallOut
<1>4. WellFormed(answer'.out)
  BY <1>1, NewGoesWell DEF GoesWell
<1>5. Underway'
  BY <1>1, <1>2, NothingUnderway DEF Streaming, Underway
<1>6. Streamed'
  BY <1>1, <1>2, <1>3, <1>4, NothingUnderway DEF Streaming, Streamed
<1> QED
  BY <1>1, <1>3, <1>5, <1>6 DEF Streaming

-----------------------------------------------------------------------------
(* The stream to the client.                                               *)

\* What the handler may do to a stream.
LEMMA AnswerSteps ==
  ASSUME Streaming, req.stream, req' = req, producer' = producer, upstream' = upstream, parser' = parser, pending' = pending,
         pc \in {"start", "stream"}, pc' \in {"stream", "settle"}, channel' \in Seq(Events(req.provider)),
         pc' = "stream" => GoesWell(answer', req.op, req.provider),
         WellFormed(answer'.out)
  PROVE  Streaming'
<1>1. pc \notin Over /\ pc' \notin Trying /\ pc' \notin {"start", "collect", "body"}
  BY DEF Over, Trying, Calling, CallOut
<1>2. Underway'
  BY <1>1 DEF Streaming, Underway
<1>3. Streamed'
  BY <1>1 DEF Streaming, Streamed
<1> QED
  BY <1>1, <1>2, <1>3 DEF Streaming

\* The handler starts the stream, writes an event, or ends it.
LEMMA ServeStreaming ==
  Streaming /\ Channel /\ (StreamStarts \/ StreamNext \/ StreamClosed) => Streaming'
<1> SUFFICES ASSUME Streaming, Channel, StreamStarts \/ StreamNext \/ StreamClosed PROVE Streaming'
  OBVIOUS
<1> DEFINE pr == req.provider
           op == req.op
<1>0. ASSUME NEW s, NEW o, GoesWell(s, o, pr) PROVE s \in Streams /\ WellFormed(s.out)
  BY <1>0 DEF GoesWell
<1>1. CASE ~req.stream
  <2>1. /\ req' = req /\ pending' = pending /\ producer' = producer /\ parser' = parser /\ upstream' = upstream
        /\ pc \in {"start", "stream"} /\ pc' \in {"stream", "settle"}
    BY DEF StreamStarts, StreamNext, StreamClosed, StreamEnds, streamVars
  <2> QED
    BY <1>1, <2>1, OtherStreaming DEF Trying, Calling, CallOut, Over
<1>2. CASE req.stream /\ StreamStarts
  <2>1. /\ pc = "start" /\ pc' = "stream" /\ answer' = Start(answer, op) /\ req' = req
        /\ producer' = producer /\ upstream' = upstream /\ parser' = parser /\ pending' = pending /\ channel' = channel
    BY <1>2 DEF StreamStarts, streamVars
  <2>2. answer = NewStream /\ op \in Conversational /\ channel \in Seq(Events(pr))
    BY <1>2, <2>1 DEF Streaming, Streamed
  <2>3. GoesWell(answer', op, pr)
    BY <2>1, <2>2, StartGoesWell
  <2>4. WellFormed(answer'.out)
    BY <1>0, <2>3
  <2> QED
    BY <1>2, <2>1, <2>2, <2>3, <2>4, AnswerSteps
<1>3. CASE req.stream /\ StreamClosed
  <2>1. /\ pc = "stream" /\ pc' = "settle" /\ answer' = Finish(answer, op) /\ req' = req
        /\ producer' = producer /\ upstream' = upstream /\ parser' = parser /\ pending' = pending /\ channel' = channel
    BY <1>3 DEF StreamClosed, StreamEnds, streamVars
  <2>2. GoesWell(answer, op, pr) /\ op \in Conversational /\ channel \in Seq(Events(pr))
    BY <1>3, <2>1 DEF Streaming, Streamed
  <2>3. WellFormed(answer'.out)
    BY <2>1, <2>2, FinishWellFormed
  <2> QED
    BY <1>3, <2>1, <2>2, <2>3, AnswerSteps
<1>4. CASE req.stream /\ StreamNext
  <2> DEFINE e == Head(channel)
  <2>1. /\ pc = "stream" /\ channel # <<>> /\ channel' = Tail(channel) /\ req' = req
        /\ producer' = producer /\ upstream' = upstream /\ parser' = parser /\ pending' = pending
    BY <1>4 DEF StreamNext
  <2>2. GoesWell(answer, op, pr) /\ op \in Conversational /\ channel \in Seq(Events(pr))
    BY <1>4, <2>1 DEF Streaming, Streamed
  <2>3. channel' \in Seq(Events(pr)) /\ e \in Events(pr)
    BY <2>1, <2>2
  <2>4. \/ pc' = "settle" /\ answer' = WriteError(answer, op)
        \/ pc' = "settle" /\ answer' = Finish(answer, op)
        \/ /\ pc' = pc /\ answer' = StreamEvent(answer, op, e)
           /\ e.kind \notin {"error", "done"}
    BY <1>4 DEF StreamNext, StreamEnds
  <2> HIDE DEF e
  <2>5. CASE pc' = "settle" /\ answer' = WriteError(answer, op)
    <3>1. WellFormed(answer'.out)
      BY <2>2, <2>5, ErrorWellFormed
    <3> QED
      BY <1>4, <2>1, <2>3, <2>5, <3>1, AnswerSteps
  <2>6. CASE pc' = "settle" /\ answer' = Finish(answer, op)
    <3>1. WellFormed(answer'.out)
      BY <2>2, <2>6, FinishWellFormed
    <3> QED
      BY <1>4, <2>1, <2>3, <2>6, <3>1, AnswerSteps
  <2>7. CASE pc' = pc /\ answer' = StreamEvent(answer, op, e) /\ e.kind \notin {"error", "done"}
    <3>1. IsEvent(e, pr)
      BY <2>3 DEF Events
    <3>2. GoesWell(answer', op, pr)
      BY <2>2, <2>7, <3>1, EventGoesWell
    <3>3. WellFormed(answer'.out)
      BY <1>0, <3>2
    <3> QED
      BY <1>4, <2>1, <2>3, <2>7, <3>2, <3>3, AnswerSteps
  <2> QED
    BY <2>4, <2>5, <2>6, <2>7
<1> QED
  BY <1>1, <1>2, <1>3, <1>4

-----------------------------------------------------------------------------
(* The goroutine that reads the upstream.                                  *)

\* A step of the goroutine that leaves the handler alone.
LEMMA ReaderSteps ==
  ASSUME Streaming, Channel, producer \in {"read", "last"}, req' = req, pc' = pc, answer' = answer, producer' \in {"read", "last", "closed"},
         pending' \in Seq(Events(req.provider)), channel \in Seq(Events(req.provider)) => channel' \in Seq(Events(req.provider)),
         producer' = "read" /\ pc \notin Over =>
           /\ upstream' \in Upstreams
           /\ ~parser'.done => Knows(parser', req.provider, upstream'.progress)
  PROVE  Streaming'
<1>1. pc \notin Trying
  BY DEF Channel
<1>2. Underway'
  BY DEF Underway
<1>3. Streamed'
  BY DEF Streaming, Streamed
<1> QED
  BY <1>1, <1>2, <1>3 DEF Streaming

\* Reading ends, an event is put into the channel, the channel is closed.
LEMMA CarryStreaming ==
  Streaming /\ Channel /\ (ReadEnds \/ SendEvent \/ CloseChannel \/ ProducerStops) => Streaming'
<1> SUFFICES ASSUME Streaming, Channel, ReadEnds \/ SendEvent \/ CloseChannel \/ ProducerStops PROVE Streaming'
  OBVIOUS
<1> DEFINE E == Events(req.provider)
<1>1. /\ producer \in {"read", "last"} /\ req' = req /\ pc' = pc /\ answer' = answer
      /\ producer' \in {"read", "last", "closed"} /\ (producer' = "read" => producer = "read")
  BY DEF ReadEnds, SendEvent, CloseChannel, ProducerStops, handlerVars
<1>2. pending \in Seq(E)
  BY DEF Streaming, Underway
<1>3. Event("error") \in E
  <2>1. Event("error") \in PlainEvents
    BY PlainEvent DEF Kinds
  <2> QED
    BY <2>1 DEF PlainEvents, Events, IsEvent
<1> HIDE DEF E
<1>5. pending' \in Seq(E)
  <2>1. CASE SendEvent
    <3>1. pending # <<>> /\ pending' = Tail(pending)
      BY <2>1 DEF SendEvent
    <3> QED
      BY <1>2, <3>1
  <2>2. CASE ReadEnds \/ CloseChannel \/ ProducerStops
    <3>1. pending' = pending \/ pending' = <<>> \/ pending' = <<Event("error")>>
      BY <2>2 DEF ReadEnds, CloseChannel, ProducerStops
    <3> DEFINE x == Event("error")
    <3>2. x \in E /\ (pending' = pending \/ pending' = <<>> \/ pending' = <<x>>)
      BY <1>3, <3>1
    <3> HIDE DEF x
    <3>3. <<x>> \in Seq(E) /\ <<>> \in Seq(E)
      BY <3>2
    <3> QED
      BY <1>2, <3>2, <3>3
  <2> QED
    BY <2>1, <2>2
<1>6. channel \in Seq(E) => channel' \in Seq(E)
  <2>1. CASE SendEvent
    <3>1. pending # <<>> /\ channel' = Append(channel, Head(pending))
      BY <2>1 DEF SendEvent
    <3> QED
      BY <1>2, <3>1
  <2>2. CASE ReadEnds \/ CloseChannel \/ ProducerStops
    <3>1. channel' = channel
      BY <2>2 DEF ReadEnds, CloseChannel, ProducerStops
    <3> QED
      BY <3>1
  <2> QED
    BY <2>1, <2>2
<1>7. ASSUME producer' = "read", pc \notin Over
      PROVE  /\ upstream' \in Upstreams
             /\ ~parser'.done => Knows(parser', req.provider, upstream'.progress)
  <2>1. SendEvent
    BY <1>7 DEF ReadEnds, CloseChannel, ProducerStops
  <2>2. producer = "read" /\ upstream' = upstream /\ parser' = parser
    BY <1>7, <2>1 DEF SendEvent
  <2> QED
    BY <1>7, <2>2 DEF Streaming, Underway
<1> QED
  BY <1>1, <1>5, <1>6, <1>7, ReaderSteps DEF E

\* The message that carries a step of a tool call.
LEMMA ToolSays ==
  ASSUME req \in Requests, NEW t \in Tools, NEW step
  PROVE  LET m == ToolMessage(t, step)
         IN  /\ m.type = step[1] /\ m.args = step[2] /\ m.item \in BOOLEAN
             /\ m.item <=> step[1] \in {"itemAdded", "itemDone"}
             /\ AboutTool(m, req.provider, t)
<1> DEFINE item == step[1] \in {"itemAdded", "itemDone"}
           has == IF item THEN req.provider.item ELSE req.provider.args
           m == ToolMessage(t, step)
<1>1. m = [Msg(step[1]) EXCEPT !.tool = t, !.item = item, !.args = step[2], !.has = has]
  BY DEF ToolMessage
<1>2. item \in BOOLEAN
  OBVIOUS
<1> HIDE DEF item, has, m
<1>3. m.type = step[1] /\ m.args = step[2] /\ m.item = item /\ m.tool = t /\ m.has = has
  BY <1>1 DEF Msg
<1> QED
  BY <1>2, <1>3, Zenon DEF AboutTool, item, has, m

\* Both kinds of events are events of the provider.
LEMMA EventKinds ==
  ASSUME NEW pr
  PROVE  /\ PlainEvents \subseteq Events(pr)
         /\ \A t \in Tools : \A e : IsToolEvent(e, pr, t) /\ e \in AllEvents => e \in Events(pr)
BY DEF PlainEvents, Events, IsEvent

\* What reading one message makes of the parser and the events that wait.
LEMMA ReadStreaming == Streaming /\ Channel /\ (ReadTool \/ ReadPlain \/ ReadLast) => Streaming'
<1> SUFFICES ASSUME Streaming, Channel, ReadTool \/ ReadPlain \/ ReadLast PROVE Streaming'
  OBVIOUS
<1> DEFINE pr == req.provider
           pg == upstream.progress
           E == Events(pr)
<1>1. /\ producer = "read" /\ producer' = "read" /\ pending = <<>> /\ channel' = channel /\ UNCHANGED handlerVars
      /\ ~RequestDone
  BY DEF ReadTool, ReadPlain, ReadLast, Read
<1>2. req' = req /\ pc' = pc /\ answer' = answer /\ pc \notin Over
  BY <1>1 DEF handlerVars, RequestDone, Over
<1>3. /\ req \in Requests /\ upstream \in Upstreams /\ (~parser.done => Knows(parser, pr, pg))
      /\ pr \in Providers
  BY <1>1, <1>2 DEF Streaming, Underway, Requests
<1>4. Identifies(pr)
  BY <1>3, ProviderAssumption DEF Identifies
<1>5. ASSUME NEW m, parser.done PROVE Parse(parser, m) = Parsed(parser, <<>>)
  BY <1>5 DEF Parse
<1>6. ASSUME NEW state \in Upstreams, NEW m, Read(m, state),
             ~parser.done => Knows(Parse(parser, m).p, pr, state.progress) /\ Parse(parser, m).events \in Seq(E)
      PROVE  Streaming'
  <2> DEFINE r == Parse(parser, m)
  <2>1. /\ upstream' = [state EXCEPT !.sent = @ + 1] /\ parser' = r.p /\ pending' = r.events
    BY <1>6 DEF Read
  <2>2. upstream' \in Upstreams /\ upstream'.progress = state.progress
    BY <2>1 DEF Upstreams
  <2>3. parser.done => parser' = parser /\ pending' = <<>>
    BY <1>5, <2>1 DEF Parsed
  <2>4. pending' \in Seq(E) /\ (~parser'.done => Knows(parser', pr, upstream'.progress))
    BY <1>6, <2>1, <2>2, <2>3, NothingUnderway
  <2> QED
    BY <1>1, <1>2, <2>2, <2>4, ReaderSteps
<1>7. CASE ReadTool
  <2>1. PICK t \in Tools : \E step \in ToolSteps(pg[t]) :
          Read(ToolMessage(t, step), [upstream EXCEPT !.progress[t] = step[3]])
    BY <1>7 DEF ReadTool
  <2>2. PICK step \in ToolSteps(pg[t]) : Read(ToolMessage(t, step), [upstream EXCEPT !.progress[t] = step[3]])
    BY <2>1
  <2> DEFINE m == ToolMessage(t, step)
             state == [upstream EXCEPT !.progress[t] = step[3]]
             r == Parse(parser, m)
  <2>3. pg \in [Tools -> Paces] /\ pg[t] \in -1..(Fragments + 2)
    BY <1>3 DEF Upstreams, Paces
  <2>4. step[3] \in 0..(Fragments + 2)
    BY <2>3, StepKinds
  <2>5. step[3] \in Paces
    BY <2>4, GatewayAssumption DEF Paces
  <2>6. state \in Upstreams /\ state.progress = [pg EXCEPT ![t] = step[3]]
    BY <1>3, <2>3, <2>5 DEF Upstreams
  <2>7. /\ m.type = step[1] /\ m.args = step[2] /\ m.item \in BOOLEAN
        /\ m.item <=> step[1] \in {"itemAdded", "itemDone"}
        /\ AboutTool(m, pr, t)
    BY <1>3, ToolSays
  <2> HIDE DEF m, state
  <2>8. ASSUME ~parser.done PROVE Knows(r.p, pr, state.progress) /\ r.events \in Seq(E)
    <3>1. Knows(parser, pr, pg)
      BY <1>3, <2>8
    <3>2. PassesOn(r, parser, pr, pg, t, step)
      BY <1>4, <2>3, <2>7, <2>8, <3>1, ToolParse
    <3> HIDE DEF r, pg
    <3>3. /\ Knows(r.p, pr, state.progress)
          /\ r.events = <<>> \/ \E e \in AllEvents : r.events = <<e>> /\ IsToolEvent(e, pr, t)
      BY <2>6, <3>2 DEF PassesOn, pg
    <3>4. r.events = <<>> \/ \E e \in E : r.events = <<e>>
      BY <3>3, EventKinds
    <3>5. r.events \in Seq(E)
      <4>1. CASE r.events = <<>>
        BY <4>1
      <4>2. CASE \E e \in E : r.events = <<e>>
        <5>1. PICK e \in E : r.events = <<e>>
          BY <4>2
        <5> HIDE DEF E
        <5> QED
          BY <5>1
      <4> QED
        BY <3>4, <4>1, <4>2
    <3> QED
      BY <3>3, <3>5
  <2> QED
    BY <1>6, <2>2, <2>6, <2>8 DEF m, state
<1>8. ASSUME NEW m, NEW ends, PassesPlain(Parse(parser, m), parser, ends), ~parser.done
      PROVE  Knows(Parse(parser, m).p, pr, pg) /\ Parse(parser, m).events \in Seq(E)
  <2> DEFINE r == Parse(parser, m)
  <2>1. Knows(parser, pr, pg)
    BY <1>3, <1>8
  <2>2. r.p \in Parsers /\ r.p.tools = parser.tools /\ r.p.keys = parser.keys /\ r.events \in Seq(PlainEvents)
    BY <1>8 DEF PassesPlain
  <2> HIDE DEF r, pg
  <2>3. Knows(r.p, pr, pg)
    BY <2>1, <2>2 DEF Knows
  <2>4. r.events \in Seq(E)
    BY <2>2, EventKinds
  <2> QED
    BY <2>3, <2>4 DEF r, pg
<1>9. ~parser.done => parser \in Parsers
  BY <1>3 DEF Knows
<1>10. CASE ReadPlain
  <2>1. PICK m \in Plain \cup GrokPlain : Read(m, upstream)
    BY <1>10 DEF ReadPlain
  <2>2. ASSUME ~parser.done PROVE \E ends : PassesPlain(Parse(parser, m), parser, ends)
    <3>1. CASE m \in Plain
      <4>1. PassesPlain(Parse(parser, m), parser, FALSE)
        BY <1>9, <2>2, <3>1, PlainParse
      <4> QED
        BY <4>1
    <3>2. CASE m \in GrokPlain
      <4>1. PassesPlain(Parse(parser, m), parser, m \in GrokEnding)
        BY <1>9, <2>2, <3>2, GrokParse
      <4> QED
        BY <4>1, Zenon
    <3> QED
      BY <3>1, <3>2
  <2>3. ~parser.done => Knows(Parse(parser, m).p, pr, pg) /\ Parse(parser, m).events \in Seq(E)
    BY <1>8, <2>2
  <2> HIDE DEF E
  <2> QED
    BY <1>3, <1>6, <2>1, <2>3
<1>11. CASE ReadLast
  <2>1. PICK m \in Ending \cup GrokEnding : Read(m, [upstream EXCEPT !.over = TRUE])
    BY <1>11 DEF ReadLast
  <2> DEFINE state == [upstream EXCEPT !.over = TRUE]
  <2>2. ASSUME ~parser.done PROVE \E ends : PassesPlain(Parse(parser, m), parser, ends)
    BY <1>9, <2>2, EndingParse, GrokParse
  <2>3. ~parser.done => Knows(Parse(parser, m).p, pr, pg) /\ Parse(parser, m).events \in Seq(E)
    BY <1>8, <2>2
  <2>4. state \in Upstreams /\ state.progress = pg
    BY <1>3 DEF Upstreams
  <2> HIDE DEF E, state, pg
  <2> QED
    BY <1>6, <2>1, <2>3, <2>4 DEF state, pg
<1> QED
  BY <1>7, <1>10, <1>11

-----------------------------------------------------------------------------
\* Streaming is inductive with GatewayInv.
LEMMA StreamingStep == Streaming /\ GatewayInv /\ [Next]_vars => Streaming'
<1> SUFFICES ASSUME Streaming, Channel, Next \/ UNCHANGED vars PROVE Streaming'
  BY DEF GatewayInv
<1>1. ASSUME \/ RefuseBody \/ RefuseModel \/ RefusePayload \/ Accept \/ Acquire \/ NoAccountLeft
             \/ ProxyResolved \/ ProxyFails \/ Send \/ UploadEnds \/ UploadsJoined \/ PostCreated
             \/ DoFails \/ DoUnauthorized \/ Refreshed \/ RefreshFails \/ DoRetryable \/ DoRejects
             \/ Reject \/ StreamCanceled \/ Collected \/ BodyFails \/ BodyImage
             \/ StartPolling \/ KeepWithoutPolling \/ Cancel
             \/ (Video /\ UNCHANGED <<handlerVars, streamVars, canceled>>) \/ UNCHANGED vars
      PROVE  Streaming'
  <2>1. Quiet
    BY <1>1, QuietSteps
  <2> QED
    BY <2>1, QuietStreaming
<1>2. ASSUME DoStreams \/ DoDocument \/ DoImagine \/ Collect \/ StreamStarts \/ StreamNext \/ StreamClosed
             \/ Settle \/ Die
      PROVE  Streaming'
  BY <1>2, BeginsStreaming, DocumentStreaming, ServeStreaming, SettleStreaming
<1>3. ASSUME ReadTool \/ ReadPlain \/ ReadLast \/ ReadFrame \/ ReadFrameFails
             \/ ReadEnds \/ SendEvent \/ CloseChannel \/ ProducerStops
      PROVE  Streaming'
  BY <1>3, ReadStreaming, ImagineStreaming, CarryStreaming
<1> QED
  BY <1>1, <1>2, <1>3 DEF Next, Handle, Produce, Carry

(* At every moment the frames sent are the beginning of a well-formed stream of the operation,
   whatever order the items of the upstream come in and wherever it stops: streamState.event and
   finish keep the output items and the content blocks in order, and eventParser names a tool call
   alike in all its events. *)
THEOREM FramesAreWellFormed == Spec => []FramesWellFormed
<1>1. GatewayInv /\ Streaming /\ [Next]_vars => Streaming'
  BY StreamingStep
<1>2. Streaming => FramesWellFormed
  BY DEF Streaming, Streamed, FramesWellFormed, WellFormed
<1> QED
  BY <1>1, <1>2, StreamingInit, GatewayHolds, PTL DEF Spec

-----------------------------------------------------------------------------
(* The pictures.                                                           *)

\* The pictures and videos of an event, the ones the answer will have, and whether it will have an error.
Pictured == [e \in AllEvents |-> IF e.kind \in {"image", "video"} THEN <<e>> ELSE <<>>]
Shots == answer.media \o Gathered(Pictured, channel)
Failing == answer.err \/ \E i \in DOMAIN channel : channel[i].kind = "error"
IsPicture(e) == e.kind = "image" /\ e.url \in Pictures \ Moderated

\* The states of the reader of the WebSocket.
Readers == [requested : Nat, collected : Nat, pictured : SUBSET Pictures, completed : SUBSET Pictures]

\* The pictures a sequence of shots is made of, when the reader g has sent them.
WellShot(shots, g) ==
  /\ \A i \in DOMAIN shots : IsPicture(shots[i])
  /\ \A i, j \in DOMAIN shots : shots[i] = shots[j] => i = j
  /\ Len(shots) <= g.requested
StillShooting(shots, g) ==
  /\ g.collected = Len(shots) /\ g.collected < g.requested
  /\ \A i \in DOMAIN shots : shots[i].url \in g.completed

DocumentTools == [id : Idents, args : Seq(Nat)]
Documents == [tools : Seq(DocumentTools), media : Seq(AllEvents), usage : BOOLEAN, err : BOOLEAN]

(* While pictures are made over a WebSocket, the ones collected and the ones in the channel are
   different pictures, and no more than were asked for. *)
Imagining ==
  /\ producer = "imagine" => imagine.requested > 0
  /\ imagine.requested > 0 =>
       /\ req.op = "image" /\ pc \in {"collect", "settle"} /\ producer \in {"imagine", "closed"}
       /\ imagine \in Readers /\ imagine.requested \in 1..MaxPictures
       /\ answer \in Documents /\ channel \in Seq(PlainEvents)
       /\ pc = "settle" => channel = <<>> /\ producer = "closed" /\ (outcome = "ok" => ~Failing)
       /\ ~Failing => /\ WellShot(Shots, imagine)
                      /\ producer = "closed" => Len(Shots) >= 1
                      /\ producer = "imagine" => StillShooting(Shots, imagine)

\* What is heard of an event.
LEMMA PicturedMaps ==
  /\ Maps(Pictured, AllEvents, AllEvents)
  /\ \A e \in AllEvents : /\ e.kind \in {"image", "video"} => Pictured[e] = <<e>>
                          /\ e.kind \notin {"image", "video"} => Pictured[e] = <<>>
<1>1. \A e \in AllEvents : <<e>> \in Seq(AllEvents)
  OBVIOUS
<1> QED
  BY <1>1 DEF Maps, Pictured

\* The events of a channel that has plain events only.
LEMMA PlainChannel ==
  ASSUME NEW q \in Seq(PlainEvents)
  PROVE  q \in Seq(AllEvents) /\ Gathered(Pictured, q) \in Seq(AllEvents)
<1>1. q \in Seq(AllEvents)
  BY DEF PlainEvents
<1> QED
  BY <1>1, PicturedMaps, MappedType

\* A step that leaves the answer and the pictures alone.
Aside ==
  /\ imagine' = imagine
  /\ producer' = "imagine" => producer = "imagine"
  /\ pc \in {"collect", "settle"} => UNCHANGED <<req, answer, producer, channel, outcome, pc>>
\* Such a step keeps the pictures on their way.
LEMMA AsideImagining == Imagining /\ Aside => Imagining'
<1> SUFFICES ASSUME Imagining, Aside PROVE Imagining'
  OBVIOUS
<1>1. CASE imagine.requested > 0
  <2>1. pc \in {"collect", "settle"}
    BY <1>1 DEF Imagining
  <2>2. /\ imagine' = imagine /\ req' = req /\ answer' = answer /\ producer' = producer /\ channel' = channel
        /\ outcome' = outcome /\ pc' = pc
    BY <2>1 DEF Aside
  <2>3. Shots' = Shots /\ Failing' = Failing
    BY <2>2 DEF Shots, Failing
  <2> QED
    BY <2>2, <2>3 DEF Imagining, WellShot, StillShooting
<1>2. CASE ~(imagine.requested > 0)
  BY <1>2 DEF Imagining, Aside
<1> QED
  BY <1>1, <1>2

\* The steps that do so.
LEMMA AsideSteps ==
  ASSUME Streaming, Channel,
         \/ RefuseBody \/ RefuseModel \/ RefusePayload \/ Accept \/ Acquire \/ NoAccountLeft
         \/ ProxyResolved \/ ProxyFails \/ Send \/ UploadEnds \/ UploadsJoined \/ PostCreated
         \/ DoFails \/ DoUnauthorized \/ Refreshed \/ RefreshFails \/ DoRetryable \/ DoRejects
         \/ Reject \/ StreamCanceled \/ BodyFails \/ BodyImage \/ DoStreams \/ DoDocument
         \/ StreamStarts \/ StreamNext \/ StreamClosed
         \/ StartPolling \/ KeepWithoutPolling \/ Cancel
         \/ (Video /\ UNCHANGED <<handlerVars, streamVars, canceled>>) \/ UNCHANGED vars
  PROVE  Aside
<1> USE DEF Aside, streamVars, imageVars
<1>1. CASE RefuseBody \/ RefuseModel \/ RefusePayload
  BY <1>1 DEF RefuseBody, RefuseModel, RefusePayload, Refused
<1>2. CASE Accept
  BY <1>2 DEF Accept
<1>3. CASE Acquire
  BY <1>3 DEF Acquire
<1>4. CASE NoAccountLeft
  BY <1>4 DEF NoAccountLeft, Fails
<1>5. CASE ProxyResolved
  BY <1>5 DEF ProxyResolved
<1>6. ASSUME NEW excluded, NEW err, NEW feedback, NextAttempt(excluded, err, feedback), pc \notin {"collect", "settle"}
      PROVE  Aside
  BY <1>6 DEF NextAttempt, Fails
<1>7. CASE ProxyFails \/ DoFails \/ Refreshed \/ RefreshFails
  BY <1>6, <1>7 DEF ProxyFails, DoFails, Refreshed, RefreshFails
<1>8. CASE DoRetryable
  BY <1>6, <1>8 DEF DoRetryable, Answered
<1>9. CASE Send
  BY <1>9 DEF Send
<1>10. CASE UploadEnds
  BY <1>10 DEF UploadEnds, handlerVars
<1>11. CASE UploadsJoined
  BY <1>11 DEF UploadsJoined
<1>12. CASE PostCreated
  BY <1>12 DEF PostCreated
<1>13. CASE DoUnauthorized
  BY <1>13 DEF DoUnauthorized
<1>14. CASE DoRejects
  BY <1>14 DEF DoRejects, Answered
<1>15. CASE Reject
  BY <1>15 DEF Reject
<1>16. CASE StreamCanceled
  BY <1>16 DEF StreamCanceled, StreamEnds
<1>17. CASE DoStreams \/ DoDocument
  BY <1>17 DEF DoStreams, DoDocument
<1>18. CASE BodyFails
  BY <1>18 DEF BodyFails
<1>19. CASE BodyImage
  BY <1>19 DEF BodyImage, BodyWritten
<1>20. CASE StartPolling
  BY <1>20 DEF StartPolling
<1>21. CASE KeepWithoutPolling
  BY <1>21 DEF KeepWithoutPolling, BodyWritten
<1>22. CASE Cancel
  BY <1>22 DEF Cancel, handlerVars
<1>23. CASE Video /\ UNCHANGED <<handlerVars, streamVars, canceled>>
  BY <1>23 DEF handlerVars
<1>24. CASE UNCHANGED vars
  BY <1>24 DEF vars, handlerVars
<1>25. CASE StreamStarts \/ StreamNext \/ StreamClosed
  BY <1>25 DEF StreamStarts, StreamNext, StreamClosed
<1> QED
  BY <1>1, <1>2, <1>3, <1>4, <1>5, <1>7, <1>8, <1>9, <1>10, <1>11, <1>12, <1>13, <1>14, <1>15, <1>16, <1>17,
     <1>18, <1>19, <1>20, <1>21, <1>22, <1>23, <1>24, <1>25

\* The goroutine of a stream has nothing to do with pictures.
LEMMA ReaderImagining ==
  Imagining /\ (ReadTool \/ ReadPlain \/ ReadLast \/ ReadEnds \/ SendEvent \/ CloseChannel \/ ProducerStops) => Imagining'
<1> SUFFICES ASSUME Imagining, ReadTool \/ ReadPlain \/ ReadLast \/ ReadEnds \/ SendEvent \/ CloseChannel \/ ProducerStops
             PROVE  Imagining'
  OBVIOUS
<1>1. producer \in {"read", "last"} /\ imagine' = imagine /\ producer' # "imagine"
  <2>1. CASE ReadTool \/ ReadPlain \/ ReadLast
    BY <2>1 DEF ReadTool, ReadPlain, ReadLast, Read, imageVars
  <2>2. CASE ReadEnds \/ SendEvent \/ CloseChannel \/ ProducerStops
    BY <2>2 DEF ReadEnds, SendEvent, CloseChannel, ProducerStops, imageVars
  <2> QED
    BY <2>1, <2>2
<1>2. ~(imagine.requested > 0)
  BY <1>1 DEF Imagining
<1> QED
  BY <1>1, <1>2 DEF Imagining

\* The WebSocket is opened, and what was gathered is dropped.
LEMMA OpenImagining == Streaming /\ Channel /\ Imagining /\ (DoImagine \/ Settle \/ Die) => Imagining'
<1> SUFFICES ASSUME Streaming, Channel, Imagining, DoImagine \/ Settle \/ Die PROVE Imagining'
  OBVIOUS
<1>1. CASE DoImagine
  <2>1. /\ pc = "upstream" /\ req.op = "image" /\ producer' = "imagine" /\ pc' = "collect" /\ answer' = NoAnswer
        /\ channel' = channel /\ req' = req
    BY <1>1 DEF DoImagine
  <2>2. PICK n \in 1..MaxPictures : imagine' = NewImagine(n)
    BY <1>1 DEF DoImagine
  <2>3. channel = <<>>
    BY <2>1 DEF Channel, Trying, Calling, CallOut
  <2>4. imagine' \in Readers /\ imagine'.requested = n /\ imagine'.collected = 0 /\ n > 0 /\ n \in Nat
    BY <2>2, GatewayAssumption DEF NewImagine, Readers
  <2>5. answer' \in Documents /\ answer'.media = <<>>
    BY <2>1 DEF NoAnswer, Documents
  <2>6. Shots' = <<>>
    <3>1. Gathered(Pictured, channel') = <<>>
      BY <2>1, <2>3, GatherNothing
    <3>2. <<>> \o <<>> = <<>>
      OBVIOUS
    <3> QED
      BY <2>5, <3>1, <3>2 DEF Shots
  <2>7. channel' \in Seq(PlainEvents)
    BY <2>1, <2>3
  <2>8. WellShot(Shots', imagine') /\ StillShooting(Shots', imagine')
    BY <2>4, <2>6 DEF WellShot, StillShooting
  <2>9. WellShot(Shots, imagine)' /\ StillShooting(Shots, imagine)'
    BY <2>8 DEF WellShot, StillShooting
  <2> QED
    BY <2>1, <2>2, <2>4, <2>5, <2>7, <2>9 DEF Imagining
<1>2. CASE Settle
  <2>1. pc = "settle" /\ producer' = producer /\ imagine' = NoImagine
    BY <1>2 DEF Settle
  <2>2. producer # "imagine"
    BY <2>1 DEF Imagining
  <2> QED
    BY <2>1, <2>2 DEF Imagining, NoImagine, NewImagine
<1>3. CASE Die
  <2>1. producer' # "imagine" /\ imagine' = NoImagine
    BY <1>3 DEF Die
  <2> QED
    BY <2>1 DEF Imagining, NoImagine, NewImagine
<1> QED
  BY <1>1, <1>2, <1>3

\* What an event without a tool call makes of a document.
LEMMA AddPlain ==
  ASSUME NEW a \in Documents, NEW e \in PlainEvents
  PROVE  /\ Add(a, e) \in Documents
         /\ Add(a, e).tools = a.tools
         /\ Add(a, e).err = (a.err \/ e.kind = "error")
         /\ Add(a, e).media = IF e.kind \in {"image", "video"} /\ e \notin Range(a.media) THEN Append(a.media, e) ELSE a.media
         /\ AddEncoded(a, e) \in Documents
         /\ AddEncoded(a, e).tools = a.tools /\ AddEncoded(a, e).err = a.err /\ AddEncoded(a, e).media = Append(a.media, e)
<1>1. e \in AllEvents /\ e.kind \in Kinds
  BY DEF PlainEvents, IsPlain
<1>2. /\ a.media \in Seq(AllEvents) /\ a.tools \in Seq(DocumentTools) /\ a.usage \in BOOLEAN /\ a.err \in BOOLEAN
      /\ a = [tools |-> a.tools, media |-> a.media, usage |-> a.usage, err |-> a.err]
  BY DEF Documents
<1>3. Append(a.media, e) \in Seq(AllEvents)
  BY <1>1, <1>2
<1>4. AddEncoded(a, e) = [tools |-> a.tools, media |-> Append(a.media, e), usage |-> a.usage, err |-> a.err]
  <2> DEFINE m == Append(a.media, e)
  <2>1. AddEncoded(a, e) = [a EXCEPT !.media = m]
    BY DEF AddEncoded
  <2> HIDE DEF m
  <2>2. [a EXCEPT !.media = m] = [tools |-> a.tools, media |-> m, usage |-> a.usage, err |-> a.err]
    BY DEF Documents
  <2> QED
    BY <2>1, <2>2 DEF m
<1>5. AddEncoded(a, e) \in Documents
  BY <1>2, <1>3, <1>4 DEF Documents
<1>6. /\ e.kind \in {"image", "video"} => Add(a, e) = IF e \in Range(a.media) THEN a ELSE AddEncoded(a, e)
      /\ e.kind = "usage" => Add(a, e) = [a EXCEPT !.usage = TRUE]
      /\ e.kind = "error" => Add(a, e) = [a EXCEPT !.err = TRUE]
      /\ e.kind \in {"text", "reasoning", "done"} => Add(a, e) = a
  BY DEF Add
<1> DEFINE u == [a EXCEPT !.usage = TRUE]
           f == [a EXCEPT !.err = TRUE]
<1>7. u \in Documents /\ u.tools = a.tools /\ u.media = a.media /\ u.err = a.err
  BY DEF Documents
<1>8. f \in Documents /\ f.tools = a.tools /\ f.media = a.media /\ f.err = TRUE
  BY DEF Documents
<1>9. AddEncoded(a, e).tools = a.tools /\ AddEncoded(a, e).err = a.err /\ AddEncoded(a, e).media = Append(a.media, e)
  BY <1>4
<1> HIDE DEF u, f
<1>10. CASE e.kind \in {"image", "video"}
  BY <1>2, <1>5, <1>6, <1>9, <1>10
<1>11. CASE e.kind = "usage"
  BY <1>2, <1>5, <1>6, <1>7, <1>9, <1>11 DEF u
<1>12. CASE e.kind = "error"
  BY <1>2, <1>5, <1>6, <1>8, <1>9, <1>12 DEF f
<1>13. CASE e.kind \in {"text", "reasoning", "done"}
  BY <1>2, <1>5, <1>6, <1>9, <1>13
<1> QED
  BY <1>1, <1>10, <1>11, <1>12, <1>13 DEF Kinds

\* An event is collected, or the picture it tells of cannot be stored.
LEMMA CollectImagining == Imagining /\ (Collect \/ Collected) => Imagining'
<1> SUFFICES ASSUME Imagining, Collect \/ Collected PROVE Imagining'
  OBVIOUS
<1>1. imagine' = imagine /\ producer' = producer /\ req' = req /\ pc = "collect"
  BY DEF Collect, Collected, streamVars, imageVars
<1>2. CASE ~(imagine.requested > 0)
  BY <1>1, <1>2 DEF Imagining
<1>3. CASE imagine.requested > 0 /\ Collected
  <2>1. channel = <<>> /\ producer = "closed" /\ outcome' = (IF answer.err THEN "failed" ELSE "ok") /\ pc' = "settle"
        /\ answer' = answer /\ channel' = channel
    BY <1>3 DEF Collected, streamVars
  <2>2. Shots' = Shots /\ Failing' = Failing
    BY <2>1 DEF Shots, Failing
  <2>3. outcome' = "ok" => ~Failing
    BY <2>1 DEF Failing
  <2> QED
    BY <1>1, <1>3, <2>1, <2>2, <2>3 DEF Imagining, WellShot, StillShooting
<1>4. CASE imagine.requested > 0 /\ Collect
  <2> DEFINE e == Head(channel)
  <2>1. channel # <<>> /\ channel' = Tail(channel) /\ pc' = pc /\ outcome' = outcome
    BY <1>4 DEF Collect
  <2>2. /\ answer \in Documents /\ channel \in Seq(PlainEvents)
        /\ ~Failing => /\ WellShot(Shots, imagine)
                       /\ producer = "closed" => Len(Shots) >= 1
                       /\ producer = "imagine" => StillShooting(Shots, imagine)
    BY <1>4 DEF Imagining
  <2>3. channel' \in Seq(PlainEvents) /\ e \in PlainEvents
    BY <2>1, <2>2
  <2>4. \/ answer' = Add(answer, Event("error"))
        \/ answer' = Add(answer, e)
        \/ e.kind = "image" /\ answer' = AddEncoded(answer, e)
    BY <1>4 DEF Collect
  <2>5. Event("error") \in PlainEvents /\ Event("error").kind = "error"
    BY PlainEvent DEF Kinds, Event
  <2> HIDE DEF e
  <2> DEFINE x == Event("error")
  <2>10. /\ Add(answer, x) \in Documents /\ Add(answer, x).err = TRUE
    <3>1. x \in PlainEvents /\ x.kind = "error"
      BY <2>5
    <3> HIDE DEF x
    <3>2. Add(answer, x) \in Documents /\ Add(answer, x).err = (answer.err \/ x.kind = "error")
      BY <2>2, <3>1, AddPlain
    <3> QED
      BY <3>1, <3>2
  <2>11. /\ Add(answer, e) \in Documents /\ Add(answer, e).err = (answer.err \/ e.kind = "error")
         /\ Add(answer, e).media = IF e.kind \in {"image", "video"} /\ e \notin Range(answer.media)
                                   THEN Append(answer.media, e) ELSE answer.media
         /\ AddEncoded(answer, e) \in Documents /\ AddEncoded(answer, e).err = answer.err
         /\ AddEncoded(answer, e).media = Append(answer.media, e)
    BY <2>2, <2>3, AddPlain
  <2> HIDE DEF x
  <2>12. answer' = Add(answer, x) \/ answer' = Add(answer, e) \/ (e.kind = "image" /\ answer' = AddEncoded(answer, e))
    BY <2>4 DEF x
  <2>6. answer' \in Documents
    BY <2>10, <2>11, <2>12
  <2>7. ASSUME ~Failing' PROVE ~Failing /\ Shots' = Shots
    <3>1. ~answer'.err /\ answer.err \in BOOLEAN /\ answer.media \in Seq(AllEvents)
      BY <2>2, <2>7 DEF Failing, Documents
    <3>2. answer' = Add(answer, e) \/ (e.kind = "image" /\ answer' = AddEncoded(answer, e))
      BY <2>10, <2>12, <3>1
    <3>3. ~answer.err /\ e.kind # "error"
      <4>1. CASE answer' = Add(answer, e)
        BY <2>11, <3>1, <4>1
      <4>2. CASE e.kind = "image" /\ answer' = AddEncoded(answer, e)
        BY <2>11, <3>1, <4>2
      <4> QED
        BY <3>2, <4>1, <4>2
    <3>4. ~Failing
      <4>1. \A i \in DOMAIN channel : channel[i] = e \/ \E j \in DOMAIN Tail(channel) : Tail(channel)[j] = channel[i]
        <5> SUFFICES ASSUME NEW i \in DOMAIN channel, channel[i] # e
                     PROVE  \E j \in DOMAIN Tail(channel) : Tail(channel)[j] = channel[i]
          OBVIOUS
        <5>1. i # 1
          BY <2>1, <2>2 DEF e
        <5>2. i - 1 \in DOMAIN Tail(channel) /\ Tail(channel)[i - 1] = channel[i]
          BY <2>1, <2>2, <5>1
        <5> QED
          BY <5>2
      <4> QED
        BY <2>1, <2>7, <3>3, <4>1 DEF Failing
    <3> DEFINE rest == Gathered(Pictured, Tail(channel))
    <3>5. Gathered(Pictured, channel) = Pictured[e] \o rest /\ rest \in Seq(AllEvents)
      <4>1. channel \in Seq(AllEvents) /\ Tail(channel) \in Seq(PlainEvents)
        BY <2>1, <2>2, PlainChannel
      <4> QED
        BY <2>1, <4>1, PicturedMaps, GatherTail, PlainChannel DEF e
    <3>6. e \in AllEvents
      BY <2>3 DEF PlainEvents
    <3>7. Shots = answer.media \o (Pictured[e] \o rest) /\ Shots' = answer'.media \o rest
      BY <2>1, <3>5 DEF Shots
    <3> HIDE DEF rest
    <3>8. CASE e.kind \in {"image", "video"}
      <4>1. Pictured[e] = <<e>>
        BY <3>6, <3>8, PicturedMaps
      <4>2. e \notin Range(answer.media)
        <5> SUFFICES ASSUME NEW i \in DOMAIN answer.media, answer.media[i] = e PROVE FALSE
          BY DEF Range
        <5> DEFINE m == answer.media
                   s == <<e>> \o rest
        <5>1. Shots = m \o s
          BY <3>7, <4>1
        <5>2. m \in Seq(AllEvents) /\ s \in Seq(AllEvents) /\ s[1] = e /\ Len(s) >= 1
          BY <3>1, <3>5, <3>6
        <5>5. i \in 1..Len(m) /\ m[i] = e
          BY <3>1
        <5> HIDE DEF m, s
        <5>3. Len(m) + 1 \in DOMAIN (m \o s) /\ (m \o s)[Len(m) + 1] = e /\ Len(m) \in Nat
          BY <5>2
        <5>4. i \in DOMAIN (m \o s) /\ (m \o s)[i] = e /\ i # Len(m) + 1
          BY <5>2, <5>5
        <5>6. \A k, l \in DOMAIN (m \o s) : (m \o s)[k] = (m \o s)[l] => k = l
          BY <2>2, <3>4, <5>1 DEF WellShot
        <5> QED
          BY <5>3, <5>4, <5>6
      <4>3. answer'.media = Append(answer.media, e)
        BY <2>2, <2>3, <3>2, <3>8, <4>2, AddPlain
      <4>4. Append(answer.media, e) \o rest = answer.media \o (<<e>> \o rest)
        <5> DEFINE m == answer.media
        <5>1. m \in Seq(AllEvents)
          BY <3>1
        <5> HIDE DEF m
        <5>2. Append(m, e) = m \o <<e>> /\ <<e>> \in Seq(AllEvents)
          BY <3>6, <5>1
        <5>3. (m \o <<e>>) \o rest = m \o (<<e>> \o rest)
          BY <3>5, <5>1, <5>2, JoinAgain
        <5> QED
          BY <5>2, <5>3 DEF m
      <4> QED
        BY <3>4, <3>7, <4>1, <4>3, <4>4
    <3>9. CASE e.kind \notin {"image", "video"}
      <4>1. Pictured[e] = <<>>
        BY <3>6, <3>9, PicturedMaps
      <4>2. answer'.media = answer.media
        BY <2>2, <2>3, <3>2, <3>9, AddPlain
      <4>3. <<>> \o rest = rest
        BY <3>5
      <4> QED
        BY <3>4, <3>7, <4>1, <4>2, <4>3
    <3> QED
      BY <3>8, <3>9
  <2>8. ~Failing' => /\ WellShot(Shots', imagine)
                     /\ producer = "closed" => Len(Shots') >= 1
                     /\ producer = "imagine" => StillShooting(Shots', imagine)
    BY <2>2, <2>7
  <2>9. ~Failing' => /\ WellShot(Shots, imagine)'
                     /\ producer' = "closed" => Len(Shots') >= 1
                     /\ producer' = "imagine" => StillShooting(Shots, imagine)'
    BY <1>1, <2>8 DEF WellShot, StillShooting
  <2> QED
    BY <1>1, <1>4, <2>1, <2>3, <2>6, <2>9 DEF Imagining
<1> QED
  BY <1>2, <1>3, <1>4

\* A picture sent for the first time.
LEMMA OneMore ==
  ASSUME NEW q \in Seq(AllEvents), NEW g, NEW h, NEW id \in Pictures \ Moderated, WellShot(q, g), StillShooting(q, g),
         id \notin g.completed, g.requested \in Nat,
         h.requested = g.requested, h.completed = g.completed \cup {id}, h.collected = g.collected + 1
  PROVE  /\ WellShot(q \o <<Picture(id)>>, h)
         /\ Len(q \o <<Picture(id)>>) = g.collected + 1
         /\ g.collected + 1 # g.requested => StillShooting(q \o <<Picture(id)>>, h)
<1> DEFINE e == Picture(id)
           r == q \o <<e>>
<1>1. e.kind = "image" /\ e.url = id /\ IsPicture(e)
  BY DEF Picture, Event, IsPicture
<1>2. e \in AllEvents
  <2>1. id \in Nat
    BY GatewayAssumption
  <2> QED
    BY <2>1, PictureEvent DEF PassingEvents, PlainEvents
<1>3. \A i \in DOMAIN q : q[i].url \in g.completed /\ IsPicture(q[i])
  BY DEF WellShot, StillShooting
<1>4. Len(q) = g.collected /\ g.collected < g.requested /\ \A i, j \in DOMAIN q : q[i] = q[j] => i = j
  BY DEF WellShot, StillShooting
<1> HIDE DEF e
<1>5. /\ Len(q) \in Nat /\ Len(r) = Len(q) + 1 /\ DOMAIN r = 1..(Len(q) + 1) /\ DOMAIN q = 1..Len(q)
      /\ r[Len(q) + 1] = e /\ \A i \in 1..Len(q) : r[i] = q[i]
  BY <1>2
<1> HIDE DEF r
<1>6. \A i \in 1..Len(q) : r[i] # e
  BY <1>1, <1>3, <1>5
<1>7. \A i \in DOMAIN r : IsPicture(r[i]) /\ r[i].url \in h.completed
  BY <1>1, <1>3, <1>5
<1>8. \A i, j \in DOMAIN r : r[i] = r[j] => i = j
  BY <1>4, <1>5, <1>6
<1>9. Len(r) = g.collected + 1 /\ Len(r) <= h.requested
  BY <1>4, <1>5
<1>10. g.collected + 1 # g.requested => h.collected < h.requested
  BY <1>4, <1>5
<1> QED
  BY <1>7, <1>8, <1>9, <1>10 DEF WellShot, StillShooting, r, e

\* What a step of the goroutine makes of the pictures q sent so far.
KeepsShooting(q, g, step) ==
  /\ step.g \in Readers /\ step.g.requested = g.requested
  /\ step.events \in Seq(PlainEvents)
  /\ WellShot(q, g) /\ StillShooting(q, g) =>
     \/ \E i \in DOMAIN step.events : step.events[i].kind = "error"
     \/ /\ WellShot(q \o Gathered(Pictured, step.events), step.g)
        /\ step.over => Len(q \o Gathered(Pictured, step.events)) >= 1
        /\ ~step.over => StillShooting(q \o Gathered(Pictured, step.events), step.g)

\* A reader that returns is a new one.
LEMMA ReaderIsNew == \A n \in Nat : NewImagine(n) \in Readers /\ NewImagine(n).requested = n
BY DEF NewImagine, Readers

\* Every frame, and the end of the WebSocket, keeps the pictures apart and their number within bounds.
LEMMA WebSocketKeepsShooting ==
  ASSUME NEW q \in Seq(AllEvents), NEW g \in Readers
  PROVE  /\ \A id \in Pictures : /\ KeepsShooting(q, g, ImageFrame(g, id))
                                 /\ KeepsShooting(q, g, CompletedFrame(g, id, id \in Moderated))
         /\ KeepsShooting(q, g, ErrorFrame(g))
         /\ \A closed \in BOOLEAN : KeepsShooting(q, g, ReadError(g, closed))
<1> DEFINE x == Event("error")
           d == Event("done")
<1>1. x \in PlainEvents /\ d \in PlainEvents /\ x.kind = "error" /\ d.kind = "done"
  BY PlainEvent DEF Kinds, Event
<1>2. <<>> \in Seq(PlainEvents) /\ q \o <<>> = q /\ Gathered(Pictured, <<>>) = <<>>
  BY GatherNothing
<1>3. StillShooting(q, g) => Len(q) = g.collected /\ g.collected < g.requested /\ Len(q) \in Nat
  BY DEF StillShooting
<1> HIDE DEF x, d
<1>10. g.requested \in Nat
  BY DEF Readers
<1>4. ASSUME NEW h \in Readers, h.requested = g.requested, h.collected = g.collected, g.completed \subseteq h.completed,
             NEW step, step = [g |-> h, events |-> <<>>, over |-> FALSE]
      PROVE  KeepsShooting(q, g, step)
  <2>1. step.events = <<>> /\ ~step.over /\ step.g = h
    BY <1>4
  <2>2. WellShot(q, g) /\ StillShooting(q, g) => WellShot(q, h) /\ StillShooting(q, h)
    BY <1>4 DEF WellShot, StillShooting
  <2> QED
    BY <1>2, <1>4, <2>1, <2>2 DEF KeepsShooting
<1>5. ASSUME NEW step, step = [g |-> NewImagine(g.requested), events |-> <<x>>, over |-> TRUE]
      PROVE  KeepsShooting(q, g, step)
  <2>1. step.events = <<x>> /\ step.g \in Readers /\ step.g.requested = g.requested
    BY <1>5, <1>10, ReaderIsNew
  <2>2. step.events \in Seq(PlainEvents) /\ 1 \in DOMAIN step.events /\ step.events[1].kind = "error"
    BY <1>1, <2>1
  <2> QED
    BY <2>1, <2>2 DEF KeepsShooting
<1>6. ASSUME g.collected > 0, NEW step, step = [g |-> NewImagine(g.requested), events |-> <<d>>, over |-> TRUE]
      PROVE  KeepsShooting(q, g, step)
  <2>1. step.events = <<d>> /\ step.over /\ step.g \in Readers /\ step.g.requested = g.requested
    BY <1>6, <1>10, ReaderIsNew
  <2>2. d \in AllEvents /\ <<d>> \in Seq(PlainEvents)
    BY <1>1 DEF PlainEvents
  <2>3. Gathered(Pictured, <<d>>) = <<>>
    <3>1. Gathered(Pictured, <<d>>) = Pictured[d]
      BY <2>2, PicturedMaps, GatherOne
    <3> QED
      BY <1>1, <2>2, <3>1, PicturedMaps
  <2>4. WellShot(q, g) => WellShot(q, step.g)
    BY <2>1 DEF WellShot
  <2>5. q \o Gathered(Pictured, step.events) = q
    BY <1>2, <2>1, <2>3
  <2>6. StillShooting(q, g) => Len(q) >= 1
    BY <1>3, <1>6
  <2>7. step.over /\ step.events \in Seq(PlainEvents)
    BY <2>1, <2>2
  <2> QED
    BY <2>1, <2>4, <2>5, <2>6, <2>7 DEF KeepsShooting
<1>7. ASSUME NEW id \in Pictures PROVE KeepsShooting(q, g, ImageFrame(g, id))
  <2> DEFINE h == [g EXCEPT !.pictured = @ \cup {id}]
  <2>1. h \in Readers /\ h.requested = g.requested /\ h.collected = g.collected /\ g.completed \subseteq h.completed
    BY DEF Readers
  <2>2. ImageFrame(g, id) = [g |-> h, events |-> <<>>, over |-> FALSE]
    BY DEF ImageFrame, Step
  <2> HIDE DEF h
  <2> QED
    BY <1>4, <2>1, <2>2
<1>8. ASSUME NEW id \in Pictures PROVE KeepsShooting(q, g, CompletedFrame(g, id, id \in Moderated))
  <2> DEFINE seen == [g EXCEPT !.completed = @ \cup {id}]
             h == [seen EXCEPT !.collected = @ + 1]
             last == g.collected + 1 = g.requested
             e == Picture(id)
             events == <<e>> \o (IF last THEN <<Event("done")>> ELSE <<>>)
  <2>0. /\ seen.requested = g.requested /\ seen.collected = g.collected /\ seen.completed = g.completed \cup {id}
        /\ seen \in Readers
    BY DEF Readers
  <2>9. /\ h.requested = g.requested /\ h.collected = g.collected + 1 /\ h.completed = g.completed \cup {id}
        /\ h \in Readers
    <3> HIDE DEF seen
    <3> QED
      BY <2>0 DEF Readers
  <2>1. /\ seen.requested = g.requested /\ seen.collected = g.collected /\ seen.completed = g.completed \cup {id}
        /\ h.requested = g.requested /\ h.collected = g.collected + 1 /\ h.completed = g.completed \cup {id}
        /\ seen \in Readers /\ h \in Readers
    BY <2>0, <2>9
  <2>2. CompletedFrame(g, id, id \in Moderated) =
          IF id \in g.completed \/ id \in Moderated \/ id \notin g.pictured
          THEN [g |-> seen, events |-> <<>>, over |-> FALSE]
          ELSE [g |-> IF last THEN NewImagine(h.requested) ELSE h, events |-> events, over |-> last]
    BY DEF CompletedFrame, Step
  <2> HIDE DEF seen, h, events
  <2>3. ASSUME NEW step, step = [g |-> seen, events |-> <<>>, over |-> FALSE] PROVE KeepsShooting(q, g, step)
    BY <1>4, <2>1, <2>3
  <2>4. ASSUME id \notin g.completed, id \notin Moderated,
               NEW step, step = [g |-> IF last THEN NewImagine(h.requested) ELSE h, events |-> events, over |-> last]
        PROVE  KeepsShooting(q, g, step)
    <3>1. /\ step.events = events /\ (step.over <=> last) /\ (~last => step.g = h)
          /\ step.g \in Readers /\ step.g.requested = g.requested
      BY <2>1, <2>4, <1>10, ReaderIsNew
    <3>2. WellShot(q, g) /\ StillShooting(q, g) =>
            /\ WellShot(q \o <<e>>, h) /\ Len(q \o <<e>>) = g.collected + 1
            /\ ~last => StillShooting(q \o <<e>>, h)
      <4> SUFFICES ASSUME WellShot(q, g), StillShooting(q, g)
                   PROVE  /\ WellShot(q \o <<e>>, h) /\ Len(q \o <<e>>) = g.collected + 1
                          /\ ~last => StillShooting(q \o <<e>>, h)
        OBVIOUS
      <4>1. id \in Pictures \ Moderated /\ id \notin g.completed
        BY <2>4
      <4> HIDE DEF e, last
      <4>2. /\ WellShot(q \o <<Picture(id)>>, h) /\ Len(q \o <<Picture(id)>>) = g.collected + 1
            /\ g.collected + 1 # g.requested => StillShooting(q \o <<Picture(id)>>, h)
        <5>1. /\ q \in Seq(AllEvents) /\ g.requested \in Nat /\ WellShot(q, g) /\ StillShooting(q, g)
              /\ h.requested = g.requested /\ h.collected = g.collected + 1 /\ h.completed = g.completed \cup {id}
          BY <1>10, <2>1
        <5> HIDE DEF h
        <5> QED
          BY <4>1, <5>1, OneMore
      <4> QED
        BY <4>2 DEF e, last
    <3>3. e \in PlainEvents /\ e \in AllEvents /\ e.kind = "image"
      <4>1. id \in Nat
        BY GatewayAssumption
      <4> QED
        BY <4>1, PictureEvent DEF PassingEvents, PlainEvents, Picture, Event
    <3> HIDE DEF e
    <3>4. <<e>> \in Seq(PlainEvents) /\ <<e>> \in Seq(AllEvents) /\ <<d>> \in Seq(PlainEvents) /\ d \in AllEvents
      BY <1>1, <3>3 DEF PlainEvents
    <3>5. events \in Seq(PlainEvents) /\ Gathered(Pictured, events) = <<e>>
      <4>1. Gathered(Pictured, <<e>>) = <<e>> /\ Gathered(Pictured, <<d>>) = <<>>
        <5>1. Gathered(Pictured, <<e>>) = Pictured[e] /\ Gathered(Pictured, <<d>>) = Pictured[d]
          BY <3>3, <3>4, PicturedMaps, GatherOne
        <5> QED
          BY <1>1, <3>3, <3>4, <5>1, PicturedMaps
      <4> DEFINE one == <<e>>
                 end == <<d>>
      <4>2. CASE last
        <5>1. events = one \o end
          BY <4>2 DEF events, d
        <5>2. one \in Seq(PlainEvents) /\ end \in Seq(PlainEvents) /\ one \in Seq(AllEvents) /\ end \in Seq(AllEvents)
          BY <3>4
        <5>3. Gathered(Pictured, one) = one /\ Gathered(Pictured, end) = <<>>
          BY <4>1
        <5> HIDE DEF one, end
        <5>4. Gathered(Pictured, one \o end) = Gathered(Pictured, one) \o Gathered(Pictured, end)
          BY <5>2, PicturedMaps, GatherJoin
        <5>5. one \o end \in Seq(PlainEvents) /\ one \o <<>> = one
          BY <5>2
        <5>6. events \in Seq(PlainEvents) /\ Gathered(Pictured, events) = one
          BY <5>1, <5>3, <5>4, <5>5
        <5> QED
          BY <5>6 DEF one
      <4>3. CASE ~last
        <5>1. events = one \o <<>>
          BY <4>3 DEF events
        <5>2. events = one
          BY <3>4, <5>1
        <5> QED
          BY <3>4, <4>1, <5>2
      <4> QED
        BY <4>2, <4>3
    <3>6. WellShot(q, g) /\ StillShooting(q, g) => WellShot(q \o <<e>>, step.g)
      BY <2>1, <3>1, <3>2 DEF WellShot
    <3>7. WellShot(q, g) /\ StillShooting(q, g) => Len(q \o <<e>>) >= 1
      BY <1>3, <3>2
    <3>8. WellShot(q, g) /\ StillShooting(q, g) /\ ~last => StillShooting(q \o <<e>>, step.g)
      BY <3>1, <3>2
    <3> HIDE DEF last
    <3> QED
      BY <3>1, <3>5, <3>6, <3>7, <3>8 DEF KeepsShooting
  <2> QED
    BY <2>2, <2>3, <2>4
<1>9. KeepsShooting(q, g, ErrorFrame(g))
  BY <1>5 DEF ErrorFrame, Step, x
<1>11. ASSUME NEW closed \in BOOLEAN PROVE KeepsShooting(q, g, ReadError(g, closed))
  <2>1. CASE closed /\ g.collected > 0
    <3>1. ReadError(g, closed) = [g |-> NewImagine(g.requested), events |-> <<d>>, over |-> TRUE]
      BY <2>1 DEF ReadError, Step, d
    <3> QED
      BY <1>6, <2>1, <3>1
  <2>2. CASE ~(closed /\ g.collected > 0)
    <3>1. ReadError(g, closed) = [g |-> NewImagine(g.requested), events |-> <<x>>, over |-> TRUE]
      BY <2>2 DEF ReadError, Step, x
    <3> QED
      BY <1>5, <3>1
  <2> QED
    BY <2>1, <2>2
<1> QED
  BY <1>7, <1>8, <1>9, <1>11

\* The goroutine of the WebSocket.
LEMMA WebSocketImagining == Imagining /\ (ReadFrame \/ ReadFrameFails) => Imagining'
<1> SUFFICES ASSUME Imagining, ReadFrame \/ ReadFrameFails PROVE Imagining'
  OBVIOUS
<1>1. ASSUME NEW step, ImagineStep(step)
      PROVE  /\ producer = "imagine" /\ imagine' = step.g /\ channel' = channel \o step.events
             /\ producer' = (IF step.over THEN "closed" ELSE "imagine")
             /\ req' = req /\ pc' = pc /\ answer' = answer /\ outcome' = outcome
  BY <1>1 DEF ImagineStep, handlerVars
<1>2. \/ \E id \in Pictures : \/ ImagineStep(ImageFrame(imagine, id))
                              \/ ImagineStep(CompletedFrame(imagine, id, id \in Moderated))
      \/ ImagineStep(ErrorFrame(imagine))
      \/ \E closed \in BOOLEAN : ImagineStep(ReadError(imagine, closed))
  BY DEF ReadFrame, ReadFrameFails
<1>3. producer = "imagine"
  BY <1>1, <1>2
<1>4. /\ imagine.requested > 0 /\ req.op = "image" /\ pc \in {"collect", "settle"} /\ pc # "settle"
      /\ imagine \in Readers /\ imagine.requested \in 1..MaxPictures
      /\ answer \in Documents /\ channel \in Seq(PlainEvents)
      /\ ~Failing => WellShot(Shots, imagine) /\ StillShooting(Shots, imagine)
  BY <1>3 DEF Imagining
<1>5. answer.media \in Seq(AllEvents) /\ Gathered(Pictured, channel) \in Seq(AllEvents) /\ channel \in Seq(AllEvents)
  BY <1>4, PlainChannel DEF Documents
<1>6. Shots \in Seq(AllEvents)
  BY <1>5 DEF Shots
<1>7. /\ \A id \in Pictures : /\ KeepsShooting(Shots, imagine, ImageFrame(imagine, id))
                              /\ KeepsShooting(Shots, imagine, CompletedFrame(imagine, id, id \in Moderated))
      /\ KeepsShooting(Shots, imagine, ErrorFrame(imagine))
      /\ \A closed \in BOOLEAN : KeepsShooting(Shots, imagine, ReadError(imagine, closed))
  BY <1>4, <1>6, WebSocketKeepsShooting
<1>8. \E step : ImagineStep(step) /\ KeepsShooting(Shots, imagine, step)
  BY <1>2, <1>7
<1>9. PICK step : ImagineStep(step) /\ KeepsShooting(Shots, imagine, step)
  BY <1>8
<1>10. /\ imagine' = step.g /\ channel' = channel \o step.events /\ producer' = (IF step.over THEN "closed" ELSE "imagine")
       /\ req' = req /\ pc' = pc /\ answer' = answer /\ outcome' = outcome
  BY <1>1, <1>9
<1>11. step.g \in Readers /\ step.g.requested = imagine.requested /\ step.events \in Seq(PlainEvents)
  BY <1>9 DEF KeepsShooting
<1> DEFINE q == Gathered(Pictured, step.events)
<1>12. Shots' = Shots \o q /\ channel' \in Seq(PlainEvents)
  <2>1. step.events \in Seq(AllEvents) /\ q \in Seq(AllEvents)
    BY <1>11, PlainChannel
  <2> DEFINE x == step.events
             a == answer.media
             c == Gathered(Pictured, channel)
  <2>2. Gathered(Pictured, channel \o step.events) = Gathered(Pictured, channel) \o q
    <3>1. x \in Seq(AllEvents)
      BY <2>1
    <3> HIDE DEF x
    <3>2. Gathered(Pictured, channel \o x) = Gathered(Pictured, channel) \o Gathered(Pictured, x)
      BY <1>5, <3>1, PicturedMaps, GatherJoin
    <3> QED
      BY <3>2 DEF x
  <2> HIDE DEF q
  <2>3. (answer.media \o Gathered(Pictured, channel)) \o q = answer.media \o (Gathered(Pictured, channel) \o q)
    <3>1. a \in Seq(AllEvents) /\ c \in Seq(AllEvents)
      BY <1>5
    <3> HIDE DEF a, c
    <3>2. (a \o c) \o q = a \o (c \o q)
      BY <2>1, <3>1, JoinAgain
    <3> QED
      BY <3>2 DEF a, c
  <2>4. channel \o step.events \in Seq(PlainEvents)
    BY <1>4, <1>11
  <2> QED
    BY <1>10, <2>2, <2>3, <2>4 DEF Shots
<1> HIDE DEF q
<1>13. ASSUME ~Failing' PROVE ~Failing /\ \A i \in DOMAIN step.events : step.events[i].kind # "error"
  <2>1. ~answer.err /\ \A i \in DOMAIN (channel \o step.events) : (channel \o step.events)[i].kind # "error"
    BY <1>10, <1>13 DEF Failing
  <2> DEFINE e == step.events
  <2>2. e \in Seq(PlainEvents)
    BY <1>11
  <2> HIDE DEF e
  <2>3. \A i \in DOMAIN channel : i \in DOMAIN (channel \o e) /\ (channel \o e)[i] = channel[i]
    BY <1>4, <2>2
  <2>4. \A i \in DOMAIN e : Len(channel) + i \in DOMAIN (channel \o e) /\ (channel \o e)[Len(channel) + i] = e[i]
    BY <1>4, <2>2
  <2> QED
    BY <2>1, <2>3, <2>4 DEF Failing, e
<1>14. ~Failing' => /\ WellShot(Shots', step.g)
                    /\ step.over => Len(Shots') >= 1
                    /\ ~step.over => StillShooting(Shots', step.g)
  BY <1>4, <1>9, <1>12, <1>13 DEF KeepsShooting, q
<1>15. ~Failing' => /\ WellShot(Shots, imagine)'
                    /\ producer' = "closed" => Len(Shots') >= 1
                    /\ producer' = "imagine" => StillShooting(Shots, imagine)'
  <2>1. WellShot(Shots', step.g) => WellShot(Shots, imagine)'
    BY <1>10 DEF WellShot
  <2>2. StillShooting(Shots', step.g) => StillShooting(Shots, imagine)'
    BY <1>10 DEF StillShooting
  <2> QED
    BY <1>10, <1>14, <2>1, <2>2
<1>16. producer' \in {"imagine", "closed"}
  BY <1>10
<1> QED
  BY <1>4, <1>10, <1>11, <1>12, <1>15, <1>16 DEF Imagining

-----------------------------------------------------------------------------
\* Imagining is inductive with GatewayInv and Streaming.
LEMMA ImaginingInit == Init => Imagining
<1> SUFFICES ASSUME Init PROVE Imagining
  OBVIOUS
<1>1. producer = "off" /\ imagine = NoImagine
  BY DEF Init
<1> QED
  BY <1>1 DEF Imagining, NoImagine, NewImagine
\* Every step keeps the pictures on their way.
LEMMA ImaginingStep == Imagining /\ Streaming /\ GatewayInv /\ [Next]_vars => Imagining'
<1> SUFFICES ASSUME Imagining, Streaming, Channel, Next \/ UNCHANGED vars PROVE Imagining'
  BY DEF GatewayInv
<1>1. ASSUME \/ RefuseBody \/ RefuseModel \/ RefusePayload \/ Accept \/ Acquire \/ NoAccountLeft
             \/ ProxyResolved \/ ProxyFails \/ Send \/ UploadEnds \/ UploadsJoined \/ PostCreated
             \/ DoFails \/ DoUnauthorized \/ Refreshed \/ RefreshFails \/ DoRetryable \/ DoRejects
             \/ Reject \/ StreamCanceled \/ BodyFails \/ BodyImage \/ DoStreams \/ DoDocument
             \/ StreamStarts \/ StreamNext \/ StreamClosed
             \/ StartPolling \/ KeepWithoutPolling \/ Cancel
             \/ (Video /\ UNCHANGED <<handlerVars, streamVars, canceled>>) \/ UNCHANGED vars
      PROVE  Imagining'
  <2>1. Aside
    BY <1>1, AsideSteps
  <2> QED
    BY <2>1, AsideImagining
<1>2. ASSUME DoImagine \/ Collect \/ Collected \/ Settle \/ Die PROVE Imagining'
  BY <1>2, OpenImagining, CollectImagining
<1>3. ASSUME ReadTool \/ ReadPlain \/ ReadLast \/ ReadFrame \/ ReadFrameFails
             \/ ReadEnds \/ SendEvent \/ CloseChannel \/ ProducerStops
      PROVE  Imagining'
  BY <1>3, ReaderImagining, WebSocketImagining
<1> QED
  BY <1>1, <1>2, <1>3 DEF Next, Handle, Produce, Carry

\* A sequence without repetitions has as many elements as places.
LEMMA Distinct ==
  ASSUME NEW X, NEW q \in Seq(X), \A i, j \in DOMAIN q : q[i] = q[j] => i = j
  PROVE  IsFiniteSet(Range(q)) /\ Cardinality(Range(q)) = Len(q)
<1> DEFINE f == [i \in 1..Len(q) |-> q[i]]
<1>1. Len(q) \in Nat /\ DOMAIN q = 1..Len(q) /\ Range(q) = {q[i] : i \in 1..Len(q)}
  BY DEF Range
<1>2. f \in Bijection(1..Len(q), Range(q))
  <2>1. f \in [1..Len(q) -> Range(q)]
    BY <1>1
  <2>2. \A i, j \in 1..Len(q) : f[i] = f[j] => i = j
    BY <1>1
  <2>3. \A x \in Range(q) : \E i \in 1..Len(q) : f[i] = x
    BY <1>1
  <2> HIDE DEF f
  <2> QED
    BY <2>1, <2>2, <2>3 DEF Bijection, Injection, Surjection, IsInjective
<1>3. IsFiniteSet(1..Len(q)) /\ Cardinality(1..Len(q)) = Len(q)
  <2>1. 1 \in Int /\ Len(q) \in Int /\ Len(q) >= 0
    BY <1>1
  <2>2. /\ IsFiniteSet(1..Len(q))
        /\ Cardinality(1..Len(q)) = IF 1 > Len(q) THEN 0 ELSE Len(q) - 1 + 1
    BY <2>1, FS_Interval
  <2> QED
    BY <2>1, <2>2
<1> HIDE DEF f
<1>4. ExistsBijection(1..Len(q), Range(q))
  BY <1>2 DEF ExistsBijection
<1> QED
  BY <1>3, <1>4, FS_Bijection

(* An answer with pictures made over a WebSocket has at least one and at most as many as were asked
   for, each once and none that was withheld: doImagine counts a picture when it is completed for the
   first time, and its channel carries each to the answer, whatever is repeated and whenever the
   WebSocket ends. *)
THEOREM PicturesAreDelivered == Spec => []PicturesDelivered
<1>1. Imagining => PicturesDelivered
  <2> SUFFICES ASSUME Imagining, pc = "settle", outcome = "ok", imagine.requested > 0
               PROVE  /\ Len(answer.media) \in 1..imagine.requested
                      /\ Cardinality(Range(answer.media)) = Len(answer.media)
                      /\ \A i \in DOMAIN answer.media : answer.media[i].url \in Pictures \ Moderated
    BY DEF PicturesDelivered
  <2>1. /\ answer \in Documents /\ channel = <<>> /\ WellShot(Shots, imagine) /\ Len(Shots) >= 1
        /\ imagine.requested \in 1..MaxPictures
    BY DEF Imagining
  <2>2. answer.media \in Seq(AllEvents) /\ answer.media \o <<>> = answer.media
    BY <2>1 DEF Documents
  <2>3. Shots = answer.media
    BY <2>1, <2>2, GatherNothing DEF Shots
  <2>4. Cardinality(Range(answer.media)) = Len(answer.media)
    BY <2>1, <2>2, <2>3, Distinct DEF WellShot
  <2>5. Len(answer.media) \in 1..imagine.requested
    BY <2>1, <2>2, <2>3 DEF WellShot
  <2> QED
    BY <2>1, <2>3, <2>4, <2>5 DEF WellShot, IsPicture
<1>2. GatewayInv /\ Streaming /\ [Next]_vars => Streaming'
  BY StreamingStep
<1>3. Imagining /\ Streaming /\ GatewayInv /\ [Next]_vars => Imagining'
  BY ImaginingStep
<1> QED
  BY <1>1, <1>2, <1>3, StreamingInit, ImaginingInit, GatewayHolds, PTL DEF Spec

-----------------------------------------------------------------------------
(* The tool calls a stream or a document has recorded.                     *)

Has(tools, id) == \E n \in DOMAIN tools : tools[n].id = id
Args(tools, id) == IF Has(tools, id) THEN tools[CHOOSE n \in DOMAIN tools : tools[n].id = id].args ELSE <<>>
Listed(tools, pr) ==
  /\ Len(tools) \in Nat /\ DOMAIN tools = 1..Len(tools)
  /\ \A n \in DOMAIN tools : tools[n].args \in Seq(Nat) /\ \E t \in Tools : tools[n].id = CallOf(pr, t)
  /\ \A n, m \in DOMAIN tools : tools[n].id = tools[m].id => n = m

\* Call t of tools has got the arguments args in more, or was begun there, and nothing else happened.
Gains(tools, more, pr, t, args) ==
  /\ Listed(more, pr)
  /\ \A u \in Tools : /\ Has(more, CallOf(pr, u)) <=> Has(tools, CallOf(pr, u)) \/ u = t
                      /\ u # t => Args(more, CallOf(pr, u)) = Args(tools, CallOf(pr, u))
  /\ Args(more, CallOf(pr, t)) = Args(tools, CallOf(pr, t)) \o args

\* The arguments of a call are those of the entry with its identifier.
LEMMA ArgsOfEntry ==
  ASSUME NEW tools, NEW pr, Listed(tools, pr), NEW n \in DOMAIN tools
  PROVE  Has(tools, tools[n].id) /\ Args(tools, tools[n].id) = tools[n].args
<1> DEFINE id == tools[n].id
           m == CHOOSE i \in DOMAIN tools : tools[i].id = id
<1>1. Has(tools, id)
  BY DEF Has
<1>2. m \in DOMAIN tools /\ tools[m].id = id
  OBVIOUS
<1>3. Args(tools, id) = tools[m].args
  BY <1>1 DEF Args
<1> HIDE DEF m
<1>4. m = n
  BY <1>2 DEF Listed
<1> QED
  BY <1>1, <1>3, <1>4

\* They are a sequence of fragments, and an empty one when there is no such call.
LEMMA ArgsType ==
  ASSUME NEW tools, NEW pr, Listed(tools, pr), NEW id
  PROVE  Args(tools, id) \in Seq(Nat) /\ (~Has(tools, id) => Args(tools, id) = <<>>)
<1>1. CASE Has(tools, id)
  <2>1. PICK n \in DOMAIN tools : tools[n].id = id
    BY <1>1 DEF Has
  <2>2. Args(tools, id) = tools[n].args
    BY <2>1, ArgsOfEntry
  <2> QED
    BY <1>1, <2>2 DEF Listed
<1>2. CASE ~Has(tools, id)
  BY <1>2 DEF Args
<1> QED
  BY <1>1, <1>2

\* Lists that agree on the identifiers and the arguments of their entries.
LEMMA SameArgs ==
  ASSUME NEW tools, NEW more, NEW pr, Listed(tools, pr), Listed(more, pr), NEW id,
         \A n \in DOMAIN tools : tools[n].id = id => n \in DOMAIN more /\ more[n].id = id /\ more[n].args = tools[n].args,
         Has(more, id) => Has(tools, id)
  PROVE  Args(more, id) = Args(tools, id) /\ (Has(more, id) <=> Has(tools, id))
<1>1. CASE Has(tools, id)
  <2>1. PICK n \in DOMAIN tools : tools[n].id = id
    BY <1>1 DEF Has
  <2>2. n \in DOMAIN more /\ more[n].id = id /\ more[n].args = tools[n].args
    BY <2>1
  <2>3. Args(tools, id) = tools[n].args
    BY <2>1, ArgsOfEntry
  <2>4. Args(more, id) = more[n].args
    BY <2>2, ArgsOfEntry
  <2> QED
    BY <1>1, <2>2, <2>3, <2>4 DEF Has
<1>2. CASE ~Has(tools, id)
  <2>1. ~Has(more, id)
    BY <1>2
  <2> QED
    BY <1>2, <2>1 DEF Args
<1> QED
  BY <1>1, <1>2

\* A new entry at the end, and more arguments for an old one.
LEMMA NewEntry ==
  ASSUME NEW tools, NEW more, NEW pr, NEW t \in Tools, NEW args \in Seq(Nat), Listed(tools, pr),
         ~Has(tools, CallOf(pr, t)), Len(more) = Len(tools) + 1, DOMAIN more = 1..Len(more),
         \A n \in DOMAIN tools : more[n].id = tools[n].id /\ more[n].args = tools[n].args,
         more[Len(more)].id = CallOf(pr, t), more[Len(more)].args = args
  PROVE  Gains(tools, more, pr, t, args)
<1> DEFINE c == CallOf(pr, t)
           k == Len(more)
<1>1. Len(tools) \in Nat /\ DOMAIN tools = 1..Len(tools) /\ k \in Nat
  BY DEF Listed
<1>2. \A n \in DOMAIN more : n = k \/ n \in DOMAIN tools
  BY <1>1
<1>3. \A n \in DOMAIN tools : n \in DOMAIN more /\ n # k
  BY <1>1
<1>4. k \in DOMAIN more
  BY <1>1
<1> HIDE DEF k
<1>5. \A n \in DOMAIN tools : tools[n].id # c
  BY DEF Has
<1>6. Listed(more, pr)
  <2>1. ASSUME NEW n \in DOMAIN more PROVE more[n].args \in Seq(Nat) /\ \E u \in Tools : more[n].id = CallOf(pr, u)
    BY <1>2 DEF Listed, k
  <2>2. ASSUME NEW n \in DOMAIN more, NEW m \in DOMAIN more, more[n].id = more[m].id PROVE n = m
    <3>1. CASE n = k
      BY <1>2, <1>5, <2>2, <3>1 DEF k
    <3>2. CASE m = k
      BY <1>2, <1>5, <2>2, <3>2 DEF k
    <3>3. CASE n # k /\ m # k
      <4>1. n \in DOMAIN tools /\ m \in DOMAIN tools
        BY <1>2, <3>3
      <4>2. tools[n].id = tools[m].id
        BY <2>2, <4>1
      <4> QED
        BY <4>1, <4>2 DEF Listed
    <3> QED
      BY <3>1, <3>2, <3>3
  <2>3. Len(more) \in Nat
    BY <1>1 DEF k
  <2> QED
    BY <2>1, <2>2, <2>3 DEF Listed
<1>7. ASSUME NEW u \in Tools, u # t
      PROVE  /\ Args(more, CallOf(pr, u)) = Args(tools, CallOf(pr, u))
             /\ Has(more, CallOf(pr, u)) <=> Has(tools, CallOf(pr, u))
  <2>1. CallOf(pr, u) # c
    BY <1>7, Names
  <2>2. Has(more, CallOf(pr, u)) => Has(tools, CallOf(pr, u))
    <3> SUFFICES ASSUME NEW n \in DOMAIN more, more[n].id = CallOf(pr, u) PROVE Has(tools, CallOf(pr, u))
      BY DEF Has
    <3>1. n # k
      BY <2>1 DEF k
    <3> QED
      BY <1>2, <3>1 DEF Has
  <2> QED
    BY <1>3, <1>6, <2>2, SameArgs
<1>8. Has(more, c) /\ Args(more, c) = args
  BY <1>4, <1>6, ArgsOfEntry DEF k
<1>9. Args(tools, c) = <<>>
  BY DEF Args
<1>10. <<>> \o args = args
  OBVIOUS
<1> QED
  BY <1>6, <1>7, <1>8, <1>9, <1>10 DEF Gains

\* Arguments that go to a call that was begun before.
LEMMA MoreArgs ==
  ASSUME NEW tools, NEW more, NEW pr, NEW t \in Tools, NEW args \in Seq(Nat), Listed(tools, pr),
         NEW k \in DOMAIN tools, tools[k].id = CallOf(pr, t), Len(more) = Len(tools), DOMAIN more = DOMAIN tools,
         \A n \in DOMAIN tools : more[n].id = tools[n].id,
         \A n \in DOMAIN tools : n # k => more[n].args = tools[n].args,
         more[k].args = tools[k].args \o args
  PROVE  Gains(tools, more, pr, t, args)
<1> DEFINE c == CallOf(pr, t)
<1>1. Listed(more, pr)
  <2>1. ASSUME NEW n \in DOMAIN more PROVE more[n].args \in Seq(Nat) /\ \E u \in Tools : more[n].id = CallOf(pr, u)
    <3>1. tools[k].args \in Seq(Nat) /\ tools[n].args \in Seq(Nat)
      BY DEF Listed
    <3>2. tools[k].args \o args \in Seq(Nat)
      BY <3>1
    <3>3. more[n].args \in Seq(Nat)
      BY <3>1, <3>2
    <3> QED
      BY <3>3 DEF Listed
  <2> QED
    BY <2>1 DEF Listed
<1>2. ASSUME NEW u \in Tools, u # t
      PROVE  /\ Args(more, CallOf(pr, u)) = Args(tools, CallOf(pr, u))
             /\ Has(more, CallOf(pr, u)) <=> Has(tools, CallOf(pr, u))
  <2>1. CallOf(pr, u) # c
    BY <1>2, Names
  <2>2. Has(more, CallOf(pr, u)) => Has(tools, CallOf(pr, u))
    BY DEF Has
  <2>3. \A n \in DOMAIN tools : tools[n].id = CallOf(pr, u) =>
          n \in DOMAIN more /\ more[n].id = CallOf(pr, u) /\ more[n].args = tools[n].args
    BY <2>1
  <2> QED
    BY <1>1, <2>2, <2>3, SameArgs
<1>3. Has(tools, c) /\ Args(tools, c) = tools[k].args
  BY ArgsOfEntry
<1>4. Has(more, c) /\ Args(more, c) = more[k].args
  <2>1. k \in DOMAIN more /\ more[k].id = c
    OBVIOUS
  <2> QED
    BY <1>1, <2>1, ArgsOfEntry
<1> QED
  BY <1>1, <1>2, <1>3, <1>4 DEF Gains

\* The calls of a stream that goes well are a list.
LEMMA StreamListed ==
  ASSUME NEW s, NEW op, NEW pr, GoesWell(s, op, pr)
  PROVE  Listed(s.tools, pr)
<1>1. s.tools \in Seq(ToolEntries)
  BY StreamFields DEF GoesWell
<1>2. Len(s.tools) \in Nat /\ DOMAIN s.tools = 1..Len(s.tools) /\ \A n \in DOMAIN s.tools : s.tools[n] \in ToolEntries
  BY <1>1
<1>3. \A n \in DOMAIN s.tools : s.tools[n].args \in Seq(Nat)
  BY <1>2 DEF ToolEntries
<1> QED
  BY <1>2, <1>3 DEF Listed, GoesWell, Recorded

\* record of a stream.
LEMMA RecordGains ==
  ASSUME NEW s, NEW op, NEW pr, GoesWell(s, op, pr), NEW t \in Tools, NEW e, IsToolEvent(e, pr, t)
  PROVE  Gains(s.tools, Record(s, e).s.tools, pr, t, e.args) /\ Record(s, e).s.out = s.out
<1> DEFINE r == Record(s, e)
           c == CallOf(pr, t)
           tools == s.tools
           more == r.s.tools
           entry == [id |-> e.id, itemID |-> e.itemID, outputIndex |-> -1, args |-> e.args]
<1>1. Records(s, e, pr, t, r)
  BY RecordStep DEF GoesWell
<1>2. tools \in Seq(ToolEntries) /\ s \in Streams
  BY StreamFields DEF GoesWell
<1>3. r.s.out = s.out
  <2>1. r.s = [s EXCEPT !.tools = r.s.tools, !.keys = r.s.keys]
    BY <1>1 DEF Records
  <2> HIDE DEF r
  <2> QED
    BY <1>2, <2>1, StreamFields DEF Streams
<1>4. Listed(tools, pr) /\ e.args \in Seq(Nat) /\ e.id = c
  BY StreamListed DEF IsToolEvent
<1>5. Len(tools) \in Nat /\ DOMAIN tools = 1..Len(tools)
  BY <1>4 DEF Listed
<1>6. CASE r.fresh
  <2>1. more = Append(tools, entry) /\ \A n \in DOMAIN tools : tools[n].id # c
    BY <1>1, <1>6 DEF Records
  <2> HIDE DEF more, tools, entry
  <2>2. /\ Len(more) = Len(tools) + 1 /\ DOMAIN more = 1..Len(more) /\ more[Len(more)] = entry
        /\ \A n \in DOMAIN tools : more[n] = tools[n]
    BY <1>2, <1>5, <2>1
  <2>3. entry.id = c /\ entry.args = e.args
    BY <1>4 DEF entry
  <2>4. ~Has(tools, c)
    BY <2>1 DEF Has
  <2>5. Gains(tools, more, pr, t, e.args)
    BY <1>4, <2>2, <2>3, <2>4, NewEntry
  <2> QED
    BY <1>3, <2>5 DEF more, tools
<1>7. CASE ~r.fresh
  <2> DEFINE k == r.n
  <2>1. k \in DOMAIN tools /\ tools[k].id = c /\ more = [tools EXCEPT ![k].args = @ \o e.args]
    BY <1>1, <1>7 DEF Records
  <2> HIDE DEF more, tools, k
  <2>2. \A n \in DOMAIN tools : tools[n] \in ToolEntries
    BY <1>2
  <2>3. /\ DOMAIN more = DOMAIN tools
        /\ \A n \in DOMAIN tools : n # k => more[n] = tools[n]
        /\ more[k] = [tools[k] EXCEPT !.args = @ \o e.args]
    BY <2>1
  <2>4. more[k].id = tools[k].id /\ more[k].args = tools[k].args \o e.args
    <3>1. tools[k] \in ToolEntries
      BY <2>1, <2>2
    <3> QED
      BY <2>3, <3>1 DEF ToolEntries
  <2>5. Len(more) = Len(tools)
    <3>1. more \in Seq(ToolEntries)
      <4>1. r.s \in Streams
        BY <1>1 DEF Records
      <4> QED
        BY <4>1, StreamFields DEF more
    <3> QED
      BY <1>2, <1>5, <2>3, <3>1
  <2>6. Gains(tools, more, pr, t, e.args)
    BY <1>4, <2>1, <2>3, <2>4, <2>5, MoreArgs
  <2> QED
    BY <1>3, <2>6 DEF more, tools
<1> QED
  BY <1>6, <1>7

\* AddTool of a document.
LEMMA AddToolGains ==
  ASSUME NEW a \in Documents, NEW pr, Listed(a.tools, pr), NEW t \in Tools, NEW e, IsToolEvent(e, pr, t)
  PROVE  Gains(a.tools, AddTool(a, e).tools, pr, t, e.args) /\ AddTool(a, e) \in Documents
<1> DEFINE q == AddTool(a, e)
           c == CallOf(pr, t)
           tools == a.tools
           entry == [id |-> e.id, args |-> e.args]
           same == {n \in DOMAIN tools : tools[n].id = e.id}
           k == CHOOSE n \in same : TRUE
<1>1. /\ tools \in Seq(DocumentTools) /\ e.args \in Seq(Nat) /\ e.id = c /\ c \in Idents
      /\ Len(tools) \in Nat /\ DOMAIN tools = 1..Len(tools)
      /\ \A n \in DOMAIN tools : tools[n] \in DocumentTools
  BY Names DEF IsToolEvent, Documents
<1>2. a = [tools |-> a.tools, media |-> a.media, usage |-> a.usage, err |-> a.err]
  BY DEF Documents
<1>3. ASSUME NEW more \in Seq(DocumentTools) PROVE [a EXCEPT !.tools = more] \in Documents /\ [a EXCEPT !.tools = more].tools = more
  BY DEF Documents
<1>4. CASE same = {}
  <2> DEFINE more == Append(tools, entry)
  <2>1. q = [a EXCEPT !.tools = more]
    BY <1>4 DEF AddTool
  <2>2. entry \in DocumentTools /\ entry.id = c /\ entry.args = e.args
    BY <1>1 DEF DocumentTools
  <2>3. /\ more \in Seq(DocumentTools) /\ Len(more) = Len(tools) + 1 /\ DOMAIN more = 1..Len(more)
        /\ more[Len(more)] = entry /\ \A n \in DOMAIN tools : more[n] = tools[n]
    BY <1>1, <2>2
  <2>4. ~Has(tools, c)
    BY <1>1, <1>4 DEF Has
  <2> HIDE DEF more, entry, tools, same, q
  <2>5. Gains(tools, more, pr, t, e.args)
    BY <1>1, <2>2, <2>3, <2>4, NewEntry DEF tools
  <2>6. q.tools = more /\ q \in Documents
    BY <1>3, <2>1, <2>3
  <2> QED
    BY <2>5, <2>6 DEF tools, q
<1>5. CASE same # {}
  <2> DEFINE more == [tools EXCEPT ![k].args = @ \o e.args]
  <2>1. k \in DOMAIN tools /\ tools[k].id = c
    BY <1>1, <1>5
  <2>2. q = [a EXCEPT !.tools[k].args = @ \o e.args]
    BY <1>5 DEF AddTool
  <2> HIDE DEF k
  <2>3. q = [a EXCEPT !.tools = more]
    BY <1>2, <2>1, <2>2
  <2>4. /\ DOMAIN more = DOMAIN tools
        /\ \A n \in DOMAIN tools : n # k => more[n] = tools[n]
        /\ more[k] = [tools[k] EXCEPT !.args = @ \o e.args]
    BY <2>1
  <2>5. tools[k] \in DocumentTools
    BY <1>1, <2>1
  <2>6. more[k].id = tools[k].id /\ more[k].args = tools[k].args \o e.args /\ more[k] \in DocumentTools
    <3>1. tools[k].args \o e.args \in Seq(Nat)
      BY <1>1, <2>5 DEF DocumentTools
    <3> QED
      BY <2>4, <2>5, <3>1 DEF DocumentTools
  <2> HIDE DEF more, tools, q
  <2>7. more \in Seq(DocumentTools) /\ Len(more) = Len(tools)
    <3>1. \A n \in DOMAIN tools : more[n] \in DocumentTools
      BY <1>1, <2>4, <2>6
    <3>2. more = [n \in 1..Len(tools) |-> more[n]]
      BY <1>1, <2>4 DEF more
    <3> QED
      BY <1>1, <3>1, <3>2
  <2>8. Gains(tools, more, pr, t, e.args)
    BY <1>1, <2>1, <2>4, <2>6, <2>7, MoreArgs DEF tools
  <2>9. q.tools = more /\ q \in Documents
    BY <1>3, <2>3, <2>7
  <2> QED
    BY <2>8, <2>9 DEF tools, q
<1> QED
  BY <1>4, <1>5

-----------------------------------------------------------------------------
(* What the frames of a stream say of its tool calls.                      *)

\* What a frame adds to the arguments of the call with this name, and with a number in places in a Chat stream.
Hears(places, name) ==
  [x \in Frames |-> IF \/ x.type = "tool_calls" /\ x.at \in places
                       \/ x.type \in {"delta", "block_delta"} /\ x.item = name
                    THEN x.args ELSE <<>>]

\* The frames that add nothing, to whichever call.
Unheard == {x \in Frames : x.type # "tool_calls" /\ (x.type \in {"delta", "block_delta"} => x.args = <<>>)}

SameCalls(tools, more) ==
  /\ Len(more) = Len(tools) /\ DOMAIN more = DOMAIN tools
  /\ \A n \in DOMAIN tools : more[n].id = tools[n].id /\ more[n].args = tools[n].args

\* The stream q is s with more frames, which say nothing of a tool call.
Wordless(s, q) == SameCalls(s.tools, q.tools) /\ \E fs \in Seq(Unheard) : q.out = s.out \o fs

\* A frame is heard as a sequence of fragments.
LEMMA HearsMaps == \A places, name : Maps(Hears(places, name), Frames, Nat)
<1> TAKE places, name
<1>1. \A x \in Frames : x.args \in Seq(Nat) /\ <<>> \in Seq(Nat)
  BY DEF Frames
<1> QED
  BY <1>1 DEF Maps, Hears

\* Unheard frames are not heard.
LEMMA UnheardSilent ==
  ASSUME NEW fs \in Seq(Unheard), NEW places, NEW name
  PROVE  fs \in Seq(Frames) /\ Gathered(Hears(places, name), fs) = <<>>
<1> DEFINE h == Hears(places, name)
<1>1. Unheard \subseteq Frames
  BY DEF Unheard
<1>2. fs \in Seq(Frames) /\ \A i \in DOMAIN fs : fs[i] \in Unheard
  BY <1>1
<1>3. \A x \in Unheard : h[x] = <<>>
  BY <1>1 DEF Unheard, Hears
<1>4. Maps(h, Frames, Nat)
  BY HearsMaps
<1> HIDE DEF h
<1>5. Gathered(h, fs) = <<>>
  BY <1>2, <1>3, <1>4, GatherSilence
<1> QED
  BY <1>2, <1>5 DEF h

\* What is heard of a stream stays the same.
LEMMA WordlessHeard ==
  ASSUME NEW s, NEW q, s.out \in Seq(Frames), Wordless(s, q)
  PROVE  /\ SameCalls(s.tools, q.tools) /\ q.out \in Seq(Frames)
         /\ \A places, name : Gathered(Hears(places, name), q.out) = Gathered(Hears(places, name), s.out)
         /\ Occurs(q.out, "tool_calls") = Occurs(s.out, "tool_calls")
         /\ \A i \in Occurs(s.out, "tool_calls") : q.out[i] = s.out[i]
<1> DEFINE f == s.out
           g == q.out
<1>1. PICK fs \in Seq(Unheard) : g = f \o fs
  BY DEF Wordless
<1>2. fs \in Seq(Frames) /\ f \in Seq(Frames)
  BY <1>1, UnheardSilent
<1>3. g \in Seq(Frames) /\ Len(g) = Len(f) + Len(fs) /\ Len(f) \in Nat /\ Len(fs) \in Nat
      /\ \A i \in 1..(Len(f) + Len(fs)) : g[i] = IF i <= Len(f) THEN f[i] ELSE fs[i - Len(f)]
  <2> HIDE DEF f, g
  <2> QED
    BY <1>1, <1>2, JoinFacts
<1>4. DOMAIN f = 1..Len(f) /\ DOMAIN g = 1..(Len(f) + Len(fs)) /\ DOMAIN fs = 1..Len(fs)
  <2> HIDE DEF f, g
  <2> QED
    BY <1>2, <1>3
<1>5. \A i \in 1..Len(fs) : fs[i].type # "tool_calls"
  <2>1. \A i \in 1..Len(fs) : fs[i] \in Unheard
    BY <1>1
  <2> QED
    BY <2>1 DEF Unheard
<1>6. ASSUME NEW places, NEW name PROVE Gathered(Hears(places, name), g) = Gathered(Hears(places, name), f)
  <2> DEFINE h == Hears(places, name)
  <2>1. Maps(h, Frames, Nat) /\ Gathered(h, fs) = <<>>
    BY HearsMaps, UnheardSilent
  <2> HIDE DEF h, f, g
  <2>2. Gathered(h, g) = Gathered(h, f) \o Gathered(h, fs)
    <3>0. HearsParts(h, Frames)
      BY <2>1, PartsHeard
    <3>1. Gathered(h, f \o fs) = Gathered(h, f) \o Gathered(h, fs)
      BY <1>2, <3>0 DEF HearsParts
    <3> QED
      BY <1>1, <3>1
  <2>3. Gathered(h, f) \in Seq(Nat)
    BY <1>2, <2>1, MappedType
  <2>4. Gathered(h, f) \o <<>> = Gathered(h, f)
    BY <2>3
  <2> QED
    BY <2>1, <2>2, <2>4 DEF h
<1> HIDE DEF f, g
<1>7. ASSUME NEW i \in DOMAIN g, g[i].type = "tool_calls" PROVE i \in DOMAIN f /\ f[i] = g[i]
  <2>1. CASE i <= Len(f)
    BY <1>3, <1>4, <2>1
  <2>2. CASE ~(i <= Len(f))
    <3>1. i - Len(f) \in 1..Len(fs) /\ g[i] = fs[i - Len(f)]
      BY <1>3, <1>4, <2>2
    <3> QED
      BY <1>5, <1>7, <3>1
  <2> QED
    BY <2>1, <2>2
<1>8. \A i \in DOMAIN f : i \in DOMAIN g /\ g[i] = f[i]
  BY <1>3, <1>4
<1>9. /\ Occurs(g, "tool_calls") = Occurs(f, "tool_calls")
      /\ \A i \in Occurs(f, "tool_calls") : g[i] = f[i]
  BY <1>7, <1>8 DEF Occurs
<1> QED
  BY <1>3, <1>6, <1>9 DEF f, g, Wordless

\* Nothing, one frame, several frames, and what follows one another.
LEMMA WordlessSame == ASSUME NEW s, NEW q, s.out \in Seq(Frames), SameCalls(s.tools, q.tools), q.out = s.out PROVE Wordless(s, q)
<1>1. <<>> \in Seq(Unheard) /\ s.out = s.out \o <<>>
  OBVIOUS
<1> QED
  BY <1>1 DEF Wordless

\* One such frame more.
LEMMA WordlessFrame ==
  ASSUME NEW s, NEW q, s.out \in Seq(Frames), SameCalls(s.tools, q.tools), NEW x \in Unheard, q.out = Append(s.out, x)
  PROVE  Wordless(s, q)
<1>1. x \in Frames
  BY DEF Unheard
<1>2. <<x>> \in Seq(Unheard) /\ Append(s.out, x) = s.out \o <<x>>
  BY <1>1
<1> QED
  BY <1>2 DEF Wordless

\* Step after step.
LEMMA WordlessOn ==
  ASSUME NEW s, NEW q, NEW r, s.out \in Seq(Frames), Wordless(s, q), Wordless(q, r)
  PROVE  Wordless(s, r)
<1>1. PICK fs \in Seq(Unheard) : q.out = s.out \o fs
  BY DEF Wordless
<1>2. PICK gs \in Seq(Unheard) : r.out = q.out \o gs
  BY DEF Wordless
<1>3. fs \in Seq(Frames) /\ gs \in Seq(Frames)
  BY UnheardSilent
<1>4. (s.out \o fs) \o gs = s.out \o (fs \o gs)
  <2> DEFINE f == s.out
  <2>1. f \in Seq(Frames)
    OBVIOUS
  <2> HIDE DEF f
  <2>2. (f \o fs) \o gs = f \o (fs \o gs)
    BY <1>3, <2>1
  <2> QED
    BY <2>2 DEF f
<1>5. fs \o gs \in Seq(Unheard)
  BY <1>1, <1>2
<1>6. SameCalls(s.tools, r.tools)
  BY DEF Wordless, SameCalls
<1> QED
  BY <1>1, <1>2, <1>4, <1>5, <1>6 DEF Wordless

\* The frames without arguments, and those that close an item.
LEMMA FrameUnheard ==
  ASSUME NEW at \in Int, NEW item \in Idents
  PROVE  /\ \A type \in FrameTypes \ {"tool_calls"} : Frame(type, at, item, <<>>) \in Unheard
         /\ \A args \in Seq(Nat) : Frame("done", at, item, args) \in Unheard
<1>1. \A type \in FrameTypes, args \in Seq(Nat) : Frame(type, at, item, args) \in Frames
  BY DEF Frame, Frames
<1>2. <<>> \in Seq(Nat) /\ "done" \in FrameTypes
  BY DEF FrameTypes
<1> QED
  BY <1>1, <1>2 DEF Unheard, Frame

\* One such frame, when nothing else of interest has changed.
LEMMA EmitWordless ==
  ASSUME NEW s, s.out \in Seq(Frames), NEW p \in Streams, p.out = s.out, SameCalls(s.tools, p.tools), NEW x \in Unheard
  PROVE  Wordless(s, Emit(p, <<x>>))
<1> DEFINE q == Emit(p, <<x>>)
<1>1. x \in Frames
  BY DEF Unheard
<1>2. q = [p EXCEPT !.out = Append(p.out, x)]
  BY <1>1, EmitOne
<1> HIDE DEF q
<1>3. q.out = Append(s.out, x) /\ q.tools = p.tools
  BY <1>2, StreamFields
<1> QED
  BY <1>3, WordlessFrame DEF q

\* The text and the reasoning are added without a word.
LEMMA TextWordless == ASSUME NEW s, NEW op, NEW pr, GoesWell(s, op, pr) PROVE Wordless(s, EnsureText(s))
<1>1. s \in Streams /\ s.next \in Nat /\ s.next \in Int /\ s.next + 1 \in Nat /\ s.out \in Seq(Frames)
  BY StreamFields DEF GoesWell
<1>2. SameCalls(s.tools, s.tools)
  BY DEF SameCalls
<1>3. CASE s.text >= 0
  <2>1. EnsureText(s) = s
    BY <1>3 DEF EnsureText
  <2> QED
    BY <1>1, <1>2, <2>1, WordlessSame
<1>4. CASE ~(s.text >= 0)
  <2> DEFINE p == [s EXCEPT !.text = s.next, !.next = @ + 1]
             x == Frame("added", s.next, Text, <<>>)
  <2>1. EnsureText(s) = Emit(p, <<x>>)
    BY <1>4 DEF EnsureText
  <2>2. p \in Streams
    BY <1>1, StreamUpdates
  <2>3. p.out = s.out /\ p.tools = s.tools
    BY <1>1, StreamFields
  <2>4. x \in Unheard
    BY <1>1, FixedNames, FrameUnheard DEF FrameTypes
  <2> HIDE DEF p, x
  <2> QED
    BY <1>1, <1>2, <2>1, <2>2, <2>3, <2>4, EmitWordless
<1> QED
  BY <1>3, <1>4

\* So is the reasoning.
LEMMA ReasoningWordless == ASSUME NEW s, NEW op, NEW pr, GoesWell(s, op, pr) PROVE Wordless(s, EnsureReasoning(s))
<1>1. s \in Streams /\ s.next \in Nat /\ s.next \in Int /\ s.next + 1 \in Nat /\ s.out \in Seq(Frames)
  BY StreamFields DEF GoesWell
<1>2. SameCalls(s.tools, s.tools)
  BY DEF SameCalls
<1>3. CASE s.reasoning >= 0
  <2>1. EnsureReasoning(s) = s
    BY <1>3 DEF EnsureReasoning
  <2> QED
    BY <1>1, <1>2, <2>1, WordlessSame
<1>4. CASE ~(s.reasoning >= 0)
  <2> DEFINE p == [s EXCEPT !.reasoning = s.next, !.next = @ + 1]
             x == Frame("added", s.next, Reasoning, <<>>)
  <2>1. EnsureReasoning(s) = Emit(p, <<x>>)
    BY <1>4 DEF EnsureReasoning
  <2>2. p \in Streams
    BY <1>1, StreamUpdates
  <2>3. p.out = s.out /\ p.tools = s.tools
    BY <1>1, StreamFields
  <2>4. x \in Unheard
    BY <1>1, FixedNames, FrameUnheard DEF FrameTypes
  <2> HIDE DEF p, x
  <2> QED
    BY <1>1, <1>2, <2>1, <2>2, <2>3, <2>4, EmitWordless
<1> QED
  BY <1>3, <1>4

\* So is the item of a tool call.
LEMMA AddedWordless ==
  ASSUME NEW s, NEW op, NEW pr, GoesWell(s, op, pr), NEW n \in DOMAIN s.tools
  PROVE  Wordless(s, AddedTool(s, n)) /\ AddedTool(s, n).tools[n].itemID = s.tools[n].itemID
<1>1. /\ s \in Streams /\ s.next \in Nat /\ s.next \in Int /\ s.next + 1 \in Nat /\ s.out \in Seq(Frames)
      /\ s.tools \in Seq(ToolEntries) /\ Len(s.tools) \in Nat /\ DOMAIN s.tools = 1..Len(s.tools)
  BY StreamFields DEF GoesWell
<1>2. SameCalls(s.tools, s.tools)
  BY DEF SameCalls
<1>3. CASE s.tools[n].outputIndex >= 0
  <2>1. AddedTool(s, n) = s
    BY <1>3 DEF AddedTool
  <2> QED
    BY <1>1, <1>2, <2>1, WordlessSame
<1>4. CASE ~(s.tools[n].outputIndex >= 0)
  <2> DEFINE entry == [s.tools[n] EXCEPT !.outputIndex = s.next]
             tools == [s.tools EXCEPT ![n] = entry]
             p == [s EXCEPT !.tools = tools, !.next = @ + 1]
             x == Frame("added", s.next, s.tools[n].itemID, <<>>)
             q == Emit(p, <<x>>)
  <2>1. [s EXCEPT !.tools[n].outputIndex = s.next, !.next = @ + 1] = p
    BY <1>1
  <2>2. AddedTool(s, n) = q
    BY <1>4, <2>1 DEF AddedTool
  <2>3. /\ entry \in ToolEntries /\ entry.id = s.tools[n].id /\ entry.args = s.tools[n].args
        /\ entry.itemID = s.tools[n].itemID /\ s.tools[n].itemID \in Idents
    <3>1. PICK v \in ToolEntries : v = s.tools[n]
      BY <1>1
    <3>2. /\ [v EXCEPT !.outputIndex = s.next] \in ToolEntries
          /\ [v EXCEPT !.outputIndex = s.next].args = v.args
          /\ [v EXCEPT !.outputIndex = s.next].id = v.id /\ [v EXCEPT !.outputIndex = s.next].itemID = v.itemID
          /\ v.itemID \in Idents
      BY <1>1 DEF ToolEntries
    <3> QED
      BY <3>1, <3>2
  <2> HIDE DEF entry
  <2>4. /\ tools \in Seq(ToolEntries) /\ DOMAIN tools = DOMAIN s.tools /\ Len(tools) = Len(s.tools)
        /\ tools[n] = entry /\ \A m \in DOMAIN s.tools : m # n => tools[m] = s.tools[m]
    BY <1>1, <2>3
  <2> HIDE DEF tools
  <2>5. SameCalls(s.tools, tools)
    BY <2>3, <2>4 DEF SameCalls
  <2>6. p \in Streams
    BY <1>1, <2>4, StreamUpdates
  <2>7. p.out = s.out /\ p.tools = tools
    BY <1>1, StreamFields
  <2>8. x \in Unheard
    BY <1>1, <2>3, FrameUnheard DEF FrameTypes
  <2> HIDE DEF p, x
  <2>9. Wordless(s, q)
    BY <1>1, <2>5, <2>6, <2>7, <2>8, EmitWordless
  <2>10. q.tools = tools
    <3>1. x \in Frames
      BY <2>8 DEF Unheard
    <3>2. q = [p EXCEPT !.out = Append(p.out, x)]
      BY <2>6, <3>1, EmitOne
    <3> HIDE DEF q
    <3> QED
      BY <2>6, <2>7, <3>2, StreamFields
  <2> QED
    BY <2>2, <2>3, <2>4, <2>9, <2>10
<1> QED
  BY <1>3, <1>4

\* Blocks are closed and opened without a word.
LEMMA CloseWordless == ASSUME NEW s, NEW pr, GoesWell(s, "messages", pr) PROVE Wordless(s, CloseBlock(s))
<1>1. s \in Streams /\ s.blockIndex \in Nat /\ s.blockIndex \in Int /\ s.blockIndex + 1 \in Nat /\ s.out \in Seq(Frames)
  BY StreamFields DEF GoesWell
<1>2. SameCalls(s.tools, s.tools)
  BY DEF SameCalls
<1>3. CASE ~s.open
  <2>1. CloseBlock(s) = s
    BY <1>3 DEF CloseBlock
  <2> QED
    BY <1>1, <1>2, <2>1, WordlessSame
<1>4. CASE s.open
  <2> DEFINE p == [s EXCEPT !.open = FALSE, !.blockTool = NoId, !.blockIndex = @ + 1]
             x == Frame("block_stop", s.blockIndex, NoId, <<>>)
  <2>1. CloseBlock(s) = Emit(p, <<x>>)
    BY <1>4 DEF CloseBlock
  <2>2. p \in Streams
    BY <1>1, FixedNames, BlockUpdates
  <2>3. p.out = s.out /\ p.tools = s.tools
    BY <1>1, StreamFields
  <2>4. x \in Unheard
    BY <1>1, FixedNames, FrameUnheard DEF FrameTypes
  <2> HIDE DEF p, x
  <2> QED
    BY <1>1, <1>2, <2>1, <2>2, <2>3, <2>4, EmitWordless
<1> QED
  BY <1>3, <1>4

\* The open block is closed before.
LEMMA OpenWordless ==
  ASSUME NEW s, NEW pr, GoesWell(s, "messages", pr), NEW kind \in BlockKinds, NEW tool \in Idents
  PROVE  Wordless(s, OpenBlock(s, kind, tool))
<1> DEFINE c == CloseBlock(s)
<1>1. GoesWell(c, "messages", pr) /\ Wordless(s, c)
  BY CloseGoesWell, CloseWordless
<1>2. c \in Streams /\ c.blockIndex \in Int /\ c.out \in Seq(Frames) /\ s.out \in Seq(Frames)
  BY <1>1, StreamFields DEF GoesWell
<1> DEFINE p == [c EXCEPT !.open = TRUE, !.blockKind = kind, !.blockTool = tool]
           x == Frame("block_start", c.blockIndex, tool, <<>>)
<1>3. OpenBlock(s, kind, tool) = Emit(p, <<x>>)
  BY DEF OpenBlock
<1> HIDE DEF c
<1>4. p \in Streams
  BY <1>2, BlockUpdates
<1>5. p.out = c.out /\ p.tools = c.tools
  BY <1>2, StreamFields
<1>6. x \in Unheard
  BY <1>2, FrameUnheard DEF FrameTypes
<1>7. SameCalls(c.tools, p.tools)
  BY <1>5 DEF SameCalls
<1> HIDE DEF p, x
<1>8. Wordless(c, Emit(p, <<x>>))
  BY <1>2, <1>4, <1>5, <1>6, <1>7, EmitWordless
<1> QED
  BY <1>1, <1>2, <1>3, <1>8, WordlessOn

\* The frames that precede the first event.
LEMMA StartWordless == ASSUME NEW op \in Conversational PROVE Wordless(NewStream, Start(NewStream, op))
<1> DEFINE type == CASE op = "chat" -> "role" [] op = "responses" -> "created" [] op = "messages" -> "message_start"
           x == Frame(type, -1, NoId, <<>>)
<1>1. type \in FrameTypes \ {"tool_calls"}
  BY DEF Conversational, FrameTypes
<1>2. Start(NewStream, op) = Emit(NewStream, <<x>>)
  BY DEF Start, Conversational
<1>3. x \in Unheard
  <2> HIDE DEF type
  <2> QED
    BY <1>1, FixedNames, FrameUnheard
<1> HIDE DEF x
<1>4. NewStream \in Streams /\ NewStream.out \in Seq(Frames)
  BY NewGoesWell, StreamFields DEF GoesWell
<1>5. SameCalls(NewStream.tools, NewStream.tools)
  BY DEF SameCalls
<1> QED
  BY <1>2, <1>3, <1>4, <1>5, EmitWordless

\* Several frames of that kind.
LEMMA EmitAllWordless ==
  ASSUME NEW s \in Streams, NEW fs \in Seq(Unheard)
  PROVE  Wordless(s, Emit(s, fs)) /\ Emit(s, fs) \in Streams
<1>1. fs \in Seq(Frames) /\ s.out \in Seq(Frames)
  BY UnheardSilent, StreamFields
<1>2. s.out \o fs \in Seq(Frames)
  BY <1>1
<1>3. Emit(s, fs) = [s EXCEPT !.out = s.out \o fs]
  BY DEF Emit
<1> DEFINE o == s.out \o fs
           q == [s EXCEPT !.out = o]
<1>4. q.out = o /\ q.tools = s.tools /\ q \in Streams
  <2> HIDE DEF o
  <2>1. o \in Seq(Frames)
    BY <1>2 DEF o
  <2> QED
    BY <2>1 DEF Streams
<1>5. SameCalls(s.tools, q.tools)
  BY <1>4 DEF SameCalls
<1> HIDE DEF q
<1>6. Wordless(s, q)
  BY <1>4, <1>5 DEF Wordless
<1> QED
  BY <1>3, <1>4, <1>6 DEF q

\* The frames that close an item.
LEMMA DoneUnheard ==
  ASSUME NEW at \in Int, NEW item \in Idents, NEW args \in Seq(Nat)
  PROVE  DoneAt(at, item, args) \in Seq(Unheard)
<1>1. Frame("done", at, item, args) \in Unheard
  BY FrameUnheard
<1> QED
  BY <1>1 DEF DoneAt

\* The frames that close all items.
LEMMA ItemsDoneUnheard == ASSUME NEW s \in Streams PROVE ItemsDone(s) \in Seq(Unheard)
<1>1. /\ s.tools \in Seq(ToolEntries) /\ Len(s.tools) \in Nat /\ DOMAIN s.tools = 1..Len(s.tools)
      /\ s.reasoning \in Int /\ s.text \in Int
  BY StreamFields
<1>2. ASSUME NEW n \in 1..Len(s.tools) PROVE ToolDone(s, n) \in Seq(Unheard)
  <2>1. s.tools[n] \in ToolEntries
    BY <1>1
  <2>2. s.tools[n].outputIndex \in Int /\ s.tools[n].itemID \in Idents /\ s.tools[n].args \in Seq(Nat)
    BY <2>1 DEF ToolEntries
  <2> QED
    BY <2>2, DoneUnheard DEF ToolDone
<1>3. ToolsDone(s) \in Seq(Seq(Unheard))
  BY <1>1, <1>2 DEF ToolsDone
<1>4. FlattenSeq(ToolsDone(s)) \in Seq(Unheard)
  BY <1>3, FlatType
<1>5. <<>> \in Seq(Nat)
  OBVIOUS
<1>6. DoneAt(s.reasoning, Reasoning, <<>>) \in Seq(Unheard) /\ DoneAt(s.text, Text, <<>>) \in Seq(Unheard)
  BY <1>1, <1>5, FixedNames, DoneUnheard
<1> DEFINE a == DoneAt(s.reasoning, Reasoning, <<>>)
           b == DoneAt(s.text, Text, <<>>)
           c == FlattenSeq(ToolsDone(s))
<1> HIDE DEF a, b, c
<1>7. a \o b \o c \in Seq(Unheard)
  BY <1>4, <1>6 DEF a, b, c
<1> QED
  BY <1>7 DEF ItemsDone, a, b, c

\* The end of a stream says nothing more of its tool calls.
LEMMA FinishWordless ==
  ASSUME NEW s, NEW op \in Conversational, NEW pr, GoesWell(s, op, pr)
  PROVE  Wordless(s, Finish(s, op))
<1> DEFINE z == Frame("end", -1, NoId, <<>>)
           last == <<Frame("finish", Len(s.tools), NoId, <<>>), z>>
<1>1. s \in Streams /\ Len(s.tools) \in Int /\ s.out \in Seq(Frames) /\ s.next \in Int
  BY StreamFields DEF GoesWell
<1>2. z \in Unheard /\ Frame("finish", Len(s.tools), NoId, <<>>) \in Unheard /\ Frame("completed", s.next, NoId, <<>>) \in Unheard
  <2>1. -1 \in Int /\ NoId \in Idents
    BY FixedNames
  <2> QED
    BY <1>1, <2>1, FrameUnheard DEF FrameTypes
<1> HIDE DEF z
<1>3. last \in Seq(Unheard) /\ <<z>> \in Seq(Unheard)
  BY <1>2
<1>4. CASE op = "chat"
  <2>1. Finish(s, op) = Emit(s, last)
    BY <1>4, Zenon DEF Finish, z
  <2> HIDE DEF last
  <2> QED
    BY <1>1, <1>3, <2>1, EmitAllWordless
<1>5. CASE op = "responses"
  <2> DEFINE x == Frame("completed", s.next, NoId, <<>>)
             i == ItemsDone(s)
             r == FinishResponses(s)
  <2>1. r = Emit(s, i \o <<x>>)
    BY Zenon DEF FinishResponses, ItemsDone, ToolsDone, ToolDone, DoneAt
  <2>2. i \in Seq(Unheard) /\ x \in Unheard
    BY <1>1, <1>2, ItemsDoneUnheard
  <2> HIDE DEF i, x
  <2>3. i \o <<x>> \in Seq(Unheard)
    BY <2>2
  <2> HIDE DEF r
  <2>4. Wordless(s, r) /\ r \in Streams
    BY <1>1, <2>1, <2>3, EmitAllWordless
  <2>5. Finish(s, op) = Emit(r, <<z>>)
    BY <1>5, Zenon DEF Finish, z, r
  <2>6. Wordless(r, Emit(r, <<z>>))
    BY <1>3, <2>4, EmitAllWordless
  <2> QED
    BY <1>1, <2>4, <2>5, <2>6, WordlessOn
<1>6. CASE op = "messages"
  <2> DEFINE c == CloseBlock(s)
  <2>1. GoesWell(c, op, pr) /\ Wordless(s, c)
    BY <1>6, CloseGoesWell, CloseWordless
  <2>2. Finish(s, op) = Emit(c, last)
    BY <1>6, Zenon DEF Finish, z
  <2> HIDE DEF c, last
  <2>3. c \in Streams
    BY <2>1 DEF GoesWell
  <2>4. Wordless(c, Emit(c, last))
    BY <1>3, <2>3, EmitAllWordless
  <2> QED
    BY <1>1, <2>1, <2>2, <2>4, WordlessOn
<1> QED
  BY <1>4, <1>5, <1>6 DEF Conversational

\* The name the client knows tool call t by.
NameOf(op, pr, t) == IF op = "responses" THEN ItemOf(pr, t) ELSE CallOf(pr, t)

(* The frames of a stream carry the arguments it has recorded: those of a Chat stream under the number of the
   tool call, which the first one names, the others under its name. *)
ChatSays(s) ==
  /\ \A k \in Nat, name \in Idents :
       Gathered(Hears({k}, name), s.out) = IF k + 1 \in DOMAIN s.tools THEN s.tools[k + 1].args ELSE <<>>
  /\ \A i \in Occurs(s.out, "tool_calls") : s.out[i].item # NoId =>
       s.out[i].at + 1 \in DOMAIN s.tools /\ s.tools[s.out[i].at + 1].id = s.out[i].item
  /\ \A n \in DOMAIN s.tools : \E i \in Occurs(s.out, "tool_calls") : s.out[i].item = s.tools[n].id
OtherSays(s, op, pr) ==
  /\ Occurs(s.out, "tool_calls") = {}
  /\ \A t \in Tools : Gathered(Hears({}, NameOf(op, pr, t)), s.out) = Args(s.tools, CallOf(pr, t))
Says(s, op, pr) ==
  /\ s.out \in Seq(Frames) /\ Listed(s.tools, pr)
  /\ op = "chat" => ChatSays(s)
  /\ op # "chat" => OtherSays(s, op, pr)

\* The same calls are listed, with the same arguments.
LEMMA SameCallsListed ==
  ASSUME NEW tools, NEW more, NEW pr, Listed(tools, pr), SameCalls(tools, more)
  PROVE  Listed(more, pr) /\ \A id : Args(more, id) = Args(tools, id) /\ (Has(more, id) <=> Has(tools, id))
<1>1. Listed(more, pr)
  BY DEF Listed, SameCalls
<1>2. ASSUME NEW id PROVE Args(more, id) = Args(tools, id) /\ (Has(more, id) <=> Has(tools, id))
  <2>1. \A n \in DOMAIN tools : tools[n].id = id => n \in DOMAIN more /\ more[n].id = id /\ more[n].args = tools[n].args
    BY DEF SameCalls
  <2>2. Has(more, id) => Has(tools, id)
    BY DEF SameCalls, Has
  <2> QED
    BY <1>1, <2>1, <2>2, SameArgs
<1> QED
  BY <1>1, <1>2

\* A step without a word leaves what the frames say true.
LEMMA SaysStill ==
  ASSUME NEW s, NEW q, NEW op, NEW pr, Says(s, op, pr), Wordless(s, q)
  PROVE  Says(q, op, pr)
<1>1. /\ SameCalls(s.tools, q.tools) /\ q.out \in Seq(Frames)
      /\ \A places, name : Gathered(Hears(places, name), q.out) = Gathered(Hears(places, name), s.out)
      /\ Occurs(q.out, "tool_calls") = Occurs(s.out, "tool_calls")
      /\ \A i \in Occurs(s.out, "tool_calls") : q.out[i] = s.out[i]
  BY WordlessHeard DEF Says
<1>2. Listed(q.tools, pr) /\ \A id : Args(q.tools, id) = Args(s.tools, id)
  BY <1>1, SameCallsListed DEF Says
<1>3. op = "chat" => ChatSays(q)
  <2> SUFFICES ASSUME op = "chat" PROVE ChatSays(q)
    OBVIOUS
  <2>1. ChatSays(s)
    BY DEF Says
  <2>2. ASSUME NEW k \in Nat, NEW name \in Idents
        PROVE  Gathered(Hears({k}, name), q.out) = IF k + 1 \in DOMAIN q.tools THEN q.tools[k + 1].args ELSE <<>>
    <3>1. Gathered(Hears({k}, name), s.out) = IF k + 1 \in DOMAIN s.tools THEN s.tools[k + 1].args ELSE <<>>
      BY <2>1 DEF ChatSays
    <3>2. Gathered(Hears({k}, name), q.out) = Gathered(Hears({k}, name), s.out)
      BY <1>1
    <3> QED
      BY <1>1, <3>1, <3>2 DEF SameCalls
  <2>3. \A i \in Occurs(q.out, "tool_calls") : q.out[i].item # NoId =>
          q.out[i].at + 1 \in DOMAIN q.tools /\ q.tools[q.out[i].at + 1].id = q.out[i].item
    <3> SUFFICES ASSUME NEW i \in Occurs(q.out, "tool_calls"), q.out[i].item # NoId
                 PROVE  q.out[i].at + 1 \in DOMAIN q.tools /\ q.tools[q.out[i].at + 1].id = q.out[i].item
      OBVIOUS
    <3>1. i \in Occurs(s.out, "tool_calls") /\ q.out[i] = s.out[i]
      BY <1>1
    <3> DEFINE x == q.out[i]
               n == x.at + 1
    <3>2. n \in DOMAIN s.tools /\ s.tools[n].id = x.item
      BY <2>1, <3>1 DEF ChatSays
    <3> HIDE DEF n, x
    <3>3. n \in DOMAIN q.tools /\ q.tools[n].id = s.tools[n].id
      BY <1>1, <3>2 DEF SameCalls
    <3> QED
      BY <3>2, <3>3 DEF n, x
  <2>4. \A n \in DOMAIN q.tools : \E i \in Occurs(q.out, "tool_calls") : q.out[i].item = q.tools[n].id
    BY <1>1, <2>1 DEF ChatSays, SameCalls
  <2> QED
    BY <2>2, <2>3, <2>4 DEF ChatSays
<1>4. op # "chat" => OtherSays(q, op, pr)
  <2> SUFFICES ASSUME op # "chat" PROVE OtherSays(q, op, pr)
    OBVIOUS
  <2>1. OtherSays(s, op, pr)
    BY DEF Says
  <2>2. ASSUME NEW t \in Tools PROVE Gathered(Hears({}, NameOf(op, pr, t)), q.out) = Args(q.tools, CallOf(pr, t))
    BY <1>1, <1>2, <2>1 DEF OtherSays
  <2> QED
    BY <1>1, <2>1, <2>2 DEF OtherSays
<1> QED
  BY <1>1, <1>2, <1>3, <1>4 DEF Says

\* Different calls have different names.
LEMMA NamesOf ==
  ASSUME NEW op, NEW pr
  PROVE  /\ \A t, u \in Tools : NameOf(op, pr, t) = NameOf(op, pr, u) => t = u
         /\ \A t \in Tools : NameOf(op, pr, t) \in Idents
BY Names DEF NameOf

\* A tool event of a stream other than Chat: recorded in r, and passed on after frames that say nothing.
LEMMA OtherSaysMore ==
  ASSUME NEW s, NEW r, NEW b, NEW q, NEW op, NEW pr, Says(s, op, pr), op # "chat", NEW t \in Tools, NEW args \in Seq(Nat),
         Gains(s.tools, r.tools, pr, t, args), r.out = s.out, Wordless(r, b), q.tools = b.tools,
         NEW x \in Frames, x.type \in {"delta", "block_delta"}, x.item = NameOf(op, pr, t), x.args = args,
         q.out = Append(b.out, x) \/ (args = <<>> /\ q.out = b.out)
  PROVE  Says(q, op, pr)
<1>0. s.out \in Seq(Frames) /\ OtherSays(s, op, pr) /\ Listed(r.tools, pr)
  BY DEF Says, Gains
<1>1. /\ SameCalls(r.tools, b.tools) /\ b.out \in Seq(Frames)
      /\ \A places, name : Gathered(Hears(places, name), b.out) = Gathered(Hears(places, name), r.out)
      /\ Occurs(b.out, "tool_calls") = Occurs(r.out, "tool_calls")
  BY <1>0, WordlessHeard
<1>2. Listed(b.tools, pr) /\ \A id : Args(b.tools, id) = Args(r.tools, id)
  BY <1>0, <1>1, SameCallsListed
<1>3. q.out \in Seq(Frames)
  <2>1. PICK f \in Seq(Frames) : f = b.out
    BY <1>1
  <2>2. Append(f, x) \in Seq(Frames)
    BY <2>1
  <2> QED
    BY <2>1, <2>2
<1>4. Occurs(q.out, "tool_calls") = {}
  <2>1. Occurs(b.out, "tool_calls") = {}
    BY <1>0, <1>1 DEF OtherSays
  <2>2. x.type # "tool_calls"
    OBVIOUS
  <2>3. Occurs(Append(b.out, x), "tool_calls") = Occurs(b.out, "tool_calls") \cup (IF x.type = "tool_calls" THEN {Len(b.out) + 1} ELSE {})
    BY <1>1, OccursAppend
  <2> QED
    BY <2>1, <2>2, <2>3
<1>5. ASSUME NEW u \in Tools PROVE Gathered(Hears({}, NameOf(op, pr, u)), q.out) = Args(q.tools, CallOf(pr, u))
  <2> DEFINE h == Hears({}, NameOf(op, pr, u))
             before == Args(s.tools, CallOf(pr, u))
  <2>1. Gathered(h, b.out) = before
    BY <1>0, <1>1 DEF OtherSays
  <2>2. Args(q.tools, CallOf(pr, u)) = Args(r.tools, CallOf(pr, u))
    BY <1>2
  <2>3. h[x] = IF u = t THEN args ELSE <<>>
    BY NamesOf DEF Hears
  <2>4. Gathered(h, Append(b.out, x)) = Gathered(h, b.out) \o h[x]
    <3>1. PICK f \in Seq(Frames) : f = b.out
      BY <1>1
    <3>2. Maps(h, Frames, Nat)
      BY HearsMaps
    <3>3. Gathered(h, Append(f, x)) = Gathered(h, f) \o h[x]
      <4> HIDE DEF h
      <4> QED
        BY <3>2, GatherAppend
    <3> QED
      BY <3>1, <3>3
  <2>5. before \in Seq(Nat)
    BY ArgsType DEF Says
  <2>6. before \o <<>> = before
    BY <2>5
  <2> HIDE DEF h, before
  <2>7. Gathered(h, q.out) = before \o (IF u = t THEN args ELSE <<>>)
    BY <2>1, <2>3, <2>4, <2>6
  <2>8. Args(r.tools, CallOf(pr, u)) = before \o (IF u = t THEN args ELSE <<>>)
    BY <2>6 DEF Gains, before
  <2> QED
    BY <2>2, <2>7, <2>8 DEF h
<1> QED
  BY <1>2, <1>3, <1>4, <1>5 DEF Says, OtherSays

\* A tool event of a Chat stream: a chunk with the number of the call, which names it when it is new.
LEMMA ChatSaysMore ==
  ASSUME NEW s, NEW pr, GoesWell(s, "chat", pr), ChatSays(s), NEW t \in Tools, NEW e, IsToolEvent(e, pr, t),
         NEW r, Records(s, e, pr, t, r), NEW q, q.tools = r.s.tools,
         NEW x \in Frames, x.type = "tool_calls", x.at = r.n - 1, x.item = (IF r.fresh THEN e.id ELSE NoId), x.args = e.args,
         q.out = Append(s.out, x)
  PROVE  ChatSays(q)
<1> DEFINE f == s.out
           tools == s.tools
           more == q.tools
           n == r.n
           entry == [id |-> e.id, itemID |-> e.itemID, outputIndex |-> -1, args |-> e.args]
<1>1. /\ f \in Seq(Frames) /\ tools \in Seq(ToolEntries) /\ Len(tools) \in Nat /\ DOMAIN tools = 1..Len(tools)
      /\ \A m \in DOMAIN tools : tools[m] \in ToolEntries
  BY StreamFields DEF GoesWell
<1>2. e.id = CallOf(pr, t) /\ e.id # NoId /\ e.args \in Seq(Nat)
  <2>1. e.id = CallOf(pr, t) /\ e.args \in Seq(Nat)
    BY DEF IsToolEvent
  <2>2. CallOf(pr, t)[1] \in {"call", "item"} /\ NoId[1] = ""
    BY DEF CallOf, Id, NoId
  <2> QED
    BY <2>1, <2>2
<1>3. /\ DOMAIN tools \subseteq DOMAIN more /\ n \in DOMAIN more /\ n \in Nat /\ n >= 1
      /\ DOMAIN more = DOMAIN tools \cup {n}
      /\ \A m \in DOMAIN tools : more[m].id = tools[m].id
      /\ \A m \in DOMAIN tools : m # n => more[m].args = tools[m].args
      /\ more[n].id = e.id
      /\ n \in DOMAIN tools => more[n].args = tools[n].args \o e.args
      /\ n \notin DOMAIN tools => more[n].args = e.args
      /\ ~r.fresh <=> n \in DOMAIN tools
  <2>1. CASE r.fresh
    <3>1. n = Len(tools) + 1 /\ more = Append(tools, entry)
      BY <2>1 DEF Records
    <3> HIDE DEF tools, more, n, entry
    <3>2. /\ DOMAIN more = 1..(Len(tools) + 1) /\ more[n] = entry
          /\ \A m \in DOMAIN tools : more[m] = tools[m]
      BY <1>1, <3>1
    <3>3. entry.id = e.id /\ entry.args = e.args
      BY DEF entry
    <3>4. /\ DOMAIN tools \subseteq DOMAIN more /\ n \in DOMAIN more /\ n \in Nat /\ n >= 1
          /\ DOMAIN more = DOMAIN tools \cup {n} /\ n \notin DOMAIN tools
      BY <1>1, <3>1, <3>2
    <3> QED
      BY <2>1, <3>2, <3>3, <3>4, Zenon
  <2>2. CASE ~r.fresh
    <3>1. n \in DOMAIN tools /\ tools[n].id = e.id /\ more = [tools EXCEPT ![n].args = @ \o e.args]
      BY <1>2, <2>2 DEF Records
    <3> HIDE DEF tools, more, n
    <3>2. /\ DOMAIN more = DOMAIN tools /\ \A m \in DOMAIN tools : m # n => more[m] = tools[m]
          /\ more[n] = [tools[n] EXCEPT !.args = @ \o e.args]
      BY <3>1
    <3>3. more[n].id = tools[n].id /\ more[n].args = tools[n].args \o e.args
      <4>1. tools[n] \in ToolEntries
        BY <1>1, <3>1
      <4> QED
        BY <3>2, <4>1 DEF ToolEntries
    <3>4. /\ DOMAIN tools \subseteq DOMAIN more /\ n \in DOMAIN more /\ n \in Nat /\ n >= 1
          /\ DOMAIN more = DOMAIN tools \cup {n}
      BY <1>1, <3>1, <3>2
    <3>5. \A m \in DOMAIN tools : more[m].id = tools[m].id
      BY <3>2, <3>3
    <3>6. more[n].id = e.id
      BY <3>1, <3>3
    <3> QED
      BY <2>2, <3>1, <3>2, <3>3, <3>4, <3>5, <3>6, Zenon
  <2> QED
    BY <2>1, <2>2
<1>4. /\ q.out = Append(f, x)
      /\ Occurs(Append(f, x), "tool_calls") = Occurs(f, "tool_calls") \cup {Len(f) + 1}
      /\ Append(f, x)[Len(f) + 1] = x
      /\ \A i \in Occurs(f, "tool_calls") : Append(f, x)[i] = f[i]
  <2>1. Occurs(Append(f, x), "tool_calls") = Occurs(f, "tool_calls") \cup (IF x.type = "tool_calls" THEN {Len(f) + 1} ELSE {})
    BY <1>1, OccursAppend
  <2>2. \A i \in Occurs(f, "tool_calls") : i \in 1..Len(f)
    BY <1>1 DEF Occurs
  <2> HIDE DEF f
  <2> QED
    BY <1>1, <2>1, <2>2 DEF f
<1> HIDE DEF tools, more, n, f
<1>5. ASSUME NEW k \in Nat, NEW name \in Idents
      PROVE  Gathered(Hears({k}, name), q.out) = IF k + 1 \in DOMAIN more THEN more[k + 1].args ELSE <<>>
  <2> DEFINE h == Hears({k}, name)
             before == IF k + 1 \in DOMAIN tools THEN tools[k + 1].args ELSE <<>>
  <2>1. Gathered(h, f) = before
    BY DEF ChatSays, f, tools
  <2>2. h[x] = IF k = n - 1 THEN e.args ELSE <<>>
    BY DEF Hears, n
  <2>3. Maps(h, Frames, Nat)
    BY HearsMaps
  <2>4. before \in Seq(Nat)
    <3>1. \A m \in DOMAIN tools : tools[m].args \in Seq(Nat)
      BY <1>1 DEF ToolEntries
    <3> QED
      BY <3>1
  <2> HIDE DEF h
  <2>5. Gathered(h, Append(f, x)) = Gathered(h, f) \o h[x]
    BY <1>1, <2>3, GatherAppend
  <2>6. before \o <<>> = before /\ <<>> \o e.args = e.args
    BY <1>2, <2>4
  <2>7. CASE k = n - 1
    <3>1. k + 1 = n
      BY <1>3, <2>7
    <3>2. before \o e.args = more[n].args
      BY <1>3, <2>6, <3>1
    <3> QED
      BY <1>3, <1>4, <2>1, <2>2, <2>5, <2>7, <3>1, <3>2 DEF h
  <2>8. CASE k # n - 1
    <3>1. k + 1 # n /\ (k + 1 \in DOMAIN more <=> k + 1 \in DOMAIN tools)
      BY <1>3, <2>8
    <3>2. k + 1 \in DOMAIN tools => more[k + 1].args = tools[k + 1].args
      BY <1>3, <3>1
    <3>3. Gathered(h, q.out) = before
      BY <1>4, <2>1, <2>2, <2>5, <2>6, <2>8
    <3> QED
      BY <3>1, <3>2, <3>3 DEF h
  <2> QED
    BY <2>7, <2>8
<1>6. ASSUME NEW i \in Occurs(q.out, "tool_calls"), q.out[i].item # NoId
      PROVE  q.out[i].at + 1 \in DOMAIN more /\ more[q.out[i].at + 1].id = q.out[i].item
  <2>1. CASE i \in Occurs(f, "tool_calls")
    <3>1. q.out[i] = f[i]
      BY <1>4, <2>1
    <3>2. f[i].at + 1 \in DOMAIN tools /\ tools[f[i].at + 1].id = f[i].item
      BY <1>6, <2>1, <3>1 DEF ChatSays, f, tools
    <3> QED
      BY <1>3, <3>1, <3>2
  <2>2. CASE i = Len(f) + 1
    <3>1. q.out[i] = x
      BY <1>4, <2>2
    <3>2. x.item = e.id /\ x.at + 1 = n
      BY <1>3, <1>6, <3>1 DEF n
    <3> QED
      BY <1>3, <3>1, <3>2
  <2> QED
    BY <1>4, <2>1, <2>2
<1>7. ASSUME NEW m \in DOMAIN more PROVE \E i \in Occurs(q.out, "tool_calls") : q.out[i].item = more[m].id
  <2>1. CASE m \in DOMAIN tools
    <3>1. PICK i \in Occurs(f, "tool_calls") : f[i].item = tools[m].id
      BY <2>1 DEF ChatSays, f, tools
    <3> QED
      BY <1>3, <1>4, <2>1, <3>1
  <2>2. CASE m \notin DOMAIN tools
    <3>1. m = n /\ r.fresh
      BY <1>3, <2>2
    <3>2. x.item = more[m].id
      BY <1>3, <3>1
    <3> QED
      BY <1>4, <3>2
  <2> QED
    BY <2>1, <2>2
<1> QED
  BY <1>5, <1>6, <1>7 DEF ChatSays, more

\* What an event adds to the arguments of the call with this id, and whether it is about that call.
Mine(e, id) == e.kind = "tool" /\ e.id = id
Arguments(id) == [e \in AllEvents |-> IF Mine(e, id) THEN e.args ELSE <<>>]

\* The calls in more are those in tools and what the event e makes of them.
Gets(tools, more, pr, e) ==
  /\ Listed(more, pr)
  /\ \A u \in Tools : /\ Args(more, CallOf(pr, u)) = Args(tools, CallOf(pr, u)) \o Arguments(CallOf(pr, u))[e]
                      /\ Has(more, CallOf(pr, u)) <=> Has(tools, CallOf(pr, u)) \/ Mine(e, CallOf(pr, u))

\* An event about a tool call is recorded.
LEMMA ToolGets ==
  ASSUME NEW tools, NEW r, NEW more, NEW pr, Listed(tools, pr), NEW t \in Tools, NEW e \in AllEvents, IsToolEvent(e, pr, t),
         Gains(tools, r, pr, t, e.args), SameCalls(r, more)
  PROVE  Gets(tools, more, pr, e)
<1>1. Listed(more, pr) /\ \A id : Args(more, id) = Args(r, id) /\ (Has(more, id) <=> Has(r, id))
  BY SameCallsListed DEF Gains
<1>2. e.kind = "tool" /\ e.id = CallOf(pr, t) /\ e.args \in Seq(Nat)
  BY DEF IsToolEvent
<1>3. ASSUME NEW u \in Tools
      PROVE  /\ Args(more, CallOf(pr, u)) = Args(tools, CallOf(pr, u)) \o Arguments(CallOf(pr, u))[e]
             /\ Has(more, CallOf(pr, u)) <=> Has(tools, CallOf(pr, u)) \/ Mine(e, CallOf(pr, u))
  <2> DEFINE before == Args(tools, CallOf(pr, u))
  <2>1. before \in Seq(Nat)
    BY ArgsType
  <2>2. before \o <<>> = before
    BY <2>1
  <2>3. Mine(e, CallOf(pr, u)) <=> u = t
    BY <1>2, Names DEF Mine
  <2>4. Arguments(CallOf(pr, u))[e] = IF u = t THEN e.args ELSE <<>>
    BY <2>3 DEF Arguments
  <2>5. Args(r, CallOf(pr, u)) = IF u = t THEN before \o e.args ELSE before
    BY DEF Gains
  <2> HIDE DEF before
  <2>6. Args(more, CallOf(pr, u)) = before \o Arguments(CallOf(pr, u))[e]
    BY <1>1, <2>2, <2>4, <2>5
  <2>7. Has(r, CallOf(pr, u)) <=> Has(tools, CallOf(pr, u)) \/ u = t
    BY DEF Gains
  <2> QED
    BY <1>1, <2>3, <2>6, <2>7 DEF before
<1> QED
  BY <1>1, <1>3 DEF Gets

\* Another event changes nothing.
LEMMA PlainGets ==
  ASSUME NEW tools, NEW more, NEW pr, Listed(tools, pr), NEW e \in AllEvents, IsPlain(e), SameCalls(tools, more)
  PROVE  Gets(tools, more, pr, e)
<1>1. Listed(more, pr) /\ \A id : Args(more, id) = Args(tools, id) /\ (Has(more, id) <=> Has(tools, id))
  BY SameCallsListed
<1>2. e.kind # "tool"
  BY DEF IsPlain, Kinds
<1>3. ASSUME NEW u \in Tools
      PROVE  /\ Args(more, CallOf(pr, u)) = Args(tools, CallOf(pr, u)) \o Arguments(CallOf(pr, u))[e]
             /\ Has(more, CallOf(pr, u)) <=> Has(tools, CallOf(pr, u)) \/ Mine(e, CallOf(pr, u))
  <2> DEFINE before == Args(tools, CallOf(pr, u))
  <2>1. before \in Seq(Nat)
    BY ArgsType
  <2>2. before \o <<>> = before
    BY <2>1
  <2>3. ~Mine(e, CallOf(pr, u)) /\ Arguments(CallOf(pr, u))[e] = <<>>
    BY <1>2 DEF Mine, Arguments
  <2> QED
    BY <1>1, <2>2, <2>3
<1> QED
  BY <1>1, <1>3 DEF Gets

\* What Emit does with one frame.
LEMMA EmitFields ==
  ASSUME NEW s \in Streams, NEW x \in Frames
  PROVE  Emit(s, <<x>>).out = Append(s.out, x) /\ Emit(s, <<x>>).tools = s.tools
<1> DEFINE q == Emit(s, <<x>>)
<1>1. q = [s EXCEPT !.out = Append(s.out, x)]
  BY EmitOne
<1> HIDE DEF q
<1>2. q.out = Append(s.out, x) /\ q.tools = s.tools
  BY <1>1, StreamFields
<1> QED
  BY <1>2 DEF q

\* One more frame without arguments, after others that say nothing.
LEMMA EmitMoreWordless ==
  ASSUME NEW s, NEW b \in Streams, s.out \in Seq(Frames), Wordless(s, b), NEW x \in Unheard
  PROVE  Wordless(s, Emit(b, <<x>>))
<1>1. b.out \in Seq(Frames) /\ SameCalls(b.tools, b.tools)
  BY StreamFields DEF SameCalls
<1>2. Wordless(b, Emit(b, <<x>>))
  BY <1>1, EmitWordless
<1> QED
  BY <1>2, WordlessOn

\* An event that is not about a tool call leaves frames that say nothing of one.
LEMMA PlainWordless ==
  ASSUME NEW s, NEW op \in Conversational, NEW pr, GoesWell(s, op, pr), NEW e, IsPlain(e), e.kind \notin {"error", "done"}
  PROVE  Wordless(s, StreamEvent(s, op, e))
<1>1. s \in Streams /\ s.out \in Seq(Frames) /\ SameCalls(s.tools, s.tools)
  BY StreamFields DEF GoesWell, SameCalls
<1>2. Wordless(s, s)
  BY <1>1, WordlessSame
<1>3. e.kind \in Kinds /\ e.kind # "tool" /\ e.args = <<>> /\ e.id \in Idents /\ -1 \in Int /\ NoId \in Idents /\ Text \in Idents
      /\ Reasoning \in Idents
  BY FixedNames DEF IsPlain, Kinds
<1>4. CASE e.kind = "usage"
  <2> DEFINE q == [s EXCEPT !.usage = TRUE]
  <2>1. StreamEvent(s, op, e) = q
    BY <1>4, Zenon DEF StreamEvent
  <2>2. q.out = s.out /\ q.tools = s.tools
    BY <1>1, StreamFields
  <2> HIDE DEF q
  <2>3. Wordless(s, q)
    BY <1>1, <2>2, WordlessSame
  <2> QED
    BY <2>1, <2>3
<1>5. CASE e.kind # "usage" /\ op = "chat"
  <2> DEFINE x == Frame("content", -1, NoId, <<>>)
  <2>1. StreamEvent(s, op, e) = Emit(s, <<x>>)
    BY <1>3, <1>5, Zenon DEF StreamEvent, ChatEvent
  <2>2. x \in Unheard
    BY <1>3, FrameUnheard DEF FrameTypes
  <2> HIDE DEF x
  <2> QED
    BY <1>1, <1>2, <2>1, <2>2, EmitMoreWordless
<1>6. CASE e.kind # "usage" /\ op = "responses"
  <2>1. StreamEvent(s, op, e) = ResponsesEvent(s, e)
    BY <1>6 DEF StreamEvent
  <2>2. CASE e.kind = "reasoning"
    <3> DEFINE b == EnsureReasoning(s)
               x == Frame("delta", b.reasoning, Reasoning, <<>>)
    <3>1. ResponsesEvent(s, e) = Emit(b, <<x>>)
      BY <2>2, Zenon DEF ResponsesEvent
    <3>2. GoesWell(b, op, pr) /\ b.reasoning \in Nat /\ Wordless(s, b)
      BY ReasoningGoesWell, ReasoningWordless
    <3> HIDE DEF b
    <3>3. b \in Streams /\ b.reasoning \in Int
      BY <3>2 DEF GoesWell
    <3>4. x \in Unheard
      BY <1>3, <3>3, FrameUnheard DEF FrameTypes
    <3> HIDE DEF x
    <3> QED
      BY <1>1, <2>1, <3>1, <3>2, <3>3, <3>4, EmitMoreWordless
  <2>3. CASE e.kind # "reasoning"
    <3> DEFINE b == EnsureText(s)
               x == Frame("delta", b.text, Text, <<>>)
    <3>0. e.kind \in {"text", "image", "video"}
      BY <1>3, <1>6, <2>3 DEF Kinds
    <3>1. ResponsesEvent(s, e) = Emit(b, <<x>>)
      BY <2>3, <1>3, <3>0, Zenon DEF ResponsesEvent
    <3>2. GoesWell(b, op, pr) /\ b.text \in Nat /\ Wordless(s, b)
      BY TextGoesWell, TextWordless
    <3> HIDE DEF b
    <3>3. b \in Streams /\ b.text \in Int
      BY <3>2 DEF GoesWell
    <3>4. x \in Unheard
      BY <1>3, <3>3, FrameUnheard DEF FrameTypes
    <3> HIDE DEF x
    <3> QED
      BY <1>1, <2>1, <3>1, <3>2, <3>3, <3>4, EmitMoreWordless
  <2> QED
    BY <2>2, <2>3
<1>7. CASE e.kind # "usage" /\ op = "messages"
  <2> DEFINE kind == IF e.kind \in {"image", "video"} THEN "text" ELSE e.kind
             fits == s.open /\ s.blockKind = kind /\ (kind = "tool" => s.blockTool = e.id)
             b == IF fits THEN s ELSE OpenBlock(s, kind, e.id)
             x == Frame("block_delta", b.blockIndex, e.id, e.args)
  <2>1. kind \in BlockKinds /\ kind # "tool"
    BY <1>3 DEF Kinds, BlockKinds
  <2>2. StreamEvent(s, op, e) = MessagesEvent(s, e)
    BY <1>7 DEF StreamEvent
  <2>3. MessagesEvent(s, e) = Emit(b, <<x>>)
    BY <2>1 DEF MessagesEvent
  <2>4. GoesWell(s, "messages", pr)
    BY <1>7
  <2> HIDE DEF kind
  <2>5. GoesWell(b, "messages", pr) /\ Wordless(s, b)
    <3>1. CASE fits
      BY <1>2, <2>4, <3>1
    <3>2. CASE ~fits
      BY <1>3, <2>1, <2>4, <3>2, OpenGoesWell, OpenWordless
    <3> QED
      BY <3>1, <3>2
  <2> HIDE DEF b
  <2>6. b \in Streams /\ b.blockIndex \in Int
    BY <2>5, StreamFields DEF GoesWell
  <2>7. x \in Unheard
    BY <1>3, <2>6, FrameUnheard DEF FrameTypes
  <2> HIDE DEF x
  <2> QED
    BY <1>1, <2>2, <2>3, <2>5, <2>6, <2>7, EmitMoreWordless
<1> QED
  BY <1>4, <1>5, <1>6, <1>7 DEF Conversational

\* Chat completions: a tool event is recorded, and said in one chunk.
LEMMA ChatSpeaks ==
  ASSUME NEW s, NEW pr, GoesWell(s, "chat", pr), Says(s, "chat", pr), NEW t \in Tools, NEW e \in AllEvents, IsToolEvent(e, pr, t)
  PROVE  Says(ChatEvent(s, e), "chat", pr) /\ Gets(s.tools, ChatEvent(s, e).tools, pr, e)
<1> DEFINE r == Record(s, e)
           id == IF r.fresh THEN e.id ELSE NoId
           x == Frame("tool_calls", r.n - 1, id, e.args)
           q == Emit(r.s, <<x>>)
<1>1. s \in Streams /\ Recorded(s.tools, s.keys, pr) /\ Listed(s.tools, pr) /\ ChatSays(s)
  BY DEF GoesWell, Says
<1>2. Records(s, e, pr, t, r)
  BY <1>1, RecordStep
<1>3. GoesWell(r.s, "chat", pr) /\ r.n \in Nat /\ e.id \in Idents /\ e.args \in Seq(Nat) /\ e.kind = "tool"
  BY RecordedCall
<1>4. Gains(s.tools, r.s.tools, pr, t, e.args) /\ r.s.out = s.out
  BY RecordGains
<1>5. ChatEvent(s, e) = q
  BY <1>3 DEF ChatEvent
<1> HIDE DEF r
<1>6. id \in Idents /\ r.n - 1 \in Int /\ r.s \in Streams
  BY <1>3, FixedNames DEF GoesWell
<1>7. x \in Frames /\ x.type = "tool_calls" /\ x.at = r.n - 1 /\ x.item = id /\ x.args = e.args
  BY <1>3, <1>6 DEF Frame, Frames, FrameTypes
<1> HIDE DEF x
<1>8. q.out = Append(s.out, x) /\ q.tools = r.s.tools
  BY <1>4, <1>6, <1>7, EmitFields
<1> HIDE DEF q
<1>9. ChatSays(q)
  BY <1>1, <1>2, <1>7, <1>8, ChatSaysMore
<1>10. q.out \in Seq(Frames)
  <2>1. PICK f \in Seq(Frames) : f = s.out
    BY DEF Says
  <2>2. Append(f, x) \in Seq(Frames)
    BY <1>7, <2>1
  <2> QED
    BY <1>8, <2>1, <2>2
<1>11. SameCalls(r.s.tools, q.tools)
  BY <1>8 DEF SameCalls
<1>12. Gets(s.tools, q.tools, pr, e)
  BY <1>1, <1>4, <1>11, ToolGets
<1> QED
  BY <1>5, <1>8, <1>9, <1>10, <1>12 DEF Says, Gains, Gets

\* Responses: it is recorded, its item is added if need be, and its arguments are said in a delta of that item.
LEMMA ResponsesSpeaks ==
  ASSUME NEW s, NEW pr, GoesWell(s, "responses", pr), Says(s, "responses", pr),
         NEW t \in Tools, NEW e \in AllEvents, IsToolEvent(e, pr, t)
  PROVE  Says(ResponsesEvent(s, e), "responses", pr) /\ Gets(s.tools, ResponsesEvent(s, e).tools, pr, e)
<1> DEFINE r == Record(s, e)
           a == AddedTool(r.s, r.n)
           i == r.s.tools[r.n].itemID
           x == Frame("delta", a.tools[r.n].outputIndex, i, e.args)
           q == ResponsesEvent(s, e)
<1>1. /\ GoesWell(r.s, "responses", pr) /\ r.n \in DOMAIN r.s.tools /\ i = ItemOf(pr, t)
      /\ ItemOf(pr, t) \in Idents /\ e.args \in Seq(Nat) /\ e.kind = "tool"
  BY RecordedCall
<1>2. Gains(s.tools, r.s.tools, pr, t, e.args) /\ r.s.out = s.out
  BY RecordGains
<1>3. GoesWell(a, "responses", pr) /\ a.tools[r.n].outputIndex \in Nat
  BY <1>1, ToolGoesWell
<1>4. Wordless(r.s, a)
  BY <1>1, AddedWordless
<1>5. q = ResponsesTool(s, e)
  BY <1>1, Zenon DEF ResponsesEvent
<1>6. ResponsesTool(s, e) = IF e.args = <<>> THEN a ELSE Emit(a, <<x>>)
  BY Zenon DEF ResponsesTool, AddedTool
<1> HIDE DEF a, r, q
<1>7. a \in Streams /\ a.tools[r.n].outputIndex \in Int
  BY <1>3 DEF GoesWell
<1>8. x \in Frames /\ x.type = "delta" /\ x.item = ItemOf(pr, t) /\ x.args = e.args
  BY <1>1, <1>7 DEF Frame, Frames, FrameTypes
<1> HIDE DEF x, i
<1>9. q.tools = a.tools /\ (q.out = Append(a.out, x) \/ (e.args = <<>> /\ q.out = a.out))
  BY <1>5, <1>6, <1>7, <1>8, EmitFields
<1>10. x.type \in {"delta", "block_delta"} /\ x.item = NameOf("responses", pr, t)
  BY <1>8 DEF NameOf
<1>11. Says(q, "responses", pr)
  <2>1. "responses" # "chat"
    OBVIOUS
  <2> DEFINE op == "responses"
  <2>2. Says(s, op, pr) /\ op # "chat" /\ x.item = NameOf(op, pr, t)
    BY <1>10, <2>1
  <2> HIDE DEF op
  <2>3. Says(q, op, pr)
    BY <1>1, <1>2, <1>4, <1>8, <1>9, <1>10, <2>2, OtherSaysMore
  <2> QED
    BY <2>3 DEF op
<1>12. Gets(s.tools, q.tools, pr, e)
  <2>1. SameCalls(r.s.tools, q.tools)
    BY <1>4, <1>9 DEF Wordless
  <2>2. Listed(s.tools, pr)
    BY DEF Says
  <2> QED
    BY <1>2, <2>1, <2>2, ToolGets
<1> QED
  BY <1>11, <1>12 DEF q

\* Messages: it is recorded, its block is opened if need be, and its arguments are said in a delta of that block.
LEMMA MessagesSpeaks ==
  ASSUME NEW s, NEW pr, GoesWell(s, "messages", pr), Says(s, "messages", pr),
         NEW t \in Tools, NEW e \in AllEvents, IsToolEvent(e, pr, t)
  PROVE  Says(MessagesEvent(s, e), "messages", pr) /\ Gets(s.tools, MessagesEvent(s, e).tools, pr, e)
<1> DEFINE r == Record(s, e).s
           fits == s.open /\ s.blockKind = "tool" /\ s.blockTool = e.id
           b == IF fits THEN r ELSE OpenBlock(r, "tool", e.id)
           x == Frame("block_delta", b.blockIndex, e.id, e.args)
           q == MessagesEvent(s, e)
<1>1. /\ GoesWell(r, "messages", pr) /\ e.id \in Idents /\ e.args \in Seq(Nat) /\ e.kind = "tool"
      /\ e.id = CallOf(pr, t)
  BY RecordedCall DEF IsToolEvent
<1>2. Gains(s.tools, r.tools, pr, t, e.args) /\ r.out = s.out
  BY RecordGains
<1>3. q = IF e.args = <<>> THEN b ELSE Emit(b, <<x>>)
  BY <1>1, Zenon DEF MessagesEvent
<1> HIDE DEF r, q
<1>4. b \in Streams /\ Wordless(r, b)
  <2>1. CASE fits
    <3>1. r \in Streams /\ r.out \in Seq(Frames) /\ SameCalls(r.tools, r.tools)
      BY <1>1, StreamFields DEF GoesWell, SameCalls
    <3>2. Wordless(r, r)
      BY <3>1, WordlessSame
    <3> QED
      BY <2>1, <3>1, <3>2
  <2>2. CASE ~fits
    <3>1. "tool" \in BlockKinds
      BY DEF BlockKinds
    <3>2. GoesWell(OpenBlock(r, "tool", e.id), "messages", pr)
      BY <1>1, <3>1, OpenGoesWell
    <3>3. Wordless(r, OpenBlock(r, "tool", e.id))
      BY <1>1, <3>1, OpenWordless
    <3> QED
      BY <2>2, <3>2, <3>3 DEF GoesWell
  <2> QED
    BY <2>1, <2>2
<1> HIDE DEF b
<1>5. b.blockIndex \in Int
  BY <1>4, StreamFields
<1>6. x \in Frames /\ x.type = "block_delta" /\ x.item = e.id /\ x.args = e.args
  BY <1>1, <1>5 DEF Frame, Frames, FrameTypes
<1> HIDE DEF x
<1>7. q.tools = b.tools /\ (q.out = Append(b.out, x) \/ (e.args = <<>> /\ q.out = b.out))
  BY <1>3, <1>4, <1>6, EmitFields
<1>8. x.type \in {"delta", "block_delta"} /\ x.item = NameOf("messages", pr, t)
  BY <1>1, <1>6 DEF NameOf
<1>9. Says(q, "messages", pr)
  <2>1. "messages" # "chat"
    OBVIOUS
  <2> DEFINE op == "messages"
  <2>2. Says(s, op, pr) /\ op # "chat" /\ x.item = NameOf(op, pr, t)
    BY <1>8, <2>1
  <2> HIDE DEF op
  <2>3. Says(q, op, pr)
    BY <1>1, <1>2, <1>4, <1>6, <1>7, <1>8, <2>2, OtherSaysMore
  <2> QED
    BY <2>3 DEF op
<1>10. Gets(s.tools, q.tools, pr, e)
  <2>1. SameCalls(r.tools, q.tools)
    BY <1>4, <1>7 DEF Wordless
  <2>2. Listed(s.tools, pr)
    BY DEF Says
  <2> QED
    BY <1>2, <2>1, <2>2, ToolGets
<1> QED
  BY <1>9, <1>10 DEF q

\* Every event of a stream is recorded and said.
LEMMA EventSpeaks ==
  ASSUME NEW s, NEW op \in Conversational, NEW pr, GoesWell(s, op, pr), Says(s, op, pr),
         NEW e \in AllEvents, IsEvent(e, pr), e.kind \notin {"error", "done"}
  PROVE  Says(StreamEvent(s, op, e), op, pr) /\ Gets(s.tools, StreamEvent(s, op, e).tools, pr, e)
<1>1. CASE IsPlain(e)
  <2> DEFINE q == StreamEvent(s, op, e)
  <2>1. Wordless(s, q)
    BY <1>1, PlainWordless
  <2> HIDE DEF q
  <2>2. SameCalls(s.tools, q.tools) /\ Listed(s.tools, pr)
    BY <2>1 DEF Wordless, Says
  <2>3. Says(q, op, pr)
    BY <2>1, SaysStill
  <2>4. Gets(s.tools, q.tools, pr, e)
    BY <1>1, <2>2, PlainGets
  <2> QED
    BY <2>3, <2>4 DEF q
<1>2. CASE \E t \in Tools : IsToolEvent(e, pr, t)
  <2>1. PICK t \in Tools : IsToolEvent(e, pr, t)
    BY <1>2
  <2>2. e.kind = "tool" /\ e.kind # "usage"
    BY <2>1 DEF IsToolEvent
  <2>3. CASE op = "chat"
    <3>1. StreamEvent(s, op, e) = ChatEvent(s, e)
      BY <2>2, <2>3, Zenon DEF StreamEvent
    <3> QED
      BY <2>1, <2>3, <3>1, ChatSpeaks
  <2>4. CASE op = "responses"
    <3>1. StreamEvent(s, op, e) = ResponsesEvent(s, e)
      BY <2>2, <2>4 DEF StreamEvent
    <3> QED
      BY <2>1, <2>4, <3>1, ResponsesSpeaks
  <2>5. CASE op = "messages"
    <3>1. StreamEvent(s, op, e) = MessagesEvent(s, e)
      BY <2>2, <2>5 DEF StreamEvent
    <3> QED
      BY <2>1, <2>5, <3>1, MessagesSpeaks
  <2> QED
    BY <2>3, <2>4, <2>5 DEF Conversational
<1> QED
  BY <1>1, <1>2 DEF IsEvent

\* A client hears of each tool call what the stream has recorded.
LEMMA SaysArguments ==
  ASSUME NEW s, NEW op, NEW pr, Says(s, op, pr), NEW t \in Tools, Has(s.tools, CallOf(pr, t))
  PROVE  ArgumentsOf(s.out, NameOf(op, pr, t)) = Args(s.tools, CallOf(pr, t))
<1> DEFINE f == s.out
           item == NameOf(op, pr, t)
           named == {f[i].at : i \in {j \in Occurs(f, "tool_calls") : f[j].item = item}}
<1>1. f \in Seq(Frames) /\ Listed(s.tools, pr)
  BY DEF Says
<1>2. ArgumentsOf(f, item) = Gathered(Hears(named, item), f)
  <2> DEFINE mine(x) == \/ x.type = "tool_calls" /\ x.at \in named
                        \/ x.type \in {"delta", "block_delta"} /\ x.item = item
             heard == [n \in DOMAIN f |-> IF mine(f[n]) THEN f[n].args ELSE <<>>]
  <2>1. \A n \in DOMAIN f : f[n] \in Frames
    BY <1>1
  <2> HIDE DEF f, named, item
  <2>2. \A n \in DOMAIN f : Hears(named, item)[f[n]] = IF mine(f[n]) THEN f[n].args ELSE <<>>
    <3> TAKE n \in DOMAIN f
    <3>1. PICK x \in Frames : x = f[n]
      BY <2>1
    <3>2. Hears(named, item)[x] = IF mine(x) THEN x.args ELSE <<>>
      BY DEF Hears
    <3> QED
      BY <3>1, <3>2
  <2>3. Mapped(Hears(named, item), f) = heard
    <3> HIDE DEF mine
    <3> QED
      BY <2>2 DEF Mapped
  <2>4. ArgumentsOf(f, item) = FlattenSeq(heard)
    BY Zenon DEF ArgumentsOf, named
  <2> QED
    BY <2>3, <2>4 DEF Gathered
<1>3. CASE op # "chat"
  <2>1. OtherSays(s, op, pr)
    BY <1>3 DEF Says
  <2>2. named = {}
    BY <2>1 DEF OtherSays
  <2> HIDE DEF named
  <2> QED
    BY <1>2, <2>1, <2>2 DEF OtherSays
<1>4. CASE op = "chat"
  <2>1. ChatSays(s) /\ item = CallOf(pr, t)
    BY <1>4 DEF Says, NameOf
  <2>2. PICK n \in DOMAIN s.tools : s.tools[n].id = item
    BY <2>1 DEF Has
  <2>3. n \in Nat /\ n >= 1 /\ Args(s.tools, item) = s.tools[n].args
    <3>1. n \in 1..Len(s.tools) /\ Len(s.tools) \in Nat
      BY <1>1 DEF Listed
    <3>2. Args(s.tools, s.tools[n].id) = s.tools[n].args
      BY <1>1, ArgsOfEntry
    <3> QED
      BY <2>2, <3>1, <3>2
  <2>4. item \in Idents /\ item # NoId
    <3>1. item \in Idents
      BY NamesOf
    <3>2. CallOf(pr, t)[1] \in {"call", "item"} /\ NoId[1] = ""
      BY DEF CallOf, Id, NoId
    <3> QED
      BY <2>1, <3>1, <3>2
  <2>5. ASSUME NEW i \in Occurs(f, "tool_calls"), f[i].item = item PROVE f[i].at = n - 1
    <3>1. f[i].at + 1 \in DOMAIN s.tools /\ s.tools[f[i].at + 1].id = item
      BY <2>1, <2>4, <2>5 DEF ChatSays
    <3>2. f[i].at + 1 = n
      BY <1>1, <2>2, <3>1 DEF Listed
    <3>3. f[i].at \in Int
      <4>1. f[i] \in Frames
        BY <1>1 DEF Occurs
      <4> QED
        BY <4>1 DEF Frames
    <3> QED
      BY <2>3, <3>2, <3>3
  <2>6. \E i \in Occurs(f, "tool_calls") : f[i].item = item
    BY <2>1, <2>2 DEF ChatSays
  <2>7. named = {n - 1}
    BY <2>5, <2>6
  <2>8. n - 1 \in Nat /\ n - 1 + 1 = n
    BY <2>3
  <2> HIDE DEF named, item, f
  <2>9. \A k \in Nat : Gathered(Hears({k}, item), f) = IF k + 1 \in DOMAIN s.tools THEN s.tools[k + 1].args ELSE <<>>
    BY <2>1, <2>4 DEF ChatSays, f
  <2>10. Gathered(Hears({n - 1}, item), f) = s.tools[n].args
    BY <2>2, <2>8, <2>9
  <2> QED
    BY <1>2, <2>1, <2>3, <2>7, <2>10 DEF f, item
<1> QED
  BY <1>3, <1>4

\* A stream begins without tool calls, and so does a document.
LEMMA NothingSaid ==
  ASSUME NEW op, NEW pr
  PROVE  /\ Says(NewStream, op, pr) /\ NoAnswer \in Documents
         /\ NewStream.tools = <<>> /\ NoAnswer.tools = <<>> /\ Listed(<<>>, pr)
         /\ \A id : ~Has(<<>>, id) /\ Args(<<>>, id) = <<>>
<1>1. NewStream.tools = <<>> /\ NewStream.out = <<>> /\ NoAnswer.tools = <<>>
  BY DEF NewStream, NoAnswer
<1>2. NoAnswer \in Documents
  BY DEF NoAnswer, Documents
<1>3. Listed(<<>>, pr) /\ \A id : ~Has(<<>>, id) /\ Args(<<>>, id) = <<>>
  BY DEF Listed, Has, Args
<1>4. <<>> \in Seq(Frames) /\ Occurs(<<>>, "tool_calls") = {}
  BY NoFrames
<1>5. DOMAIN <<>> = {}
  OBVIOUS
<1>6. ChatSays(NewStream)
  <2>1. \A k \in Nat, name \in Idents : Gathered(Hears({k}, name), NewStream.out) =
            IF k + 1 \in DOMAIN NewStream.tools THEN NewStream.tools[k + 1].args ELSE <<>>
    BY <1>1, <1>5, GatherNothing
  <2> QED
    BY <1>1, <1>4, <1>5, <2>1 DEF ChatSays
<1>7. OtherSays(NewStream, op, pr)
  BY <1>1, <1>3, <1>4, GatherNothing DEF OtherSays
<1> QED
  BY <1>1, <1>2, <1>3, <1>4, <1>6, <1>7 DEF Says

-----------------------------------------------------------------------------
(* What is on its way to a list of tool calls.                             *)

\* An event in w is about the call with this id.
Spoken(w, id) == \E i \in DOMAIN w : Mine(w[i], id)

(* The calls listed in tools and the events in w, which they still have to get, are together all that the upstream
   has said of its tool calls. *)
Bears(tools, w, pr, pg) ==
  /\ Listed(tools, pr) /\ w \in Seq(Events(pr))
  /\ \A t \in Tools :
       /\ Args(tools, CallOf(pr, t)) \o Gathered(Arguments(CallOf(pr, t)), w) = Upto(pg[t])
       /\ pg[t] >= 0 <=> Has(tools, CallOf(pr, t)) \/ Spoken(w, CallOf(pr, t))

\* Nothing is said of a tool call in w.
NoTool(w) == \A i \in DOMAIN w : w[i].kind # "tool"

\* An event is heard as a sequence of fragments.
LEMMA ArgumentsMap == \A id : Maps(Arguments(id), AllEvents, Nat)
<1> SUFFICES ASSUME NEW id PROVE Maps(Arguments(id), AllEvents, Nat)
  OBVIOUS
<1>1. <<>> \in Seq(Nat)
  OBVIOUS
<1>2. \A e \in AllEvents : e.args \in Seq(Nat)
  BY DEF AllEvents
<1> QED
  BY <1>1, <1>2 DEF Maps, Arguments

\* The events of a provider are events.
LEMMA OfProvider == ASSUME NEW pr, NEW w \in Seq(Events(pr)) PROVE w \in Seq(AllEvents)
<1>1. Events(pr) \subseteq AllEvents
  BY DEF Events
<1> HIDE DEF Events
<1> QED
  BY <1>1

\* What is spoken of in two sequences, one after the other, and in the first event and the others.
LEMMA SpokenJoin ==
  ASSUME NEW w \in Seq(AllEvents), NEW v \in Seq(AllEvents), NEW id
  PROVE  Spoken(w \o v, id) <=> Spoken(w, id) \/ Spoken(v, id)
<1> DEFINE u == w \o v
<1>1. /\ u \in Seq(AllEvents) /\ Len(u) = Len(w) + Len(v) /\ Len(w) \in Nat /\ Len(v) \in Nat
      /\ \A i \in 1..(Len(w) + Len(v)) : u[i] = IF i <= Len(w) THEN w[i] ELSE v[i - Len(w)]
  BY JoinFacts
<1>2. DOMAIN u = 1..(Len(w) + Len(v)) /\ DOMAIN w = 1..Len(w) /\ DOMAIN v = 1..Len(v)
  BY <1>1
<1> HIDE DEF u
<1>3. ASSUME Spoken(u, id) PROVE Spoken(w, id) \/ Spoken(v, id)
  <2>1. PICK i \in DOMAIN u : Mine(u[i], id)
    BY <1>3 DEF Spoken
  <2>2. CASE i <= Len(w)
    <3>1. i \in DOMAIN w /\ u[i] = w[i]
      BY <1>1, <1>2, <2>1, <2>2
    <3> QED
      BY <2>1, <3>1 DEF Spoken
  <2>3. CASE ~(i <= Len(w))
    <3>1. i - Len(w) \in DOMAIN v /\ u[i] = v[i - Len(w)]
      BY <1>1, <1>2, <2>1, <2>3
    <3> QED
      BY <2>1, <3>1 DEF Spoken
  <2> QED
    BY <2>2, <2>3
<1>4. ASSUME Spoken(w, id) PROVE Spoken(u, id)
  <2>1. PICK i \in DOMAIN w : Mine(w[i], id)
    BY <1>4 DEF Spoken
  <2>2. i \in DOMAIN u /\ u[i] = w[i]
    BY <1>1, <1>2, <2>1
  <2> QED
    BY <2>1, <2>2 DEF Spoken
<1>5. ASSUME Spoken(v, id) PROVE Spoken(u, id)
  <2>1. PICK i \in DOMAIN v : Mine(v[i], id)
    BY <1>5 DEF Spoken
  <2>2. i + Len(w) \in DOMAIN u /\ u[i + Len(w)] = v[i]
    BY <1>1, <1>2, <2>1
  <2> QED
    BY <2>1, <2>2 DEF Spoken
<1> QED
  BY <1>3, <1>4, <1>5 DEF u

\* So much of what is spoken of in one event, and in none.
LEMMA SpokenOnce == \A id : ~Spoken(<<>>, id) /\ \A e : Spoken(<<e>>, id) <=> Mine(e, id)
<1>1. DOMAIN <<>> = {}
  OBVIOUS
<1>2. \A e : DOMAIN <<e>> = {1} /\ <<e>>[1] = e
  OBVIOUS
<1> QED
  BY <1>1, <1>2 DEF Spoken

\* Events that are not about a tool call say nothing.
LEMMA NoToolSilent ==
  ASSUME NEW w \in Seq(AllEvents), NoTool(w), NEW id
  PROVE  Gathered(Arguments(id), w) = <<>> /\ ~Spoken(w, id)
<1>1. \A i \in DOMAIN w : w[i] \in AllEvents /\ ~Mine(w[i], id)
  BY DEF NoTool, Mine
<1> DEFINE h == Arguments(id)
<1>2. \A i \in DOMAIN w : h[w[i]] = <<>>
  BY <1>1 DEF Arguments
<1>3. Maps(h, AllEvents, Nat)
  BY ArgumentsMap
<1> HIDE DEF h
<1>4. Gathered(h, w) = <<>>
  BY <1>2, <1>3, GatherSilence
<1> QED
  BY <1>1, <1>4 DEF Spoken, h

\* An event is taken from the sequence and recorded.
LEMMA BearsTaken ==
  ASSUME NEW tools, NEW w, NEW pr, NEW pg, Bears(tools, w, pr, pg), w # <<>>, NEW more, Gets(tools, more, pr, Head(w))
  PROVE  Bears(more, Tail(w), pr, pg)
<1> DEFINE e == Head(w)
           v == Tail(w)
<1>1. w \in Seq(AllEvents) /\ w \in Seq(Events(pr))
  BY OfProvider DEF Bears
<1>2. e \in AllEvents /\ v \in Seq(AllEvents) /\ v \in Seq(Events(pr)) /\ <<e>> \in Seq(AllEvents) /\ w = <<e>> \o v
  <2> HIDE DEF Events
  <2> QED
    BY <1>1
<1>3. Gets(tools, more, pr, e) /\ Listed(tools, pr) /\ Listed(more, pr)
  BY DEF Bears, Gets
<1> HIDE DEF e, v
<1>4. ASSUME NEW t \in Tools
      PROVE  /\ Args(more, CallOf(pr, t)) \o Gathered(Arguments(CallOf(pr, t)), v) = Upto(pg[t])
             /\ pg[t] >= 0 <=> Has(more, CallOf(pr, t)) \/ Spoken(v, CallOf(pr, t))
  <2> DEFINE c == CallOf(pr, t)
             h == Arguments(c)
             a == Args(tools, c)
             x == h[e]
             y == Gathered(h, v)
  <2>1. Maps(h, AllEvents, Nat)
    BY ArgumentsMap
  <2>2. a \in Seq(Nat)
    BY <1>3, ArgsType
  <2>3. Args(more, c) = a \o x /\ (Has(more, c) <=> Has(tools, c) \/ Mine(e, c))
    BY <1>3 DEF Gets
  <2>4. a \o Gathered(h, w) = Upto(pg[t]) /\ (pg[t] >= 0 <=> Has(tools, c) \/ Spoken(w, c))
    BY DEF Bears
  <2>5. Spoken(w, c) <=> Mine(e, c) \/ Spoken(v, c)
    BY <1>2, SpokenJoin, SpokenOnce
  <2> HIDE DEF c, h
  <2>6. Gathered(h, w) = x \o y
    BY <1>1, <1>2, <2>1, GatherTail DEF e, v
  <2>7. x \in Seq(Nat) /\ y \in Seq(Nat)
    BY <1>2, <2>1, MapsTo, MappedType
  <2> HIDE DEF a, x, y
  <2>8. (a \o x) \o y = a \o (x \o y)
    BY <2>2, <2>7
  <2>9. Args(more, c) \o y = Upto(pg[t])
    BY <2>3, <2>4, <2>6, <2>8
  <2> QED
    BY <2>3, <2>4, <2>5, <2>9 DEF c, h, y
<1> QED
  BY <1>2, <1>3, <1>4 DEF Bears, v

\* More events of the upstream, and what they say.
LEMMA BearsMore ==
  ASSUME NEW tools, NEW w, NEW pr, NEW pg, Bears(tools, w, pr, pg), NEW v \in Seq(Events(pr)), NEW more,
         \A t \in Tools :
           /\ Upto(more[t]) = Upto(pg[t]) \o Gathered(Arguments(CallOf(pr, t)), v)
           /\ more[t] >= 0 <=> pg[t] >= 0 \/ Spoken(v, CallOf(pr, t))
  PROVE  Bears(tools, w \o v, pr, more)
<1>1. w \in Seq(AllEvents) /\ w \in Seq(Events(pr)) /\ v \in Seq(AllEvents) /\ Listed(tools, pr)
  BY OfProvider DEF Bears
<1>2. w \o v \in Seq(Events(pr))
  <2> HIDE DEF Events
  <2> QED
    BY <1>1
<1>3. ASSUME NEW t \in Tools
      PROVE  /\ Args(tools, CallOf(pr, t)) \o Gathered(Arguments(CallOf(pr, t)), w \o v) = Upto(more[t])
             /\ more[t] >= 0 <=> Has(tools, CallOf(pr, t)) \/ Spoken(w \o v, CallOf(pr, t))
  <2> DEFINE c == CallOf(pr, t)
             h == Arguments(c)
             a == Args(tools, c)
             x == Gathered(h, w)
             y == Gathered(h, v)
  <2>1. Maps(h, AllEvents, Nat)
    BY ArgumentsMap
  <2>2. a \in Seq(Nat)
    BY <1>1, ArgsType
  <2>3. a \o x = Upto(pg[t]) /\ (pg[t] >= 0 <=> Has(tools, c) \/ Spoken(w, c))
    BY DEF Bears
  <2>4. Upto(more[t]) = Upto(pg[t]) \o y /\ (more[t] >= 0 <=> pg[t] >= 0 \/ Spoken(v, c))
    OBVIOUS
  <2>5. Spoken(w \o v, c) <=> Spoken(w, c) \/ Spoken(v, c)
    BY <1>1, SpokenJoin
  <2> HIDE DEF c, h
  <2>6. Gathered(h, w \o v) = x \o y
    <3>1. HearsParts(h, AllEvents)
      BY <2>1, PartsHeard
    <3> QED
      BY <1>1, <3>1 DEF HearsParts
  <2>7. x \in Seq(Nat) /\ y \in Seq(Nat)
    BY <1>1, <2>1, MappedType
  <2> HIDE DEF a, x, y
  <2>8. (a \o x) \o y = a \o (x \o y)
    BY <2>2, <2>7
  <2>9. a \o Gathered(h, w \o v) = Upto(more[t])
    BY <2>3, <2>4, <2>6, <2>8
  <2> QED
    BY <2>3, <2>4, <2>5, <2>9 DEF c, h, a
<1> QED
  BY <1>1, <1>2, <1>3 DEF Bears

\* What a pace shows is a sequence of fragments.
LEMMA UptoType == \A k \in Int : Upto(k) \in Seq(Nat) /\ Upto(k) \o <<>> = Upto(k)
<1> SUFFICES ASSUME NEW k \in Int PROVE Upto(k) \in Seq(Nat) /\ Upto(k) \o <<>> = Upto(k)
  OBVIOUS
<1> DEFINE n == Shown(k)
<1>1. n \in Nat
  BY GatewayAssumption DEF Shown
<1> HIDE DEF n
<1> DEFINE u == [i \in 1..n |-> i]
<1>2. u \in Seq(Nat)
  BY <1>1
<1> HIDE DEF u
<1>3. u \o <<>> = u
  BY <1>2
<1> QED
  BY <1>2, <1>3 DEF Upto, u, n

\* Events that are not about a tool call change nothing.
LEMMA BearsPlain ==
  ASSUME NEW tools, NEW w, NEW pr, NEW pg \in [Tools -> Int], Bears(tools, w, pr, pg), NEW v \in Seq(Events(pr)), NoTool(v)
  PROVE  Bears(tools, w \o v, pr, pg)
<1>1. v \in Seq(AllEvents)
  BY OfProvider
<1>2. ASSUME NEW t \in Tools
      PROVE  /\ Upto(pg[t]) = Upto(pg[t]) \o Gathered(Arguments(CallOf(pr, t)), v)
             /\ pg[t] >= 0 <=> pg[t] >= 0 \/ Spoken(v, CallOf(pr, t))
  <2>1. Gathered(Arguments(CallOf(pr, t)), v) = <<>> /\ ~Spoken(v, CallOf(pr, t))
    BY <1>1, NoToolSilent
  <2>2. Upto(pg[t]) = Upto(pg[t]) \o <<>>
    BY UptoType
  <2> QED
    BY <2>1, <2>2
<1> QED
  BY <1>2, BearsMore

\* The events v say of tool call t what is new when it has come to k.
SaysNew(v, pr, pg, t, k) ==
  \/ v = <<>> /\ pg[t] >= 0 /\ Upto(k) = Upto(pg[t])
  \/ \E e : v = <<e>> /\ e \in AllEvents /\ IsToolEvent(e, pr, t) /\ Upto(k) = Upto(pg[t]) \o e.args

\* A message about a tool call, passed on as it should be.
LEMMA BearsTool ==
  ASSUME NEW tools, NEW w, NEW pr, NEW pg \in [Tools -> Int], Bears(tools, w, pr, pg), NEW t \in Tools, NEW k \in Nat, NEW v,
         SaysNew(v, pr, pg, t, k)
  PROVE  Bears(tools, w \o v, pr, [pg EXCEPT ![t] = k]) /\ v \in Seq(Events(pr))
<1> DEFINE more == [pg EXCEPT ![t] = k]
<1>0. more[t] = k /\ \A u \in Tools : u # t => more[u] = pg[u]
  OBVIOUS
<1> HIDE DEF more
<1>1. CASE v = <<>> /\ pg[t] >= 0 /\ Upto(k) = Upto(pg[t])
  <2>1. v \in Seq(Events(pr))
    BY <1>1, NothingUnderway
  <2>2. ASSUME NEW u \in Tools
        PROVE  /\ Upto(more[u]) = Upto(pg[u]) \o Gathered(Arguments(CallOf(pr, u)), v)
               /\ more[u] >= 0 <=> pg[u] >= 0 \/ Spoken(v, CallOf(pr, u))
    <3>1. Gathered(Arguments(CallOf(pr, u)), v) = <<>> /\ ~Spoken(v, CallOf(pr, u))
      BY <1>1, GatherNothing, SpokenOnce
    <3>2. Upto(pg[u]) \o <<>> = Upto(pg[u])
      BY UptoType
    <3>3. Upto(more[u]) = Upto(pg[u]) /\ (more[u] >= 0 <=> pg[u] >= 0)
      BY <1>0, <1>1
    <3> QED
      BY <3>1, <3>2, <3>3
  <2>3. Bears(tools, w \o v, pr, more)
    BY <2>1, <2>2, BearsMore
  <2> QED
    BY <2>1, <2>3 DEF more
<1>2. CASE \E e : v = <<e>> /\ e \in AllEvents /\ IsToolEvent(e, pr, t) /\ Upto(k) = Upto(pg[t]) \o e.args
  <2>1. PICK e \in AllEvents : v = <<e>> /\ IsToolEvent(e, pr, t) /\ Upto(k) = Upto(pg[t]) \o e.args
    BY <1>2
  <2>2. v \in Seq(Events(pr))
    <3>1. e \in Events(pr)
      BY <2>1, EventKinds
    <3> HIDE DEF Events
    <3> QED
      BY <2>1, <3>1
  <2>3. ASSUME NEW u \in Tools
        PROVE  /\ Upto(more[u]) = Upto(pg[u]) \o Gathered(Arguments(CallOf(pr, u)), v)
               /\ more[u] >= 0 <=> pg[u] >= 0 \/ Spoken(v, CallOf(pr, u))
    <3> DEFINE h == Arguments(CallOf(pr, u))
    <3>1. Maps(h, AllEvents, Nat)
      BY ArgumentsMap
    <3>2. Mine(e, CallOf(pr, u)) <=> u = t
      BY <2>1, Names DEF Mine, IsToolEvent
    <3>3. h[e] = IF u = t THEN e.args ELSE <<>>
      BY <3>2 DEF Arguments
    <3> HIDE DEF h
    <3>4. Gathered(h, v) = IF u = t THEN e.args ELSE <<>>
      BY <2>1, <3>1, <3>3, GatherOne
    <3>5. Spoken(v, CallOf(pr, u)) <=> u = t
      BY <2>1, <3>2, SpokenOnce
    <3>6. Upto(pg[u]) \o <<>> = Upto(pg[u])
      BY UptoType
    <3>7. Upto(more[u]) = Upto(pg[u]) \o Gathered(h, v)
      BY <1>0, <2>1, <3>4, <3>6
    <3>8. more[u] >= 0 <=> pg[u] >= 0 \/ u = t
      BY <1>0
    <3> QED
      BY <3>5, <3>7, <3>8 DEF h
  <2>4. Bears(tools, w \o v, pr, more)
    BY <2>2, <2>3, BearsMore
  <2> QED
    BY <2>2, <2>4 DEF more
<1> QED
  BY <1>1, <1>2 DEF SaysNew

\* When nothing on its way is about a tool call, all calls have arrived.
LEMMA BearsAll ==
  ASSUME NEW tools, NEW w, NEW pr, NEW pg, Bears(tools, w, pr, pg), NoTool(w)
  PROVE  Bears(tools, <<>>, pr, pg)
<1>1. w \in Seq(AllEvents) /\ Listed(tools, pr)
  BY OfProvider DEF Bears
<1>2. ASSUME NEW t \in Tools
      PROVE  /\ Args(tools, CallOf(pr, t)) \o Gathered(Arguments(CallOf(pr, t)), <<>>) = Upto(pg[t])
             /\ pg[t] >= 0 <=> Has(tools, CallOf(pr, t)) \/ Spoken(<<>>, CallOf(pr, t))
  <2>1. Gathered(Arguments(CallOf(pr, t)), w) = <<>> /\ ~Spoken(w, CallOf(pr, t))
    BY <1>1, NoToolSilent
  <2>2. Gathered(Arguments(CallOf(pr, t)), <<>>) = <<>> /\ ~Spoken(<<>>, CallOf(pr, t))
    BY GatherNothing, SpokenOnce
  <2> QED
    BY <2>1, <2>2 DEF Bears
<1> QED
  BY <1>1, <1>2, NothingUnderway DEF Bears

\* Before the upstream has said anything there is nothing to carry.
LEMMA BearsNothing ==
  ASSUME NEW pr, NEW pg, \A t \in Tools : pg[t] = -1
  PROVE  Bears(<<>>, <<>>, pr, pg)
<1>1. Listed(<<>>, pr) /\ \A id : ~Has(<<>>, id) /\ Args(<<>>, id) = <<>>
  BY NothingSaid
<1>2. Upto(-1) = <<>>
  BY DEF Upto, Shown
<1>3. <<>> \o <<>> = <<>>
  OBVIOUS
<1>4. \A id : Gathered(Arguments(id), <<>>) = <<>> /\ ~Spoken(<<>>, id)
  BY GatherNothing, SpokenOnce
<1>5. ASSUME NEW t \in Tools
      PROVE  /\ Args(<<>>, CallOf(pr, t)) \o Gathered(Arguments(CallOf(pr, t)), <<>>) = Upto(pg[t])
             /\ pg[t] >= 0 <=> Has(<<>>, CallOf(pr, t)) \/ Spoken(<<>>, CallOf(pr, t))
  <2>1. pg[t] = -1 /\ ~(pg[t] >= 0)
    OBVIOUS
  <2> QED
    BY <1>1, <1>2, <1>3, <1>4, <2>1
<1> QED
  BY <1>1, <1>5, NothingUnderway DEF Bears

\* An event goes from one sequence to the end of the other.
LEMMA PassedOver ==
  ASSUME NEW X, NEW q \in Seq(X), NEW p \in Seq(X), p # <<>>
  PROVE  Append(q, Head(p)) \o Tail(p) = q \o p /\ Append(q, Head(p)) \in Seq(X) /\ Tail(p) \in Seq(X)
OBVIOUS

\* The first event of what is on its way.
LEMMA FirstOfTwo ==
  ASSUME NEW X, NEW q \in Seq(X), NEW p \in Seq(X), q # <<>>
  PROVE  /\ q \o p # <<>> /\ Head(q \o p) = Head(q) /\ Tail(q \o p) = Tail(q) \o p
         /\ Head(q) \in X /\ Tail(q) \in Seq(X)
OBVIOUS

-----------------------------------------------------------------------------
(* The tool calls of the request.                                          *)

\* Nothing is said of a tool call after the end of the answer, which is the end of the upstream.
InOrder(w, over) ==
  /\ \A i, j \in DOMAIN w : i < j /\ w[i].kind = "done" => w[j].kind # "tool"
  /\ (\E i \in DOMAIN w : w[i].kind = "done") => over

\* Answer, channel and producer hold what the upstream has said of its tool calls, each of it once.
OnTheWay ==
  /\ upstream \in Upstreams /\ channel \in Seq(Events(req.provider)) /\ producer \in {"read", "last", "closed"}
  /\ producer = "closed" => pending = <<>>
  /\ producer = "read" /\ parser.done => upstream.over
  /\ Bears(answer.tools, channel \o pending, req.provider, upstream.progress)
  /\ pc = "collect" => answer \in Documents
  /\ pc # "collect" => /\ req.stream /\ Says(answer, req.op, req.provider)
                       /\ InOrder(channel \o pending, upstream.over)

\* The answer holds all of it, and the upstream says no more.
Arrived ==
  /\ upstream \in Upstreams /\ producer \in {"read", "last", "closed"} /\ (upstream.over \/ producer = "closed")
  /\ Bears(answer.tools, <<>>, req.provider, upstream.progress)
  /\ req.stream => Says(answer, req.op, req.provider)

Delivery ==
  /\ pc \in Trying => req.provider = Usual
  /\ req.op \in Conversational /\ ~canceled =>
       /\ pc \in {"start", "stream", "collect"} => OnTheWay
       /\ pc = "settle" /\ outcome = "ok" => Arrived

-----------------------------------------------------------------------------
(* The tool calls of a document.                                           *)

\* What is not spoken of is not heard.
LEMMA NotSpoken ==
  ASSUME NEW w \in Seq(AllEvents), NEW id, ~Spoken(w, id)
  PROVE  Gathered(Arguments(id), w) = <<>>
<1> DEFINE h == Arguments(id)
<1>1. \A i \in DOMAIN w : w[i] \in AllEvents /\ ~Mine(w[i], id)
  BY DEF Spoken
<1>2. \A i \in DOMAIN w : h[w[i]] = <<>>
  BY <1>1 DEF Arguments
<1>3. Maps(h, AllEvents, Nat)
  BY ArgumentsMap
<1> HIDE DEF h
<1>4. Gathered(h, w) = <<>>
  BY <1>2, <1>3, GatherSilence
<1> QED
  BY <1>4 DEF h

\* DeduplicateMedia drops nothing that is about a tool call.
LEMMA DeduplicateHeard ==
  ASSUME NEW w \in Seq(AllEvents), NEW id
  PROVE  Gathered(Arguments(id), DeduplicateMedia(w)) = Gathered(Arguments(id), w)
<1> DEFINE h == Arguments(id)
           drop(i) == w[i].kind \in {"image", "video"} /\ \E j \in 1..(i - 1) : w[j] = w[i]
           parts == [i \in DOMAIN w |-> IF drop(i) THEN <<>> ELSE <<w[i]>>]
<1>1. Maps(h, AllEvents, Nat)
  BY ArgumentsMap
<1>2. Len(w) \in Nat /\ DOMAIN w = 1..Len(w) /\ \A i \in DOMAIN w : w[i] \in AllEvents
  OBVIOUS
<1>3. \A i \in DOMAIN w : drop(i) => h[w[i]] = <<>>
  BY <1>2 DEF Arguments, Mine
<1>4. DeduplicateMedia(w) = FlattenSeq(parts)
  BY Zenon DEF DeduplicateMedia
<1> HIDE DEF h, drop
<1>5. parts \in Seq(Seq(AllEvents)) /\ Len(parts) = Len(w)
  BY <1>2
<1>6. ASSUME NEW i \in DOMAIN w PROVE Gathered(h, parts[i]) = h[w[i]]
  <2>1. CASE drop(i)
    <3>1. parts[i] = <<>>
      BY <2>1
    <3> QED
      BY <1>3, <2>1, <3>1, GatherNothing
  <2>2. CASE ~drop(i)
    <3>1. parts[i] = <<w[i]>>
      BY <2>2
    <3> QED
      BY <1>1, <1>2, <3>1, GatherOne
  <2> QED
    BY <2>1, <2>2
<1> HIDE DEF parts
<1>7. Gathered(h, FlattenSeq(parts)) = Gathered(h, w)
  BY <1>1, <1>5, <1>6, GatherFlat
<1> QED
  BY <1>4, <1>7 DEF h

\* The event of an item of a document.
LEMMA OutputSays ==
  ASSUME NEW body \in Bodies, NEW m \in Range(body.output)
  PROVE  \E e \in Events(Usual) :
           /\ OutputEvents(m) = <<e>>
           /\ m.type = "itemDone" => m.tool \in Tools /\ e.args = All /\ \A id : Mine(e, id) <=> id = CallOf(Usual, m.tool)
           /\ m.type # "itemDone" => \A id : ~Mine(e, id)
<1>1. /\ m.type \in {"reasoningDelta", "textDelta", "imageDone", "itemDone"} /\ m.url \in Nat
      /\ m.type = "itemDone" => m.tool \in Tools /\ m.args = All /\ Usual.item \subseteq m.has
  BY BodiesAssumption
<1>2. ASSUME NEW e \in PlainEvents, e.kind # "tool" PROVE e \in Events(Usual) /\ \A id : ~Mine(e, id)
  BY <1>2, EventKinds DEF Mine
<1>3. CASE m.type = "itemDone"
  <2> DEFINE t == m.tool
             e == [Event("tool") EXCEPT !.id = FirstOf(Field(m, "call"), Field(m, "item")),
                                        !.itemID = Field(m, "item"), !.args = m.args]
  <2>1. t \in Tools /\ m.args = All /\ "item" \in m.has /\ "call" \in m.has
    BY <1>1, <1>3 DEF Usual
  <2>2. Field(m, "call") = Id("call", t) /\ Field(m, "item") = Id("item", t)
    BY <2>1 DEF Field
  <2>3. Id("call", t) # NoId
    BY DEF Id, NoId
  <2>4. CallOf(Usual, t) = Id("call", t) /\ ItemOf(Usual, t) = Id("item", t)
    BY DEF CallOf, ItemOf, Usual
  <2>5. FirstOf(Field(m, "call"), Field(m, "item")) = CallOf(Usual, t)
    BY <2>2, <2>3, <2>4 DEF FirstOf
  <2>6. OutputEvents(m) = <<e>>
    BY <1>3, Zenon DEF OutputEvents
  <2>7. e = [kind |-> "tool", id |-> CallOf(Usual, t), itemID |-> ItemOf(Usual, t), args |-> All, url |-> 0]
    <3> DEFINE base == Event("tool")
               call == FirstOf(Field(m, "call"), Field(m, "item"))
               item == Field(m, "item")
               args == m.args
    <3>1. base = [kind |-> "tool", id |-> NoId, itemID |-> NoId, args |-> <<>>, url |-> 0]
      BY DEF Event
    <3>2. call = CallOf(Usual, t) /\ item = ItemOf(Usual, t) /\ args = All
      BY <2>1, <2>2, <2>4, <2>5
    <3>3. e = [base EXCEPT !.id = call, !.itemID = item, !.args = args]
      OBVIOUS
    <3> HIDE DEF base, call, item, args, e, t
    <3> QED
      BY <3>1, <3>2, <3>3
  <2> HIDE DEF e, t
  <2>8. CallOf(Usual, t) \in Idents /\ ItemOf(Usual, t) \in Idents
    BY <2>1, Names
  <2>9. All \in Seq(Nat)
    BY GatewayAssumption DEF All
  <2>10. e \in AllEvents
    BY <2>7, <2>8, <2>9 DEF AllEvents, BlockKinds
  <2>11. e.kind = "tool" /\ e.id = CallOf(Usual, t) /\ e.itemID = ItemOf(Usual, t) /\ e.args = All
    BY <2>7
  <2>12. IsToolEvent(e, Usual, t)
    BY <2>9, <2>11 DEF IsToolEvent
  <2>13. e \in Events(Usual)
    BY <2>1, <2>10, <2>12, EventKinds
  <2>14. \A id : Mine(e, id) <=> id = CallOf(Usual, t)
    BY <2>11 DEF Mine
  <2> QED
    BY <1>3, <2>1, <2>6, <2>11, <2>13, <2>14 DEF t
<1>4. CASE m.type \in {"reasoningDelta", "textDelta"}
  <2>1. PICK kind \in {"reasoning", "text"} : OutputEvents(m) = <<Event(kind)>>
    BY <1>4, Zenon DEF OutputEvents
  <2>2. Event(kind) \in PlainEvents /\ Event(kind).kind = kind
    BY PlainEvent DEF Kinds, Event
  <2> QED
    BY <1>2, <1>4, <2>1, <2>2
<1>5. CASE m.type = "imageDone"
  <2>1. OutputEvents(m) = <<Picture(m.url)>>
    BY <1>5, Zenon DEF OutputEvents
  <2>3. Picture(m.url) \in PlainEvents
    BY <1>1, PictureEvent DEF PassingEvents
  <2>4. Picture(m.url).kind # "tool"
    BY DEF Picture, Event
  <2> QED
    BY <1>2, <1>5, <2>1, <2>3, <2>4
<1> QED
  BY <1>1, <1>3, <1>4, <1>5

\* A sequence of which no event is about a call says nothing of it, whatever is flattened or dropped on the way.
LEMMA OthersOnly ==
  ASSUME NEW id, NEW w \in Seq({e \in AllEvents : ~Mine(e, id)})
  PROVE  ~Spoken(w, id)
<1>1. \A i \in DOMAIN w : w[i] \in {e \in AllEvents : ~Mine(e, id)}
  OBVIOUS
<1> QED
  BY <1>1 DEF Spoken

\* The events of the items of a document say all of its tool calls, and each of them once.
LEMMA ItemsBear ==
  ASSUME NEW body \in Bodies, NEW pg,
         pg = [t \in Tools |-> IF \E i \in DOMAIN body.output : body.output[i].tool = t /\ body.output[i].type = "itemDone"
                               THEN Fragments + 2 ELSE -1]
  PROVE  Bears(<<>>, DeduplicateMedia(FlattenSeq([i \in DOMAIN body.output |-> OutputEvents(body.output[i])])), Usual, pg)
<1> DEFINE o == body.output
           seqs == [i \in DOMAIN o |-> OutputEvents(o[i])]
           q == [i \in DOMAIN o |-> OutputEvents(o[i])[1]]
           f == FlattenSeq(seqs)
           d == DeduplicateMedia(f)
           called(t, i) == o[i].tool = t /\ o[i].type = "itemDone"
<1>1. /\ Len(o) \in Nat /\ DOMAIN o = 1..Len(o) /\ \A i \in DOMAIN o : o[i] \in Range(o)
      /\ \A i, j \in DOMAIN o : o[i].type = "itemDone" /\ o[j].type = "itemDone" /\ o[i].tool = o[j].tool => i = j
  <2>1. PICK w \in Seq(Range(o)) : w = o
    BY BodiesAssumption
  <2>2. Len(w) \in Nat /\ DOMAIN w = 1..Len(w) /\ \A i \in DOMAIN w : w[i] \in Range(o)
    BY <2>1
  <2> QED
    BY <2>1, <2>2, BodiesAssumption
<1>2. ASSUME NEW i \in DOMAIN o
      PROVE  /\ seqs[i] = <<q[i]>> /\ q[i] \in Events(Usual)
             /\ o[i].type = "itemDone" => /\ o[i].tool \in Tools /\ q[i].args = All
                                          /\ \A id : Mine(q[i], id) <=> id = CallOf(Usual, o[i].tool)
             /\ o[i].type # "itemDone" => \A id : ~Mine(q[i], id)
  <2> DEFINE m == o[i]
  <2>1. m \in Range(body.output)
    BY <1>1
  <2>2. PICK e \in Events(Usual) :
           /\ OutputEvents(m) = <<e>>
           /\ m.type = "itemDone" => m.tool \in Tools /\ e.args = All /\ \A id : Mine(e, id) <=> id = CallOf(Usual, m.tool)
           /\ m.type # "itemDone" => \A id : ~Mine(e, id)
    BY <2>1, OutputSays
  <2> HIDE DEF Events
  <2>3. seqs[i] = <<e>> /\ q[i] = e
    BY <2>2
  <2> QED
    BY <2>2, <2>3, Zenon DEF m
<1> HIDE DEF seqs, q
<1>3. q \in Seq(Events(Usual)) /\ Len(q) = Len(o) /\ DOMAIN q = DOMAIN o
  <2>1. q = [i \in 1..Len(o) |-> q[i]]
    BY <1>1 DEF q
  <2>2. \A i \in 1..Len(o) : q[i] \in Events(Usual)
    BY <1>1, <1>2
  <2> HIDE DEF Events, o
  <2> QED
    BY <1>1, <2>1, <2>2
<1>4. Len(seqs) = Len(o) /\ DOMAIN seqs = DOMAIN o
  BY <1>1 DEF seqs
<1>5. ASSUME NEW X, \A i \in DOMAIN o : q[i] \in X PROVE seqs \in Seq(Seq(X)) /\ f \in Seq(X) /\ d \in Seq(X)
  <2>1. \A i \in DOMAIN o : seqs[i] \in Seq(X)
    BY <1>2, <1>5
  <2>2. seqs \in Seq(Seq(X))
    <3>1. seqs = [i \in 1..Len(o) |-> seqs[i]]
      BY <1>1 DEF seqs
    <3> HIDE DEF o
    <3> QED
      BY <1>1, <2>1, <3>1
  <2>3. f \in Seq(X)
    BY <2>2, FlatType
  <2> HIDE DEF f
  <2>4. d \in Seq(X)
    BY <2>3, DeduplicateType
  <2> QED
    BY <2>2, <2>3, <2>4
<1>6. d \in Seq(Events(Usual)) /\ d \in Seq(AllEvents) /\ f \in Seq(AllEvents) /\ seqs \in Seq(Seq(AllEvents)) /\ q \in Seq(AllEvents)
  <2>1. Events(Usual) \subseteq AllEvents
    BY DEF Events
  <2>2. \A i \in DOMAIN o : q[i] \in Events(Usual) /\ q[i] \in AllEvents
    BY <1>2, <2>1
  <2>3. q \in Seq(AllEvents)
    BY <1>3, OfProvider
  <2> HIDE DEF f, d, Events
  <2> QED
    BY <1>5, <2>2, <2>3
<1> HIDE DEF o, f, d
<1>7. ASSUME NEW t \in Tools
      PROVE  /\ Args(<<>>, CallOf(Usual, t)) \o Gathered(Arguments(CallOf(Usual, t)), d) = Upto(pg[t])
             /\ pg[t] >= 0 <=> Has(<<>>, CallOf(Usual, t)) \/ Spoken(d, CallOf(Usual, t))
  <2> DEFINE c == CallOf(Usual, t)
             h == Arguments(c)
  <2>1. Maps(h, AllEvents, Nat)
    BY ArgumentsMap
  <2>2. Args(<<>>, c) = <<>> /\ ~Has(<<>>, c)
    BY NothingSaid
  <2>3. Gathered(h, d) = Gathered(h, f)
    BY <1>6, DeduplicateHeard DEF d
  <2>4. \A i \in DOMAIN o : Mine(q[i], c) <=> called(t, i)
    BY <1>2, Names
  <2>5. \A i \in DOMAIN o : h[q[i]] = IF called(t, i) THEN All ELSE <<>>
    <3> TAKE i \in DOMAIN o
    <3>1. q[i] \in AllEvents
      BY <1>3, <1>6
    <3>2. h[q[i]] = IF Mine(q[i], c) THEN q[i].args ELSE <<>>
      BY <3>1 DEF Arguments
    <3> QED
      BY <1>2, <2>4, <3>2
  <2> HIDE DEF h, c
  <2>6. Gathered(h, f) = Gathered(h, q)
    <3>1. \A i \in DOMAIN q : q[i] \in AllEvents
      BY <1>6
    <3>2. \A i \in DOMAIN q : Gathered(h, seqs[i]) = h[q[i]]
      <4> TAKE i \in DOMAIN q
      <4>1. seqs[i] = <<q[i]>> /\ q[i] \in AllEvents
        BY <1>2, <1>3, <3>1
      <4> QED
        BY <2>1, <4>1, GatherOne
    <3>3. Len(q) = Len(seqs)
      BY <1>3, <1>4
    <3>4. seqs \in Seq(Seq(AllEvents)) /\ q \in Seq(AllEvents)
      BY <1>6
    <3>5. Gathered(h, FlattenSeq(seqs)) = Gathered(h, q)
      BY <2>1, <3>2, <3>3, <3>4, GatherFlat
    <3> QED
      BY <3>5 DEF f
  <2>7. CASE \E i \in DOMAIN o : called(t, i)
    <3>1. PICK n \in DOMAIN o : called(t, n)
      BY <2>7
    <3>2. n \in DOMAIN q /\ \A i \in DOMAIN q : i # n => h[q[i]] = <<>>
      BY <1>1, <1>3, <2>5, <3>1 DEF o
    <3>3. Gathered(h, q) = All
      <4>1. Gathered(h, q) = h[q[n]]
        BY <1>6, <2>1, <3>2, GatherSolo
      <4> QED
        BY <2>5, <3>1, <4>1
    <3>4. pg[t] = Fragments + 2 /\ pg[t] >= 0
      BY <2>7, GatewayAssumption DEF o
    <3>5. Upto(Fragments + 2) = All
      BY GatewayAssumption DEF Upto, Shown, All
    <3>6. <<>> \o All = All
      <4>1. All \in Seq(Nat)
        BY GatewayAssumption DEF All
      <4> QED
        BY <4>1
    <3>7. All # <<>>
      BY GatewayAssumption DEF All
    <3>8. Spoken(d, c)
      <4>1. Gathered(h, d) # <<>>
        BY <2>3, <2>6, <3>3, <3>7
      <4> QED
        BY <1>6, <4>1, NotSpoken DEF h
    <3> QED
      BY <2>2, <2>3, <2>6, <3>3, <3>4, <3>5, <3>6, <3>8 DEF h, c
  <2>8. CASE ~\E i \in DOMAIN o : called(t, i)
    <3>1. pg[t] = -1 /\ ~(pg[t] >= 0)
      BY <2>8 DEF o
    <3>2. Upto(-1) = <<>> /\ <<>> \o <<>> = <<>>
      BY DEF Upto, Shown
    <3>3. ~Spoken(d, c)
      <4> DEFINE X == {e \in AllEvents : ~Mine(e, c)}
      <4>1. \A i \in DOMAIN o : q[i] \in X
        <5>1. \A i \in DOMAIN o : q[i] \in AllEvents
          BY <1>3, <1>6
        <5> QED
          BY <2>4, <2>8, <5>1
      <4> HIDE DEF X
      <4>2. d \in Seq(X)
        BY <1>5, <4>1
      <4> QED
        BY <4>2, OthersOnly DEF X
    <3>4. Gathered(h, d) = <<>>
      BY <1>6, <3>3, NotSpoken DEF h
    <3> QED
      BY <2>2, <3>1, <3>2, <3>3, <3>4 DEF h, c
  <2> QED
    BY <2>7, <2>8
<1>8. Listed(<<>>, Usual)
  BY NothingSaid
<1>9. Bears(<<>>, d, Usual, pg)
  BY <1>6, <1>7, <1>8 DEF Bears
<1> QED
  BY <1>9 DEF d, f, seqs, o

\* The events of a document say all of its tool calls, and each of them once.
LEMMA DocumentBears ==
  ASSUME NEW body \in Bodies, NEW pg,
         pg = [t \in Tools |-> IF \E i \in DOMAIN body.output : body.output[i].tool = t /\ body.output[i].type = "itemDone"
                               THEN Fragments + 2 ELSE -1]
  PROVE  Bears(<<>>, ParseNonStream(body), Usual, pg) /\ pg \in [Tools -> Paces]
<1>1. pg \in [Tools -> Paces] /\ pg \in [Tools -> Int]
  <2>1. -1 \in Paces /\ Fragments + 2 \in Paces /\ Paces \subseteq Int
    BY GatewayAssumption DEF Paces
  <2> QED
    BY <2>1
<1>2. ASSUME NEW kind \in {"error", "done", "usage"}
      PROVE  <<Event(kind)>> \in Seq(Events(Usual)) /\ NoTool(<<Event(kind)>>)
  <2> DEFINE e == Event(kind)
  <2>1. e \in Events(Usual)
    BY PlainEvent, EventKinds DEF Kinds
  <2>2. e.kind # "tool"
    BY DEF Event
  <2> HIDE DEF e, Events
  <2>3. <<e>> \in Seq(Events(Usual)) /\ DOMAIN <<e>> = {1} /\ <<e>>[1] = e
    BY <2>1
  <2> QED
    BY <2>2, <2>3 DEF NoTool, e
<1> DEFINE end == <<Event("done")>>
           broken == <<Event("error")>>
           said == Reported(body)
           d == DeduplicateMedia(FlattenSeq([i \in DOMAIN body.output |-> OutputEvents(body.output[i])]))
<1>3. /\ end \in Seq(Events(Usual)) /\ NoTool(end)
      /\ broken \in Seq(Events(Usual)) /\ NoTool(broken)
  BY <1>2
<1>4. said \in Seq(Events(Usual)) /\ NoTool(said)
  <2>1. CASE body.usage
    BY <1>2, <2>1 DEF Reported
  <2>2. CASE ~body.usage
    <3>1. said = <<>> /\ DOMAIN <<>> = {}
      BY <2>2 DEF Reported
    <3> QED
      BY <3>1, NothingUnderway DEF NoTool
  <2> QED
    BY <2>1, <2>2
<1>5. Bears(<<>>, d, Usual, pg)
  BY ItemsBear
<1>6. ParseNonStream(body) = IF body.type = "malformed" THEN broken ELSE d \o said \o end
  BY DEF ParseNonStream
<1> HIDE DEF end, broken, said, d
<1>7. CASE body.type = "malformed"
  <2>1. \A t \in Tools : pg[t] = -1
    <3>1. body.output = <<>> /\ DOMAIN <<>> = {}
      BY <1>7, BodiesAssumption
    <3> QED
      BY <3>1
  <2>2. Bears(<<>>, <<>>, Usual, pg)
    BY <2>1, BearsNothing
  <2>3. Bears(<<>>, <<>> \o broken, Usual, pg)
    BY <1>1, <1>3, <2>2, BearsPlain
  <2>4. <<>> \o broken = broken
    <3> HIDE DEF Events
    <3> QED
      BY <1>3
  <2> QED
    BY <1>1, <1>6, <1>7, <2>3, <2>4
<1>8. CASE body.type # "malformed"
  <2>1. Bears(<<>>, d \o said, Usual, pg)
    BY <1>1, <1>4, <1>5, BearsPlain
  <2>2. Bears(<<>>, (d \o said) \o end, Usual, pg)
    BY <1>1, <1>3, <2>1, BearsPlain
  <2> QED
    BY <1>1, <1>6, <1>8, <2>2
<1> QED
  BY <1>7, <1>8

\* Nothing has been said before the first step.
LEMMA DeliveryInit == Init => Delivery
<1> SUFFICES ASSUME Init PROVE Delivery
  OBVIOUS
<1>1. pc = "check"
  BY DEF Init
<1>2. req.provider = Usual
  <2>1. PICK op \in Ops, stream \in BOOLEAN, b64 \in BOOLEAN :
          req = [op |-> op, stream |-> stream, b64 |-> b64, provider |-> Usual]
    BY DEF Init
  <2> QED
    BY <2>1
<1> QED
  BY <1>1, <1>2 DEF Delivery

\* The steps that leave the calls and what is underway alone, and make no answer complete.
Passive ==
  /\ Quiet
  /\ canceled => canceled'
  /\ pc' = "settle" /\ pc # "settle" => outcome' # "ok"
  /\ pc = "settle" => outcome' = outcome

\* They leave what has been delivered alone.
LEMMA PassiveDelivery == Delivery /\ Passive => Delivery'
<1> SUFFICES ASSUME Delivery, Passive PROVE Delivery'
  OBVIOUS
<1>1. /\ req' = req /\ answer' = answer /\ producer' = producer /\ upstream' = upstream /\ parser' = parser
      /\ pending' = pending /\ channel' = channel
  BY DEF Passive, Quiet
<1>2. /\ pc' \in Trying => pc \in Trying
      /\ pc' \in {"start", "stream", "collect"} => pc' = pc
      /\ pc' = "settle" /\ outcome' = "ok" => pc = "settle" /\ outcome = "ok"
      /\ ~canceled' => ~canceled
  BY DEF Passive, Quiet, Over, Trying, Calling, CallOut
<1>3. pc' \in Trying => req'.provider = Usual
  BY <1>1, <1>2 DEF Delivery
<1>4. ASSUME req'.op \in Conversational, ~canceled', pc' \in {"start", "stream", "collect"} PROVE OnTheWay'
  <2>1. OnTheWay /\ pc' = pc
    BY <1>1, <1>2, <1>4 DEF Delivery
  <2> QED
    BY <1>1, <2>1 DEF OnTheWay
<1>5. ASSUME req'.op \in Conversational, ~canceled', pc' = "settle", outcome' = "ok" PROVE Arrived'
  <2>1. Arrived
    BY <1>1, <1>2, <1>5 DEF Delivery
  <2> QED
    BY <1>1, <2>1 DEF Arrived
<1> QED
  BY <1>3, <1>4, <1>5 DEF Delivery

\* The steps that are passive.
LEMMA PassiveSteps ==
  ASSUME \/ RefuseBody \/ RefuseModel \/ RefusePayload \/ Accept \/ Acquire \/ NoAccountLeft
         \/ ProxyResolved \/ ProxyFails \/ Send \/ UploadEnds \/ UploadsJoined \/ PostCreated
         \/ DoFails \/ DoUnauthorized \/ Refreshed \/ RefreshFails \/ DoRetryable \/ DoRejects
         \/ Reject \/ StreamCanceled \/ BodyFails \/ BodyImage
         \/ StartPolling \/ KeepWithoutPolling \/ Cancel
         \/ (Video /\ UNCHANGED <<handlerVars, streamVars, canceled>>) \/ UNCHANGED vars
  PROVE  Passive
<1>0. Quiet
  BY QuietSteps, Zenon
<1> USE <1>0 DEF Passive
<1>1. CASE RefuseBody \/ RefuseModel \/ RefusePayload
  BY <1>1 DEF RefuseBody, RefuseModel, RefusePayload, Refused
<1>2. CASE Accept
  BY <1>2 DEF Accept
<1>3. CASE Acquire
  BY <1>3 DEF Acquire
<1>4. CASE NoAccountLeft
  BY <1>4 DEF NoAccountLeft, Fails
<1>5. CASE ProxyResolved
  BY <1>5 DEF ProxyResolved
<1>6. ASSUME NEW excluded, NEW err, NEW feedback, NextAttempt(excluded, err, feedback), pc # "settle" PROVE Passive
  BY <1>6 DEF NextAttempt, Fails
<1>7. CASE ProxyFails \/ DoFails \/ Refreshed \/ RefreshFails
  BY <1>6, <1>7 DEF ProxyFails, DoFails, Refreshed, RefreshFails
<1>8. CASE DoRetryable
  BY <1>6, <1>8 DEF DoRetryable, Answered
<1>9. CASE Send
  BY <1>9 DEF Send
<1>10. CASE UploadEnds
  BY <1>10 DEF UploadEnds, handlerVars
<1>11. CASE UploadsJoined
  BY <1>11 DEF UploadsJoined, Joined
<1>12. CASE PostCreated
  BY <1>12 DEF PostCreated
<1>13. CASE DoUnauthorized
  BY <1>13 DEF DoUnauthorized
<1>14. CASE DoRejects
  BY <1>14 DEF DoRejects, Answered
<1>15. CASE Reject
  BY <1>15 DEF Reject
<1>16. CASE StreamCanceled
  BY <1>16 DEF StreamCanceled, StreamEnds
<1>17. CASE BodyFails
  BY <1>17 DEF BodyFails
<1>18. CASE BodyImage
  BY <1>18 DEF BodyImage, BodyWritten
<1>19. CASE StartPolling
  BY <1>19 DEF StartPolling
<1>20. CASE KeepWithoutPolling
  BY <1>20 DEF KeepWithoutPolling, BodyWritten
<1>21. CASE Cancel
  BY <1>21 DEF Cancel, handlerVars
<1>22. CASE Video /\ UNCHANGED <<handlerVars, streamVars, canceled>>
  BY <1>22 DEF handlerVars
<1>23. CASE UNCHANGED vars
  BY <1>23 DEF vars, handlerVars
<1> QED
  BY <1>1, <1>2, <1>3, <1>4, <1>5, <1>7, <1>8, <1>9, <1>10, <1>11, <1>12, <1>13, <1>14, <1>15, <1>16, <1>17,
     <1>18, <1>19, <1>20, <1>21, <1>22, <1>23

\* A step to a place where nothing is on its way and no answer is complete.
LEMMA ElsewhereDelivery ==
  ASSUME pc' \notin Trying, pc' \notin {"start", "stream", "collect"}, pc' # "settle" \/ outcome' # "ok"
  PROVE  Delivery'
BY DEF Delivery

\* A step of an operation without tool calls.
LEMMA WordlessDelivery ==
  ASSUME pc' \notin Trying, req'.op \notin Conversational \/ canceled'
  PROVE  Delivery'
BY DEF Delivery

\* A step while tool calls are on their way.
LEMMA WayDelivery ==
  ASSUME pc' \in {"start", "stream", "collect"}, OnTheWay'
  PROVE  Delivery'
BY DEF Delivery, Trying, Calling, CallOut

\* The end of the answer, and the death of the process.
LEMMA SettleDelivery == Settle \/ Die => Delivery'
<1> SUFFICES ASSUME Settle \/ Die PROVE Delivery'
  OBVIOUS
<1>1. pc' \in Over
  BY DEF Settle, Die, Over
<1> QED
  BY <1>1, ElsewhereDelivery DEF Over, Trying, Calling, CallOut

\* With nothing on its way everything is in order.
LEMMA NothingInOrder == \A over : InOrder(<<>>, over)
BY DEF InOrder

\* An upstream that answers with a stream begins with nothing said.
LEMMA StreamsDelivery ==
  ASSUME Streaming, Channel, DoStreams
  PROVE  Delivery'
<1>1. /\ pc = "upstream" /\ producer' = "read" /\ pc' = (IF req.stream THEN "start" ELSE "collect")
      /\ answer' = (IF req.stream THEN NewStream ELSE NoAnswer)
      /\ upstream' = upstream /\ parser' = parser /\ pending' = pending /\ channel' = channel
  BY DEF DoStreams
<1>2. PICK provider \in Providers : req' = [req EXCEPT !.provider = provider]
  BY DEF DoStreams
<1>3. pc \in Trying
  BY <1>1 DEF Trying, Calling, CallOut
<1>4. parser = NewParser /\ upstream = Silent /\ pending = <<>> /\ channel = <<>>
  BY <1>3 DEF Streaming, Idle, Channel
<1>5. upstream' \in Upstreams /\ (\A t \in Tools : upstream'.progress[t] = -1) /\ ~parser'.done
  BY <1>1, <1>4, SilentPaces DEF NewParser
<1>6. req'.stream = req.stream
  BY <1>2 DEF Streaming, Requests
<1>7. answer'.tools = <<>>
  BY <1>1 DEF NewStream, NoAnswer
<1>8. <<>> \o <<>> = <<>>
  OBVIOUS
<1>9. Bears(answer'.tools, channel' \o pending', req'.provider, upstream'.progress)
  BY <1>1, <1>4, <1>5, <1>7, <1>8, BearsNothing
<1>10. channel' \in Seq(Events(req'.provider)) /\ InOrder(channel' \o pending', upstream'.over)
  BY <1>1, <1>4, <1>8, NothingUnderway, NothingInOrder
<1>11. /\ pc' = "collect" => answer' \in Documents
       /\ pc' # "collect" => req'.stream /\ Says(answer', req'.op, req'.provider)
  BY <1>1, <1>6, NothingSaid
<1>12. OnTheWay'
  BY <1>1, <1>5, <1>9, <1>10, <1>11 DEF OnTheWay
<1> QED
  BY <1>1, <1>12, WayDelivery

\* A document is on its way as a whole.
LEMMA DocumentDelivery ==
  ASSUME Streaming, Channel, Delivery, DoDocument
  PROVE  Delivery'
<1>1. /\ pc = "upstream" /\ producer' = "closed" /\ answer' = NoAnswer /\ parser' = parser /\ pending' = pending /\ req' = req
      /\ ~req.stream
  BY DEF DoDocument
<1>2. PICK body \in Bodies :
        /\ LET events == req.op \in Conversational \/ body.type = "malformed"
           IN  /\ channel' = IF events THEN ParseNonStream(body) ELSE <<>>
               /\ pc' = IF events THEN "collect" ELSE "body"
        /\ upstream' = [Silent EXCEPT !.progress = [t \in Tools |->
                         IF \E i \in DOMAIN body.output : body.output[i].tool = t /\ body.output[i].type = "itemDone"
                         THEN Fragments + 2 ELSE -1]]
  BY Zenon DEF DoDocument
<1>3. pc' \in {"collect", "body"} /\ pc' \notin Trying
  BY <1>2 DEF Trying, Calling, CallOut
<1>4. CASE req.op \notin Conversational
  BY <1>1, <1>3, <1>4, WordlessDelivery
<1>5. CASE req.op \in Conversational
  <2> DEFINE pg == [t \in Tools |-> IF \E i \in DOMAIN body.output : body.output[i].tool = t /\ body.output[i].type = "itemDone"
                                    THEN Fragments + 2 ELSE -1]
  <2>1. channel' = ParseNonStream(body) /\ pc' = "collect"
    BY <1>2, <1>5
  <2>2. Bears(<<>>, ParseNonStream(body), Usual, pg) /\ pg \in [Tools -> Paces]
    BY DocumentBears
  <2>3. upstream' = [Silent EXCEPT !.progress = pg]
    BY <1>2
  <2> HIDE DEF pg
  <2>4. upstream' \in Upstreams /\ upstream'.progress = pg
    BY <2>2, <2>3, SilentPaces DEF Upstreams
  <2>5. pc \in Trying
    BY <1>1 DEF Trying, Calling, CallOut
  <2>6. pending' = <<>> /\ req'.provider = Usual
    BY <1>1, <2>5 DEF Streaming, Idle, Delivery
  <2>7. channel' \in Seq(Events(Usual))
    BY <2>1, <2>2 DEF Bears
  <2>8. channel' \o <<>> = channel'
    <3> HIDE DEF Events
    <3> QED
      BY <2>7
  <2>9. answer'.tools = <<>> /\ answer' \in Documents
    BY <1>1, NothingSaid DEF NoAnswer
  <2>10. Bears(answer'.tools, channel' \o pending', req'.provider, upstream'.progress)
    BY <2>1, <2>2, <2>4, <2>6, <2>8, <2>9
  <2>11. OnTheWay'
    BY <1>1, <2>1, <2>4, <2>6, <2>7, <2>9, <2>10 DEF OnTheWay
  <2> QED
    BY <2>1, <2>11, WayDelivery
<1> QED
  BY <1>4, <1>5

\* The pictures of a WebSocket are no tool calls.
LEMMA PicturesDelivery ==
  ASSUME Streaming, Channel, Delivery, DoImagine \/ ReadFrame \/ ReadFrameFails
  PROVE  Delivery'
<1>1. CASE DoImagine
  <2>1. req.op = "image" /\ req' = req /\ pc' = "collect"
    BY <1>1 DEF DoImagine
  <2> QED
    BY <2>1, WordlessDelivery DEF Trying, Calling, CallOut, Conversational
<1>2. CASE ReadFrame \/ ReadFrameFails
  <2>1. PICK step : ImagineStep(step)
    BY <1>2, Zenon DEF ReadFrame, ReadFrameFails
  <2>2. producer = "imagine" /\ UNCHANGED handlerVars /\ canceled' = canceled
    BY <2>1 DEF ImagineStep
  <2>3. req' = req /\ pc' = pc /\ outcome' = outcome
    BY <2>2 DEF handlerVars
  <2>4. pc \notin Trying
    BY <2>2 DEF Channel
  <2>5. CASE req.op \notin Conversational \/ canceled
    BY <2>2, <2>3, <2>4, <2>5, WordlessDelivery
  <2>6. CASE req.op \in Conversational /\ ~canceled
    <3>1. pc \notin {"start", "stream", "collect"}
      BY <2>2, <2>6 DEF Delivery, OnTheWay
    <3>2. CASE pc = "settle" /\ outcome = "ok"
      <4>1. producer # "imagine"
        BY <2>6, <3>2 DEF Delivery, Arrived
      <4> QED
        BY <2>2, <4>1
    <3>3. CASE ~(pc = "settle" /\ outcome = "ok")
      BY <2>3, <2>4, <3>1, <3>3, ElsewhereDelivery
    <3> QED
      BY <3>2, <3>3
  <2> QED
    BY <2>5, <2>6
<1> QED
  BY <1>1, <1>2

\* What the goroutine makes of what is on its way.
Carried ==
  /\ upstream' \in Upstreams /\ channel' \in Seq(Events(req.provider))
  /\ producer' = "closed" => pending' = <<>>
  /\ producer' = "read" /\ parser'.done => upstream'.over
  /\ Bears(answer.tools, channel' \o pending', req.provider, upstream'.progress)
  /\ pc # "collect" => InOrder(channel' \o pending', upstream'.over)

\* A step of the goroutine that reads the upstream.
LEMMA ReaderDelivery ==
  ASSUME Delivery, Channel, producer \in {"read", "last"}, producer' \in {"read", "last", "closed"},
         UNCHANGED <<handlerVars, canceled>>,
         OnTheWay /\ ~RequestDone => Carried,
         upstream \in Upstreams /\ upstream.over => upstream' \in Upstreams /\ upstream'.over /\ upstream'.progress = upstream.progress
  PROVE  Delivery'
<1>1. pc \notin Trying
  BY DEF Channel
<1>2. req' = req /\ pc' = pc /\ answer' = answer /\ outcome' = outcome /\ canceled' = canceled
  BY DEF handlerVars
<1>3. CASE req.op \notin Conversational \/ canceled
  BY <1>1, <1>2, <1>3, WordlessDelivery
<1>4. CASE req.op \in Conversational /\ ~canceled
  <2>1. CASE pc \in {"start", "stream", "collect"}
    <3>1. OnTheWay /\ ~RequestDone
      BY <1>4, <2>1 DEF Delivery, RequestDone
    <3>2. Carried
      BY <3>1
    <3>3. OnTheWay'
      BY <1>2, <3>1, <3>2 DEF OnTheWay, Carried
    <3> QED
      BY <1>2, <2>1, <3>3, WayDelivery
  <2>2. CASE pc = "settle" /\ outcome = "ok"
    <3>1. Arrived
      BY <1>4, <2>2 DEF Delivery
    <3>2. Arrived'
      BY <1>2, <3>1 DEF Arrived
    <3> QED
      BY <1>2, <2>2, <3>2 DEF Delivery, Trying, Calling, CallOut
  <2>3. CASE pc \notin {"start", "stream", "collect"} /\ ~(pc = "settle" /\ outcome = "ok")
    BY <1>1, <1>2, <2>3, ElsewhereDelivery
  <2> QED
    BY <2>1, <2>2, <2>3
<1> QED
  BY <1>3, <1>4

\* What is on its way consists of events.
LEMMA WayEvents ==
  ASSUME Streaming, OnTheWay
  PROVE  /\ channel \in Seq(Events(req.provider)) /\ pending \in Seq(Events(req.provider))
         /\ channel \in Seq(AllEvents) /\ pending \in Seq(AllEvents)
BY OfProvider DEF Streaming, Underway, OnTheWay

\* The order is kept by events that are not about a tool call, and before the end by those that do not end the answer.
LEMMA OrderKept ==
  ASSUME NEW w \in Seq(AllEvents), NEW v \in Seq(AllEvents), NEW over, NEW more, InOrder(w, over), over => more,
         NoTool(v) \/ ~over,
         more \/ \A i \in DOMAIN v : v[i].kind # "done",
         \A i, j \in DOMAIN v : i < j /\ v[i].kind = "done" => v[j].kind # "tool"
  PROVE  InOrder(w \o v, more)
<1> DEFINE u == w \o v
<1>1. /\ u \in Seq(AllEvents) /\ Len(u) = Len(w) + Len(v) /\ Len(w) \in Nat /\ Len(v) \in Nat
      /\ \A i \in 1..(Len(w) + Len(v)) : u[i] = IF i <= Len(w) THEN w[i] ELSE v[i - Len(w)]
  BY JoinFacts
<1>2. DOMAIN u = 1..(Len(w) + Len(v)) /\ DOMAIN w = 1..Len(w) /\ DOMAIN v = 1..Len(v)
  BY <1>1
<1> HIDE DEF u
<1>3. \A i \in DOMAIN u : \/ i \in DOMAIN w /\ u[i] = w[i]
                          \/ i \notin DOMAIN w /\ i - Len(w) \in DOMAIN v /\ u[i] = v[i - Len(w)]
  BY <1>1, <1>2
<1>4. ASSUME NEW i \in DOMAIN u, NEW j \in DOMAIN u, i < j, u[i].kind = "done" PROVE u[j].kind # "tool"
  <2>1. CASE i \in DOMAIN w /\ j \in DOMAIN w
    <3>1. u[i] = w[i] /\ u[j] = w[j]
      BY <1>3, <2>1
    <3> QED
      BY <1>4, <2>1, <3>1 DEF InOrder
  <2>2. CASE i \in DOMAIN w /\ j \notin DOMAIN w
    <3>1. u[i] = w[i] /\ j - Len(w) \in DOMAIN v /\ u[j] = v[j - Len(w)]
      BY <1>3, <2>2
    <3>2. over
      BY <1>4, <2>2, <3>1 DEF InOrder
    <3> QED
      BY <3>1, <3>2 DEF NoTool
  <2>3. CASE i \notin DOMAIN w
    <3>1. /\ i - Len(w) \in DOMAIN v /\ u[i] = v[i - Len(w)]
          /\ j - Len(w) \in DOMAIN v /\ u[j] = v[j - Len(w)]
          /\ i - Len(w) < j - Len(w)
      BY <1>1, <1>2, <1>3, <1>4, <2>3
    <3> QED
      BY <1>4, <3>1
  <2> QED
    BY <2>1, <2>2, <2>3
<1>5. ASSUME NEW i \in DOMAIN u, u[i].kind = "done" PROVE more
  <2>1. CASE i \in DOMAIN w
    <3>1. u[i] = w[i]
      BY <1>3, <2>1
    <3> QED
      BY <1>5, <2>1, <3>1 DEF InOrder
  <2>2. CASE i \notin DOMAIN w
    BY <1>3, <1>5, <2>2
  <2> QED
    BY <2>1, <2>2
<1> QED
  BY <1>4, <1>5 DEF InOrder, u

\* An upstream has a pace for every tool.
LEMMA PacesAreNumbers == ASSUME upstream \in Upstreams PROVE upstream.progress \in [Tools -> Paces] /\ upstream.progress \in [Tools -> Int]
<1>1. Paces \subseteq Int
  BY GatewayAssumption DEF Paces
<1> QED
  BY <1>1 DEF Upstreams

\* Reading ends, an event is put into the channel, the channel is closed.
LEMMA CarryDelivery ==
  ASSUME Delivery, Streaming, Channel, ReadEnds \/ SendEvent \/ CloseChannel \/ ProducerStops
  PROVE  Delivery'
<1> DEFINE pr == req.provider
           E == Events(pr)
<1>1. /\ producer \in {"read", "last"} /\ producer' \in {"read", "last", "closed"} /\ upstream' = upstream
      /\ UNCHANGED <<handlerVars, canceled>> /\ (producer' = "read" => producer = "read" /\ parser' = parser)
  BY DEF ReadEnds, SendEvent, CloseChannel, ProducerStops
<1>2. ASSUME OnTheWay, ~RequestDone PROVE Carried
  <2>1. channel \in Seq(E) /\ pending \in Seq(E) /\ channel \in Seq(AllEvents) /\ pending \in Seq(AllEvents)
    BY <1>2, WayEvents
  <2>2. /\ upstream' \in Upstreams
        /\ producer' = "read" /\ parser'.done => upstream'.over
    BY <1>1, <1>2 DEF OnTheWay
  <2>3. /\ Bears(answer.tools, channel \o pending, pr, upstream.progress)
        /\ pc # "collect" => InOrder(channel \o pending, upstream.over)
    BY <1>2 DEF OnTheWay
  <2>4. CASE SendEvent
    <3>1. channel' = Append(channel, Head(pending)) /\ pending' = Tail(pending) /\ pending # <<>> /\ producer' # "closed"
      BY <2>4 DEF SendEvent
    <3> HIDE DEF E
    <3>2. channel' \in Seq(E) /\ channel' \o pending' = channel \o pending
      BY <2>1, <3>1, PassedOver
    <3> QED
      BY <1>1, <2>2, <2>3, <3>1, <3>2 DEF Carried, E
  <2>5. CASE CloseChannel \/ (ReadEnds /\ producer' = "closed")
    <3>1. channel' = channel /\ pending = <<>> /\ pending' = <<>>
      BY <2>5 DEF CloseChannel, ReadEnds
    <3> QED
      BY <1>1, <2>1, <2>2, <2>3, <3>1 DEF Carried
  <2>6. CASE ReadEnds /\ producer' # "closed"
    <3> DEFINE e == Event("error")
    <3>1. channel' = channel /\ pending = <<>> /\ pending' = <<e>> /\ producer' = "last"
      BY <2>6 DEF ReadEnds
    <3>2. e \in E /\ e.kind = "error"
      BY PlainEvent, EventKinds DEF Kinds, Event
    <3> HIDE DEF e
    <3>3. DOMAIN <<e>> = {1} /\ <<e>>[1] = e
      OBVIOUS
    <3>4. <<e>> \in Seq(E) /\ channel \o <<>> = channel
      <4> HIDE DEF E
      <4> QED
        BY <2>1, <3>2
    <3>5. NoTool(<<e>>) /\ \A i \in DOMAIN <<e>> : <<e>>[i].kind # "done"
      BY <3>2, <3>3 DEF NoTool
    <3>6. Bears(answer.tools, channel \o <<e>>, pr, upstream.progress)
      <4> DEFINE pg == upstream.progress
      <4>1. pg \in [Tools -> Int]
        BY <1>2, PacesAreNumbers DEF OnTheWay
      <4>2. Bears(answer.tools, channel, pr, pg)
        BY <2>3, <3>1, <3>4
      <4> HIDE DEF pg
      <4>3. Bears(answer.tools, channel \o <<e>>, pr, pg)
        BY <3>4, <3>5, <4>1, <4>2, BearsPlain
      <4> QED
        BY <4>3 DEF pg
    <3>7. pc # "collect" => InOrder(channel \o <<e>>, upstream.over)
      <4> SUFFICES ASSUME pc # "collect" PROVE InOrder(channel \o <<e>>, upstream.over)
        OBVIOUS
      <4>1. InOrder(channel, upstream.over)
        BY <2>3, <3>1, <3>4
      <4>2. <<e>> \in Seq(AllEvents)
        BY <3>4, OfProvider
      <4> DEFINE v == <<e>>
                 over == upstream.over
      <4>3. \A i, j \in DOMAIN v : i < j /\ v[i].kind = "done" => v[j].kind # "tool"
        BY <3>2, <3>3
      <4>4. v \in Seq(AllEvents) /\ NoTool(v) /\ (\A i \in DOMAIN v : v[i].kind # "done") /\ InOrder(channel, over)
        BY <3>5, <4>1, <4>2
      <4> HIDE DEF v, over
      <4>5. InOrder(channel \o v, over)
        BY <2>1, <4>3, <4>4, OrderKept
      <4> QED
        BY <4>5 DEF v, over
    <3> QED
      BY <1>1, <2>1, <2>2, <3>1, <3>6, <3>7 DEF Carried
  <2>7. CASE ProducerStops
    BY <1>2, <2>7 DEF ProducerStops
  <2> QED
    BY <2>4, <2>5, <2>6, <2>7
<1>3. upstream \in Upstreams /\ upstream.over => upstream' \in Upstreams /\ upstream'.over /\ upstream'.progress = upstream.progress
  BY <1>1
<1> HIDE DEF E
<1> QED
  BY <1>1, <1>2, <1>3, ReaderDelivery

\* Plain events are events of every provider, and none is about a tool call.
LEMMA PlainList ==
  ASSUME NEW v \in Seq(PlainEvents), NEW pr
  PROVE  v \in Seq(Events(pr)) /\ v \in Seq(AllEvents) /\ NoTool(v)
<1>1. PlainEvents \subseteq Events(pr)
  BY EventKinds
<1>2. \A e \in PlainEvents : e.kind # "tool"
  BY DEF PlainEvents, IsPlain, Kinds
<1>3. v \in Seq(Events(pr))
  <2> HIDE DEF Events, PlainEvents
  <2> QED
    BY <1>1
<1>4. \A i \in DOMAIN v : v[i] \in PlainEvents
  <2> HIDE DEF PlainEvents
  <2> QED
    OBVIOUS
<1> QED
  BY <1>2, <1>3, <1>4, OfProvider DEF NoTool

\* A message that is not about a tool call is read.
LEMMA PlainCarried ==
  ASSUME OnTheWay, Streaming, pending = <<>>, NEW v \in Seq(PlainEvents), pending' = v, channel' = channel,
         producer' = "read", upstream' \in Upstreams, upstream'.progress = upstream.progress, upstream.over => upstream'.over,
         parser'.done => upstream'.over, upstream'.over \/ \A i \in DOMAIN v : v[i].kind # "done"
  PROVE  Carried
<1> DEFINE pr == req.provider
           pg == upstream.progress
           over == upstream.over
           more == upstream'.over
<1>1. /\ channel \in Seq(Events(pr)) /\ channel \in Seq(AllEvents) /\ pg \in [Tools -> Int]
      /\ channel \o <<>> = channel
  <2>1. channel \in Seq(Events(pr)) /\ channel \in Seq(AllEvents)
    BY WayEvents
  <2>2. pg \in [Tools -> Int]
    BY PacesAreNumbers DEF OnTheWay
  <2> HIDE DEF Events, AllEvents
  <2> QED
    BY <2>1, <2>2
<1>2. v \in Seq(Events(pr)) /\ v \in Seq(AllEvents) /\ NoTool(v)
  BY PlainList
<1>3. Bears(answer.tools, channel, pr, pg) /\ (pc # "collect" => InOrder(channel, over))
  BY <1>1 DEF OnTheWay
<1>4. (over => more) /\ (more \/ \A i \in DOMAIN v : v[i].kind # "done") /\ (parser'.done => more)
  OBVIOUS
<1> HIDE DEF pr, pg, over, more
<1>5. Bears(answer.tools, channel \o v, pr, pg)
  BY <1>1, <1>2, <1>3, BearsPlain
<1>6. \A i, j \in DOMAIN v : i < j /\ v[i].kind = "done" => v[j].kind # "tool"
  BY <1>2 DEF NoTool
<1>7. pc # "collect" => InOrder(channel \o v, more)
  BY <1>1, <1>2, <1>3, <1>4, <1>6, OrderKept
<1> QED
  BY <1>1, <1>4, <1>5, <1>7 DEF Carried, pr, pg, over, more

\* A message about a tool call is read, before the end of the upstream.
LEMMA ToolCarried ==
  ASSUME OnTheWay, Streaming, pending = <<>>, NEW t \in Tools, NEW k \in Nat, NEW v, pending' = v, channel' = channel,
         producer' = "read", upstream' \in Upstreams, upstream'.progress = [upstream.progress EXCEPT ![t] = k],
         ~upstream.over, ~parser'.done,
         SaysNew(v, req.provider, upstream.progress, t, k)
  PROVE  Carried
<1> DEFINE pr == req.provider
           pg == upstream.progress
           over == upstream.over
           more == upstream'.over
<1>1. /\ channel \in Seq(Events(pr)) /\ channel \in Seq(AllEvents) /\ pg \in [Tools -> Int]
      /\ channel \o <<>> = channel
  <2>1. channel \in Seq(Events(pr)) /\ channel \in Seq(AllEvents)
    BY WayEvents
  <2>2. pg \in [Tools -> Int]
    BY PacesAreNumbers DEF OnTheWay
  <2> HIDE DEF Events, AllEvents
  <2> QED
    BY <2>1, <2>2
<1>2. Bears(answer.tools, channel, pr, pg) /\ (pc # "collect" => InOrder(channel, over)) /\ ~over
  BY <1>1 DEF OnTheWay
<1>3. SaysNew(v, pr, pg, t, k)
  OBVIOUS
<1>4. (\A i \in DOMAIN v : v[i].kind # "done")
  <2>1. CASE v = <<>>
    <3>1. DOMAIN <<>> = {}
      OBVIOUS
    <3> QED
      BY <2>1, <3>1
  <2>2. CASE \E e : v = <<e>> /\ e \in AllEvents /\ IsToolEvent(e, pr, t) /\ Upto(k) = Upto(pg[t]) \o e.args
    <3>1. PICK e : v = <<e>> /\ IsToolEvent(e, pr, t)
      BY <2>2
    <3>2. DOMAIN v = {1} /\ v[1] = e
      BY <3>1
    <3>3. e.kind = "tool"
      BY <3>1 DEF IsToolEvent
    <3> QED
      BY <3>2, <3>3
  <2> QED
    BY <1>3, <2>1, <2>2 DEF SaysNew
<1>5. upstream'.progress = [pg EXCEPT ![t] = k]
  OBVIOUS
<1> HIDE DEF pr, pg, over, more
<1>6. Bears(answer.tools, channel \o v, pr, [pg EXCEPT ![t] = k]) /\ v \in Seq(Events(pr))
  <2> DEFINE tools == answer.tools
  <2>1. Bears(tools, channel, pr, pg) /\ pg \in [Tools -> Int]
    BY <1>1, <1>2
  <2> HIDE DEF tools
  <2>2. Bears(tools, channel \o v, pr, [pg EXCEPT ![t] = k]) /\ v \in Seq(Events(pr))
    BY <1>3, <2>1, BearsTool
  <2> QED
    BY <2>2 DEF tools
<1>7. pc # "collect" => InOrder(channel \o v, more)
  <2> SUFFICES ASSUME pc # "collect" PROVE InOrder(channel \o v, more)
    OBVIOUS
  <2>1. v \in Seq(AllEvents)
    BY <1>6, OfProvider
  <2>2. \A i, j \in DOMAIN v : i < j /\ v[i].kind = "done" => v[j].kind # "tool"
    BY <1>4
  <2> QED
    BY <1>1, <1>2, <1>4, <2>1, <2>2, OrderKept
<1> QED
  BY <1>1, <1>5, <1>6, <1>7 DEF Carried, pr, pg, over, more

\* What reading one message makes of what is on its way.
LEMMA ReadDelivery ==
  ASSUME Delivery, Streaming, Channel, ReadTool \/ ReadPlain \/ ReadLast
  PROVE  Delivery'
<1> DEFINE pr == req.provider
           pg == upstream.progress
<1>1. /\ producer = "read" /\ producer' = "read" /\ pending = <<>> /\ channel' = channel
      /\ UNCHANGED <<handlerVars, canceled>> /\ ~RequestDone
  BY DEF ReadTool, ReadPlain, ReadLast, Read
<1>2. pc \notin Over
  BY <1>1 DEF RequestDone, Over
<1>3. req \in Requests /\ upstream \in Upstreams /\ (~parser.done => Knows(parser, pr, pg)) /\ pr \in Providers
  BY <1>1, <1>2 DEF Streaming, Underway, Requests
<1>4. Identifies(pr)
  BY <1>3, ProviderAssumption DEF Identifies
<1>5. ~parser.done => parser \in Parsers
  BY <1>3 DEF Knows
<1>6. CASE ReadTool
  <2>1. PICK t \in Tools : \E step \in ToolSteps(pg[t]) :
          Read(ToolMessage(t, step), [upstream EXCEPT !.progress[t] = step[3]])
    BY <1>6 DEF ReadTool
  <2>2. PICK step \in ToolSteps(pg[t]) : Read(ToolMessage(t, step), [upstream EXCEPT !.progress[t] = step[3]])
    BY <2>1
  <2> DEFINE m == ToolMessage(t, step)
             state == [upstream EXCEPT !.progress[t] = step[3]]
             r == Parse(parser, m)
             k == step[3]
  <2>3. pg \in [Tools -> Paces] /\ pg[t] \in -1..(Fragments + 2)
    BY <1>3 DEF Upstreams, Paces
  <2>4. k \in 0..(Fragments + 2) /\ k \in Nat
    BY <2>3, StepKinds, GatewayAssumption
  <2>5. k \in Paces
    BY <2>4, GatewayAssumption DEF Paces
  <2>6. state \in Upstreams /\ state.progress = [pg EXCEPT ![t] = k]
    BY <1>3, <2>3, <2>5 DEF Upstreams
  <2>7. /\ m.type = step[1] /\ m.args = step[2] /\ m.item \in BOOLEAN
        /\ m.item <=> step[1] \in {"itemAdded", "itemDone"}
        /\ AboutTool(m, pr, t)
    BY <1>3, ToolSays
  <2>8. ~upstream.over
    BY <1>6 DEF ReadTool
  <2>9. Read(m, state)
    BY <2>2
  <2> HIDE DEF m, state
  <2>10. upstream' = [state EXCEPT !.sent = @ + 1] /\ parser' = r.p /\ pending' = r.events
    BY <2>9 DEF Read
  <2>11. upstream' \in Upstreams /\ upstream'.progress = state.progress
    BY <2>6, <2>10 DEF Upstreams
  <2>12. ASSUME OnTheWay PROVE Carried
    <3>1. ~parser.done
      BY <1>1, <2>8, <2>12 DEF OnTheWay
    <3>2. Knows(parser, pr, pg)
      BY <1>3, <3>1
    <3>3. PassesOn(r, parser, pr, pg, t, step)
      BY <1>4, <2>3, <2>7, <3>1, <3>2, ToolParse
    <3> HIDE DEF r, pg, pr, k
    <3>4. r.p.done = parser.done /\ SaysNew(r.events, pr, pg, t, k)
      BY <3>3 DEF PassesOn, SaysNew, k
    <3>5. ~parser'.done /\ SaysNew(pending', pr, pg, t, k) /\ upstream'.progress = [pg EXCEPT ![t] = k]
      BY <2>6, <2>10, <2>11, <3>1, <3>4
    <3>6. SaysNew(pending', req.provider, upstream.progress, t, k) /\ upstream'.progress = [upstream.progress EXCEPT ![t] = k]
      BY <3>5 DEF pr, pg
    <3> QED
      BY <1>1, <2>4, <2>8, <2>11, <2>12, <3>5, <3>6, ToolCarried
  <2> QED
    BY <1>1, <2>8, <2>12, ReaderDelivery
<1>7. CASE ReadPlain
  <2>1. PICK m \in IF lease.account \in Sso THEN GrokPlain ELSE Plain : Read(m, upstream)
    BY <1>7 DEF ReadPlain
  <2> DEFINE r == Parse(parser, m)
  <2>2. ~upstream.over
    BY <1>7 DEF ReadPlain
  <2>3. upstream' = [upstream EXCEPT !.sent = @ + 1] /\ parser' = r.p /\ pending' = r.events
    BY <2>1 DEF Read
  <2>4. upstream' \in Upstreams /\ upstream'.progress = upstream.progress /\ upstream'.over = upstream.over
    BY <1>3, <2>3 DEF Upstreams
  <2>5. ASSUME OnTheWay PROVE Carried
    <3>1. ~parser.done
      BY <1>1, <2>2, <2>5 DEF OnTheWay
    <3>2. PassesPlain(r, parser, FALSE)
      <4>1. CASE m \in Plain
        BY <1>5, <3>1, <4>1, PlainParse
      <4>2. CASE m \in GrokPlain
        <5>1. ~m.error /\ ~m.final
          BY <4>2 DEF GrokPlain, Msg
        <5>2. m \notin GrokEnding
          BY <5>1 DEF GrokEnding, Msg
        <5>3. PassesPlain(r, parser, m \in GrokEnding)
          BY <1>5, <3>1, <4>2, GrokParse
        <5> HIDE DEF r
        <5> QED
          BY <5>2, <5>3 DEF PassesPlain
      <4> QED
        BY <2>1, <4>1, <4>2
    <3> HIDE DEF r
    <3>3. /\ r.p.done = parser.done /\ r.events \in Seq(PlainEvents)
          /\ \A i \in DOMAIN r.events : r.events[i].kind # "done"
      <4>1. r.p.done = parser.done /\ r.events \in Seq(PlainEvents) /\ r.events \in Seq(PassingEvents)
        BY <3>2, Zenon DEF PassesPlain
      <4> DEFINE v == r.events
      <4>2. v \in Seq(PassingEvents)
        BY <4>1
      <4> HIDE DEF v
      <4>3. \A i \in DOMAIN v : v[i] \in PassingEvents
        <5> HIDE DEF PassingEvents
        <5> QED
          BY <4>2
      <4> QED
        BY <4>1, <4>3 DEF PassingEvents, v
    <3>4. ~parser'.done /\ pending' \in Seq(PlainEvents) /\ \A i \in DOMAIN pending' : pending'[i].kind # "done"
      BY <2>3, <3>1, <3>3
    <3> QED
      BY <1>1, <2>2, <2>4, <2>5, <3>4, PlainCarried
  <2> QED
    BY <1>1, <2>2, <2>5, ReaderDelivery
<1>8. CASE ReadLast
  <2>1. PICK m \in Ending \cup GrokEnding : Read(m, [upstream EXCEPT !.over = TRUE])
    BY <1>8 DEF ReadLast
  <2> DEFINE r == Parse(parser, m)
             state == [upstream EXCEPT !.over = TRUE]
  <2>2. state \in Upstreams /\ state.progress = pg /\ state.over
    BY <1>3 DEF Upstreams
  <2>3. Read(m, state)
    BY <2>1
  <2> HIDE DEF state
  <2>4. upstream' = [state EXCEPT !.sent = @ + 1] /\ parser' = r.p /\ pending' = r.events
    BY <2>3 DEF Read
  <2>5. upstream' \in Upstreams /\ upstream'.progress = upstream.progress /\ upstream'.over
    BY <2>2, <2>4 DEF Upstreams
  <2>6. r.events \in Seq(PlainEvents)
    <3>1. CASE parser.done
      BY <3>1 DEF Parse, Parsed
    <3>2. CASE ~parser.done
      BY <1>5, <2>1, <3>2, EndingParse, GrokParse DEF PassesPlain
    <3> QED
      BY <3>1, <3>2
  <2>7. pending' \in Seq(PlainEvents)
    BY <2>4, <2>6
  <2>8. ASSUME OnTheWay PROVE Carried
    BY <1>1, <2>5, <2>7, <2>8, PlainCarried
  <2> QED
    BY <1>1, <2>5, <2>8, ReaderDelivery
<1> QED
  BY <1>6, <1>7, <1>8

\* Under the same calls the same is on its way.
LEMMA BearsSame ==
  ASSUME NEW tools, NEW w, NEW pr, NEW pg, Bears(tools, w, pr, pg), NEW more, SameCalls(tools, more)
  PROVE  Bears(more, w, pr, pg)
<1>1. Listed(more, pr) /\ \A id : Args(more, id) = Args(tools, id) /\ (Has(more, id) <=> Has(tools, id))
  BY SameCallsListed DEF Bears
<1> QED
  BY <1>1 DEF Bears

\* The next event is taken out of the channel.
LEMMA TakenCarried ==
  ASSUME Streaming, OnTheWay, channel # <<>>, channel' = Tail(channel), UNCHANGED <<req, producer, upstream, parser, pending>>,
         Gets(answer.tools, answer'.tools, req.provider, Head(channel))
  PROVE  /\ upstream' \in Upstreams /\ channel' \in Seq(Events(req.provider))
         /\ Head(channel) \in Events(req.provider)
         /\ Bears(answer'.tools, channel' \o pending', req'.provider, upstream'.progress)
         /\ pc # "collect" => InOrder(channel' \o pending', upstream'.over)
<1> DEFINE pr == req.provider
           pg == upstream.progress
           w == channel \o pending
           tools == answer.tools
           more == answer'.tools
           e == Head(channel)
<1>1. /\ channel \in Seq(Events(pr)) /\ pending \in Seq(Events(pr))
      /\ channel \in Seq(AllEvents) /\ pending \in Seq(AllEvents)
  BY WayEvents
<1>2. /\ w # <<>> /\ Head(w) = e /\ Tail(w) = channel' \o pending
      /\ channel' \in Seq(Events(pr)) /\ e \in Events(pr)
  <2> HIDE DEF Events
  <2> QED
    BY <1>1, FirstOfTwo
<1>3. Bears(tools, w, pr, pg) /\ Gets(tools, more, pr, e)
  BY DEF OnTheWay
<1>4. w \in Seq(AllEvents)
  BY <1>1
<1> HIDE DEF w, tools, more, e, pr, pg
<1>5. Bears(more, Tail(w), pr, pg)
  BY <1>2, <1>3, BearsTaken
<1>6. ASSUME NEW over, InOrder(w, over) PROVE InOrder(Tail(w), over)
  <2>1. \A i \in DOMAIN Tail(w) : i \in Nat /\ i + 1 \in DOMAIN w /\ Tail(w)[i] = w[i + 1]
    BY <1>2, <1>4
  <2>2. \A i, j \in DOMAIN Tail(w) : i < j => i + 1 < j + 1
    BY <2>1
  <2> QED
    BY <1>6, <2>1, <2>2 DEF InOrder
<1>7. pc # "collect" => InOrder(Tail(w), upstream.over)
  BY <1>6 DEF OnTheWay, w
<1> QED
  BY <1>2, <1>5, <1>7 DEF OnTheWay, pr, pg, e, more

\* After the end of the answer nothing more is said of a tool call.
LEMMA EndSilent ==
  ASSUME NEW w \in Seq(AllEvents), w # <<>>, Head(w).kind = "done", NEW over, InOrder(w, over)
  PROVE  NoTool(w) /\ over
<1>1. 1 \in DOMAIN w /\ w[1].kind = "done" /\ \A i \in DOMAIN w : i \in Nat /\ (i = 1 \/ 1 < i)
  OBVIOUS
<1> QED
  BY <1>1 DEF InOrder, NoTool

\* The handler starts the stream.
LEMMA StartDelivery == ASSUME Delivery, Streaming, StreamStarts PROVE Delivery'
<1>1. /\ pc = "start" /\ pc' = "stream" /\ answer' = Start(answer, req.op)
      /\ UNCHANGED <<req, producer, upstream, parser, pending, channel, canceled>>
  BY DEF StreamStarts, streamVars
<1>2. CASE req.op \notin Conversational \/ canceled
  BY <1>1, <1>2, WordlessDelivery DEF Trying, Calling, CallOut
<1>3. CASE req.op \in Conversational /\ ~canceled
  <2>1. OnTheWay /\ req.stream
    BY <1>1, <1>3 DEF Delivery, OnTheWay
  <2>2. answer = NewStream
    BY <1>1, <2>1 DEF Streaming, Streamed
  <2>3. Wordless(answer, answer')
    BY <1>1, <1>3, <2>2, StartWordless
  <2>4. Says(answer, req.op, req.provider) /\ Bears(answer.tools, channel \o pending, req.provider, upstream.progress)
    BY <1>1, <2>1 DEF OnTheWay
  <2>5. Says(answer', req.op, req.provider)
    BY <2>3, <2>4, SaysStill
  <2>6. Bears(answer'.tools, channel \o pending, req.provider, upstream.progress)
    BY <2>3, <2>4, BearsSame DEF Wordless
  <2>7. OnTheWay'
    BY <1>1, <2>1, <2>5, <2>6 DEF OnTheWay
  <2> QED
    BY <1>1, <2>7, WayDelivery
<1> QED
  BY <1>2, <1>3

\* A stream that is finished has said all.
LEMMA FinishDelivery ==
  ASSUME Delivery, Streaming, OnTheWay, req.op \in Conversational, pc = "stream", pc' = "settle", answer' = Finish(answer, req.op),
         UNCHANGED <<req, producer, upstream>>,
         upstream.over \/ producer = "closed", NoTool(channel \o pending)
  PROVE  Delivery'
<1>1. GoesWell(answer, req.op, req.provider)
  BY DEF Streaming, Streamed, OnTheWay
<1>2. Wordless(answer, answer')
  BY <1>1, FinishWordless
<1>3. Says(answer, req.op, req.provider) /\ Bears(answer.tools, channel \o pending, req.provider, upstream.progress)
  BY DEF OnTheWay
<1>4. Says(answer', req.op, req.provider)
  BY <1>2, <1>3, SaysStill
<1>5. Bears(answer.tools, <<>>, req.provider, upstream.progress)
  BY <1>3, BearsAll
<1>6. Bears(answer'.tools, <<>>, req.provider, upstream.progress)
  BY <1>2, <1>5, BearsSame DEF Wordless
<1>7. Arrived'
  BY <1>4, <1>6 DEF OnTheWay, Arrived
<1> QED
  BY <1>7 DEF Delivery, Trying, Calling, CallOut

\* The handler writes an event, or ends the stream.
LEMMA NextDelivery == ASSUME Delivery, Streaming, StreamNext PROVE Delivery'
<1> DEFINE e == Head(channel)
           op == req.op
           pr == req.provider
<1>1. /\ pc = "stream" /\ channel # <<>> /\ channel' = Tail(channel)
      /\ UNCHANGED <<req, producer, upstream, parser, pending, canceled>>
  BY DEF StreamNext
<1>2. \/ pc' = "settle" /\ outcome' = "failed"
      \/ pc' = "settle" /\ answer' = Finish(answer, op) /\ e.kind = "done"
      \/ /\ pc' = pc /\ answer' = StreamEvent(answer, op, e) /\ outcome' = outcome
         /\ e.kind \notin {"error", "done"}
  BY DEF StreamNext, StreamEnds
<1>3. pc' \notin Trying
  BY <1>1, <1>2 DEF Trying, Calling, CallOut
<1>4. CASE op \notin Conversational \/ canceled
  BY <1>1, <1>3, <1>4, WordlessDelivery
<1>5. CASE op \in Conversational /\ ~canceled
  <2>1. OnTheWay /\ req.stream /\ Says(answer, op, pr)
    BY <1>1, <1>5 DEF Delivery, OnTheWay
  <2>2. GoesWell(answer, op, pr)
    BY <1>1, <2>1 DEF Streaming, Streamed
  <2>3. CASE pc' = "settle" /\ outcome' = "failed"
    BY <1>3, <2>3, ElsewhereDelivery
  <2>4. CASE pc' = "settle" /\ answer' = Finish(answer, op) /\ e.kind = "done"
    <3> DEFINE w == channel \o pending
    <3>1. channel \in Seq(AllEvents) /\ pending \in Seq(AllEvents)
      BY <2>1, WayEvents
    <3>2. w \in Seq(AllEvents) /\ w # <<>> /\ Head(w) = e
      BY <1>1, <3>1, FirstOfTwo
    <3>3. InOrder(w, upstream.over)
      BY <1>1, <2>1 DEF OnTheWay
    <3> HIDE DEF w, e
    <3>4. NoTool(w) /\ upstream.over
      BY <2>4, <3>2, <3>3, EndSilent
    <3>5. NoTool(channel \o pending)
      BY <3>4 DEF w
    <3> QED
      BY <1>1, <1>5, <2>1, <2>4, <3>4, <3>5, FinishDelivery
  <2>5. CASE pc' = pc /\ answer' = StreamEvent(answer, op, e) /\ e.kind \notin {"error", "done"}
    <3>1. channel \in Seq(Events(pr))
      BY <2>1, WayEvents
    <3>2. e \in Events(pr)
      <4> HIDE DEF Events
      <4> QED
        BY <1>1, <3>1
    <3>3. e \in AllEvents /\ IsEvent(e, pr)
      BY <3>2 DEF Events
    <3> HIDE DEF e
    <3>4. Says(answer', op, pr) /\ Gets(answer.tools, answer'.tools, pr, e)
      BY <1>5, <2>1, <2>2, <2>5, <3>3, EventSpeaks
    <3>5. Gets(answer.tools, answer'.tools, req.provider, Head(channel))
      BY <3>4 DEF e
    <3>6. /\ upstream' \in Upstreams /\ channel' \in Seq(Events(req.provider))
          /\ Bears(answer'.tools, channel' \o pending', req'.provider, upstream'.progress)
          /\ pc # "collect" => InOrder(channel' \o pending', upstream'.over)
      BY <1>1, <2>1, <3>5, TakenCarried
    <3>7. OnTheWay'
      BY <1>1, <2>1, <2>5, <3>4, <3>6 DEF OnTheWay
    <3> QED
      BY <1>1, <2>5, <3>7, WayDelivery
  <2> QED
    BY <1>2, <2>3, <2>4, <2>5
<1> QED
  BY <1>4, <1>5

\* The channel is closed, and everything in it has been written.
LEMMA ClosedDelivery == ASSUME Delivery, Streaming, StreamClosed PROVE Delivery'
<1>1. /\ pc = "stream" /\ pc' = "settle" /\ answer' = Finish(answer, req.op) /\ channel = <<>> /\ producer = "closed"
      /\ UNCHANGED <<req, producer, upstream, canceled>>
  BY DEF StreamClosed, StreamEnds, streamVars
<1>2. CASE req.op \notin Conversational \/ canceled
  BY <1>1, <1>2, WordlessDelivery DEF Trying, Calling, CallOut
<1>3. CASE req.op \in Conversational /\ ~canceled
  <2>1. OnTheWay
    BY <1>1, <1>3 DEF Delivery
  <2>2. pending = <<>>
    BY <1>1, <2>1 DEF OnTheWay
  <2>3. channel \o pending = <<>> /\ DOMAIN <<>> = {}
    BY <1>1, <2>2
  <2>4. NoTool(channel \o pending)
    BY <2>3 DEF NoTool
  <2> QED
    BY <1>1, <1>3, <2>1, <2>4, FinishDelivery
<1> QED
  BY <1>2, <1>3

\* An event is gathered, or the picture it tells of cannot be stored.
LEMMA CollectDelivery == ASSUME Delivery, Streaming, Collect PROVE Delivery'
<1> DEFINE e == Head(channel)
           pr == req.provider
<1>1. /\ pc = "collect" /\ pc' = pc /\ channel # <<>> /\ channel' = Tail(channel)
      /\ UNCHANGED <<req, producer, upstream, parser, pending, canceled>>
  BY DEF Collect
<1>2. \/ e.kind \in {"image", "video"} /\ answer' = Add(answer, Event("error"))
      \/ answer' = IF req.b64 /\ e.kind = "image" THEN AddEncoded(answer, e) ELSE Add(answer, e)
  BY DEF Collect, LocalizeFails
<1>3. CASE req.op \notin Conversational \/ canceled
  BY <1>1, <1>3, WordlessDelivery DEF Trying, Calling, CallOut
<1>4. CASE req.op \in Conversational /\ ~canceled
  <2>1. OnTheWay /\ answer \in Documents
    BY <1>1, <1>4 DEF Delivery, OnTheWay
  <2>2. channel \in Seq(Events(pr)) /\ Listed(answer.tools, pr)
    BY <2>1, WayEvents DEF OnTheWay, Bears
  <2>3. e \in Events(pr)
    <3> HIDE DEF Events
    <3> QED
      BY <1>1, <2>2
  <2>4. e \in AllEvents /\ IsEvent(e, pr)
    BY <2>3 DEF Events
  <2> DEFINE x == Event("error")
  <2>5. x \in PlainEvents
    BY PlainEvent DEF Kinds
  <2>6. \/ e.kind \in {"image", "video"} /\ answer' = Add(answer, x)
        \/ answer' = Add(answer, e)
        \/ e.kind = "image" /\ answer' = AddEncoded(answer, e)
    BY <1>2
  <2> HIDE DEF e, x
  <2>7. answer' \in Documents /\ Gets(answer.tools, answer'.tools, pr, e)
    <3>1. CASE IsPlain(e)
      <4>1. e \in PlainEvents
        BY <2>4, <3>1 DEF PlainEvents
      <4>2. /\ Add(answer, x) \in Documents /\ Add(answer, x).tools = answer.tools
            /\ Add(answer, e) \in Documents /\ Add(answer, e).tools = answer.tools
            /\ AddEncoded(answer, e) \in Documents /\ AddEncoded(answer, e).tools = answer.tools
        BY <2>1, <2>5, <4>1, AddPlain
      <4>3. answer' \in Documents /\ answer'.tools = answer.tools
        BY <2>6, <4>2
      <4>4. SameCalls(answer.tools, answer'.tools)
        BY <4>3 DEF SameCalls
      <4>5. Gets(answer.tools, answer'.tools, pr, e)
        BY <2>2, <2>4, <3>1, <4>4, PlainGets
      <4> QED
        BY <4>3, <4>5
    <3>2. CASE ~IsPlain(e)
      <4>1. PICK t \in Tools : IsToolEvent(e, pr, t)
        BY <2>4, <3>2 DEF IsEvent
      <4>2. e.kind = "tool"
        BY <4>1 DEF IsToolEvent
      <4>3. answer' = AddTool(answer, e)
        BY <2>6, <4>2 DEF Add
      <4>4. Gains(answer.tools, AddTool(answer, e).tools, pr, t, e.args) /\ AddTool(answer, e) \in Documents
        BY <2>1, <2>2, <4>1, AddToolGains
      <4> DEFINE tools == answer.tools
                 more == answer'.tools
      <4>5. Listed(tools, pr) /\ Gains(tools, more, pr, t, e.args) /\ answer' \in Documents
        BY <2>2, <4>3, <4>4
      <4> HIDE DEF tools, more
      <4>6. SameCalls(more, more)
        BY DEF SameCalls
      <4>7. Gets(tools, more, pr, e)
        BY <2>4, <4>1, <4>5, <4>6, ToolGets
      <4> QED
        BY <4>5, <4>7 DEF tools, more
    <3> QED
      BY <3>1, <3>2
  <2>8. Gets(answer.tools, answer'.tools, req.provider, Head(channel))
    BY <2>7 DEF e
  <2>9. /\ upstream' \in Upstreams /\ channel' \in Seq(Events(req.provider))
        /\ Bears(answer'.tools, channel' \o pending', req'.provider, upstream'.progress)
    BY <1>1, <2>1, <2>8, TakenCarried
  <2>10. OnTheWay'
    BY <1>1, <2>1, <2>7, <2>9 DEF OnTheWay
  <2> QED
    BY <1>1, <2>10, WayDelivery
<1> QED
  BY <1>3, <1>4

\* Everything is gathered.
LEMMA CollectedDelivery == ASSUME Delivery, Streaming, Collected PROVE Delivery'
<1>1. /\ pc = "collect" /\ pc' = "settle" /\ channel = <<>> /\ producer = "closed"
      /\ UNCHANGED <<req, producer, upstream, answer, canceled>>
  BY DEF Collected, streamVars
<1>2. CASE req.op \notin Conversational \/ canceled
  BY <1>1, <1>2, WordlessDelivery DEF Trying, Calling, CallOut
<1>3. CASE req.op \in Conversational /\ ~canceled
  <2>1. OnTheWay
    BY <1>1, <1>3 DEF Delivery
  <2>2. pending = <<>>
    BY <1>1, <2>1 DEF OnTheWay
  <2>3. channel \o pending = <<>>
    BY <1>1, <2>2
  <2>4. Bears(answer.tools, <<>>, req.provider, upstream.progress)
    BY <2>1, <2>3 DEF OnTheWay
  <2>5. ~req.stream
    BY <1>1 DEF Streaming, Streamed
  <2>6. Arrived'
    BY <1>1, <2>1, <2>4, <2>5 DEF Arrived, OnTheWay
  <2> QED
    BY <1>1, <2>6 DEF Delivery, Trying, Calling, CallOut
<1> QED
  BY <1>2, <1>3

\* Delivery is inductive with Streaming and GatewayInv.
LEMMA DeliveryStep == Delivery /\ Streaming /\ GatewayInv /\ [Next]_vars => Delivery'
<1> SUFFICES ASSUME Delivery, Streaming, Channel, Next \/ UNCHANGED vars PROVE Delivery'
  BY DEF GatewayInv
<1>1. ASSUME \/ RefuseBody \/ RefuseModel \/ RefusePayload \/ Accept \/ Acquire \/ NoAccountLeft
             \/ ProxyResolved \/ ProxyFails \/ Send \/ UploadEnds \/ UploadsJoined \/ PostCreated
             \/ DoFails \/ DoUnauthorized \/ Refreshed \/ RefreshFails \/ DoRetryable \/ DoRejects
             \/ Reject \/ StreamCanceled \/ BodyFails \/ BodyImage
             \/ StartPolling \/ KeepWithoutPolling \/ Cancel
             \/ (Video /\ UNCHANGED <<handlerVars, streamVars, canceled>>) \/ UNCHANGED vars
      PROVE  Delivery'
  <2>1. Passive
    BY <1>1, PassiveSteps
  <2> QED
    BY <2>1, PassiveDelivery
<1>2. ASSUME DoStreams \/ DoDocument \/ DoImagine \/ ReadFrame \/ ReadFrameFails \/ Settle \/ Die
      PROVE  Delivery'
  BY <1>2, StreamsDelivery, DocumentDelivery, PicturesDelivery, SettleDelivery
<1>3. ASSUME Collect \/ Collected \/ StreamStarts \/ StreamNext \/ StreamClosed
      PROVE  Delivery'
  BY <1>3, CollectDelivery, CollectedDelivery, StartDelivery, NextDelivery, ClosedDelivery
<1>4. ASSUME ReadTool \/ ReadPlain \/ ReadLast \/ ReadEnds \/ SendEvent \/ CloseChannel \/ ProducerStops
      PROVE  Delivery'
  BY <1>4, ReadDelivery, CarryDelivery
<1> QED
  BY <1>1, <1>2, <1>3, <1>4 DEF Next, Handle, Produce, Carry

\* The arguments the upstream has sent are those its pace shows.
LEMMA SentIsUpto == ASSUME NEW t \in Tools, upstream.progress[t] \in Int PROVE Sent(t) = Upto(upstream.progress[t])
<1> DEFINE k == upstream.progress[t]
<1>1. ASSUME NEW a \in Int, NEW b \in Int
      PROVE  Max({a, b}) = (IF a >= b THEN a ELSE b) /\ Min({a, b}) = (IF a <= b THEN a ELSE b)
  <2>1. \E x \in {a, b} : \A y \in {a, b} : x >= y
    OBVIOUS
  <2>2. \E x \in {a, b} : \A y \in {a, b} : x <= y
    OBVIOUS
  <2>3. Max({a, b}) \in {a, b} /\ \A y \in {a, b} : Max({a, b}) >= y
    BY <2>1 DEF Max
  <2>4. Min({a, b}) \in {a, b} /\ \A y \in {a, b} : Min({a, b}) <= y
    BY <2>2 DEF Min
  <2> QED
    BY <2>3, <2>4
<1>2. k \in Int /\ Fragments \in Nat
  BY GatewayAssumption
<1> HIDE DEF k
<1> DEFINE m == Max({0, k})
<1>3. m = IF 0 >= k THEN 0 ELSE k
  BY <1>1, <1>2
<1> HIDE DEF m
<1>4. Min({Fragments, m}) = IF Fragments <= m THEN Fragments ELSE m
  <2>1. m \in Int /\ Fragments \in Int
    BY <1>2, <1>3
  <2> QED
    BY <1>1, <2>1
<1>5. Min({Fragments, m}) = Shown(k)
  BY <1>2, <1>3, <1>4 DEF Shown
<1> QED
  BY <1>5 DEF Sent, Upto, m, k

\* A list of calls has as many entries as calls.
LEMMA ListedOnce ==
  ASSUME NEW tools, NEW pr, Listed(tools, pr)
  PROVE  Len(tools) = Cardinality({t \in Tools : Has(tools, CallOf(pr, t))})
<1> DEFINE q == [n \in 1..Len(tools) |-> CHOOSE t \in Tools : tools[n].id = CallOf(pr, t)]
           called == {t \in Tools : Has(tools, CallOf(pr, t))}
<1>1. Len(tools) \in Nat /\ DOMAIN tools = 1..Len(tools)
  BY DEF Listed
<1>2. \A n \in 1..Len(tools) : q[n] \in Tools /\ tools[n].id = CallOf(pr, q[n])
  BY <1>1 DEF Listed
<1>3. q \in Seq(Tools) /\ Len(q) = Len(tools) /\ DOMAIN q = 1..Len(tools)
  <2>1. q = [n \in 1..Len(tools) |-> q[n]]
    OBVIOUS
  <2> HIDE DEF q
  <2> QED
    BY <1>1, <1>2, <2>1
<1> HIDE DEF q
<1>4. \A i, j \in DOMAIN q : q[i] = q[j] => i = j
  BY <1>1, <1>2, <1>3 DEF Listed
<1>5. Range(q) = called
  <2>1. ASSUME NEW n \in DOMAIN q PROVE q[n] \in called
    BY <1>1, <1>2, <1>3 DEF Has
  <2>2. ASSUME NEW t \in called PROVE \E n \in DOMAIN q : q[n] = t
    <3>1. PICK n \in DOMAIN tools : tools[n].id = CallOf(pr, t)
      BY <2>2 DEF Has
    <3>2. CallOf(pr, q[n]) = CallOf(pr, t)
      BY <1>1, <1>2, <3>1
    <3>3. q[n] = t
      BY <3>2, Names
    <3> QED
      BY <1>1, <1>3, <3>1, <3>3
  <2> QED
    BY <2>1, <2>2 DEF Range
<1> QED
  BY <1>3, <1>4, <1>5, Distinct

\* An answer that has arrived has every tool call once, with what the upstream has sent of it.
LEMMA ArrivedDelivered == Delivery => ToolsDelivered
<1> SUFFICES ASSUME Delivery, pc = "settle", outcome = "ok", ~canceled, req.op \in Conversational
             PROVE  /\ Len(answer.tools) = Cardinality(Called)
                    /\ \A t \in Called :
                         \E n \in DOMAIN answer.tools : answer.tools[n].id = CallId(t) /\ answer.tools[n].args = Sent(t)
                    /\ req.stream => \A t \in Called :
                         ArgumentsOf(answer.out, IF req.op = "responses" THEN ItemId(t) ELSE CallId(t)) = Sent(t)
  BY DEF ToolsDelivered
<1> DEFINE pr == req.provider
           pg == upstream.progress
           tools == answer.tools
           op == req.op
<1>1. upstream \in Upstreams /\ Bears(tools, <<>>, pr, pg) /\ (req.stream => Says(answer, op, pr))
  BY DEF Delivery, Arrived
<1>2. pg \in [Tools -> Int]
  BY <1>1, PacesAreNumbers
<1>3. Called = {t \in Tools : pg[t] >= 0}
  BY DEF Called
<1>4. \A t : CallId(t) = CallOf(pr, t) /\ ItemId(t) = ItemOf(pr, t)
  BY DEF CallId, ItemId, CallOf, ItemOf
<1>5. \A t \in Tools : Sent(t) = Upto(pg[t])
  BY <1>2, SentIsUpto
<1>6. (req.stream => Says(answer, op, pr)) /\ Listed(tools, pr)
  BY <1>1 DEF Bears
<1> HIDE DEF pg, tools, op
<1>7. ASSUME NEW t \in Tools
      PROVE  Args(tools, CallOf(pr, t)) = Upto(pg[t]) /\ (pg[t] >= 0 <=> Has(tools, CallOf(pr, t)))
  <2>1. /\ Args(tools, CallOf(pr, t)) \o Gathered(Arguments(CallOf(pr, t)), <<>>) = Upto(pg[t])
        /\ pg[t] >= 0 <=> Has(tools, CallOf(pr, t)) \/ Spoken(<<>>, CallOf(pr, t))
    BY <1>1 DEF Bears
  <2>2. Gathered(Arguments(CallOf(pr, t)), <<>>) = <<>> /\ ~Spoken(<<>>, CallOf(pr, t))
    BY GatherNothing, SpokenOnce
  <2> DEFINE a == Args(tools, CallOf(pr, t))
  <2>3. a \in Seq(Nat)
    BY <1>6, ArgsType
  <2> HIDE DEF a
  <2>4. a \o <<>> = a
    BY <2>3
  <2> QED
    BY <2>1, <2>2, <2>4 DEF a
<1>8. Len(tools) = Cardinality(Called)
  <2>1. Called = {t \in Tools : Has(tools, CallOf(pr, t))}
    BY <1>3, <1>7
  <2> QED
    BY <1>6, <2>1, ListedOnce
<1>9. ASSUME NEW t \in Called
      PROVE  \E n \in DOMAIN tools : tools[n].id = CallId(t) /\ tools[n].args = Sent(t)
  <2>1. t \in Tools /\ Has(tools, CallOf(pr, t)) /\ Args(tools, CallOf(pr, t)) = Sent(t)
    BY <1>3, <1>5, <1>7
  <2>2. PICK n \in DOMAIN tools : tools[n].id = CallOf(pr, t)
    BY <2>1 DEF Has
  <2>3. Args(tools, tools[n].id) = tools[n].args
    BY <1>6, ArgsOfEntry
  <2> QED
    BY <1>4, <2>1, <2>2, <2>3
<1>10. ASSUME req.stream, NEW t \in Called
       PROVE  ArgumentsOf(answer.out, IF op = "responses" THEN ItemId(t) ELSE CallId(t)) = Sent(t)
  <2>1. t \in Tools /\ Has(answer.tools, CallOf(pr, t)) /\ Args(answer.tools, CallOf(pr, t)) = Sent(t)
    BY <1>3, <1>5, <1>7 DEF tools
  <2>2. Says(answer, op, pr)
    BY <1>6, <1>10
  <2> HIDE DEF pr
  <2>3. ArgumentsOf(answer.out, NameOf(op, pr, t)) = Args(answer.tools, CallOf(pr, t))
    BY <2>1, <2>2, SaysArguments
  <2>4. NameOf(op, pr, t) = IF op = "responses" THEN ItemId(t) ELSE CallId(t)
    BY <1>4 DEF NameOf, pr
  <2> QED
    BY <2>1, <2>3, <2>4
<1> QED
  BY <1>8, <1>9, <1>10 DEF tools, op

(* When an answer is finished, the client has every tool call once, with each fragment of its
   arguments once and in order, although the upstream repeats them: the parser passes on what is new
   in a message, the channel carries it, and streamState.event, or the document, files it under its
   call. *)
THEOREM ToolsAreDelivered == Spec => []ToolsDelivered
<1>1. GatewayInv /\ Streaming /\ [Next]_vars => Streaming'
  BY StreamingStep
<1>2. Delivery /\ Streaming /\ GatewayInv /\ [Next]_vars => Delivery'
  BY DeliveryStep
<1> QED
  BY <1>1, <1>2, ArrivedDelivered, StreamingInit, DeliveryInit, GatewayHolds, PTL DEF Spec

(* What a client gets when its answer is finished: its tool calls and its pictures. *)
THEOREM AnswerIsDelivered == Spec => []AnswerDelivered
<1>1. AnswerDelivered <=> ToolsDelivered /\ PicturesDelivered
  BY DEF AnswerDelivered
<1> QED
  BY <1>1, ToolsAreDelivered, PicturesAreDelivered, PTL
=============================================================================
