------------------------------- MODULE Gateway -------------------------------
(***************************************************************************)
(* One request of the gateway, from the moment it is admitted: the choice  *)
(* of an account and the attempts of invoke, the goroutine that reads the  *)
(* upstream, the answer as a stream or as one document, and the video job  *)
(* that outlives the request.  The client may leave at any moment.         *)
(*                                                                         *)
(* The pool appears as Acquire and Release, modelled in AccountPool; the   *)
(* upstream is the environment, see Messages.                              *)
(***************************************************************************)
EXTENDS StreamState, GrokImages, VideoJobs

CONSTANTS
  OAuth,           \* accounts of kind cli_oauth
  MaxAttempts,
  Ops,             \* operations clients ask for
  Providers,       \* identifiers an upstream sends: on an item, on an arguments message
  Tools,           \* tool calls an upstream may make
  Fragments,       \* fragments the arguments of a tool call come in
  Bodies,          \* JSON documents an upstream may send instead of a stream
  ChannelCapacity, \* places in the channel of streamEvents
  MaxMessages,     \* messages of one upstream stream
  Pictures,        \* pictures a WebSocket of grok.com tells of
  Moderated,       \* the ones of them that are withheld
  MaxPictures,     \* pictures a request may ask for
  ImagineCapacity, \* places in the channel of doImagine
  MaxFrames,       \* frames of one WebSocket
  MaxReferences    \* pictures an edit may refer to

\* The identifiers of a document, and of a stream until its upstream is known.
Usual == [item |-> {"item", "call"}, args |-> {"item"}]

ASSUME GatewayAssumption ==
  /\ OAuth \subseteq Accounts \ Sso
  /\ {MaxAttempts, Fragments, ChannelCapacity, MaxMessages, MaxPictures, MaxFrames, MaxReferences}
       \subseteq Nat \ {0}
  /\ Usual \in Providers /\ Ops \subseteq {"chat", "responses", "messages", "image", "edit", "video"}
  /\ Pictures \subseteq Nat \ {0} /\ Moderated \subseteq Pictures
  /\ ImagineCapacity \in Nat /\ ImagineCapacity > MaxPictures

(* What the upstreams have in common: an item carries an id or a call id, and a message about its
   arguments carries an identifier that the item had. *)
ASSUME ProviderAssumption ==
  \A p \in Providers : /\ p.item \cup p.args \subseteq {"item", "call", "output"}
                       /\ p.item \cap {"item", "call"} # {} /\ p.item \cap p.args # {}

VARIABLES
  req,        \* the request: operation, streaming or not, pictures encoded or not, provider of the answer
  pc,         \* where its handler is
  try,        \* the frame of invoke: attempt, excluded, refreshed, lastErr and the calls made
  canceled,   \* the client has gone
  status,     \* of the upstream response
  producer,   \* the goroutine of streamEvents, "read" or "last", or of doImagine
  upstream,   \* what the upstream has sent: per tool, in number, and whether it is over
  parser, pending, channel,
  imagine,    \* the reader of doImagine
  uploads,    \* the uploads of an image edit, one goroutine each
  answer,     \* the frames of a stream or the accumulated document, by pc
  outcome,    \* how the handler will settle: what Release and the request log are told
  code,       \* the status sent to the client, "" while no byte is
  reports     \* completions reported

handlerVars == <<req, pc, try, status, answer, outcome, code, reports>>
imageVars   == <<imagine, uploads>>
streamVars  == <<producer, upstream, parser, pending, channel, imageVars>>
vars == <<videoVars, handlerVars, streamVars, canceled>>

Conversational == {"chat", "responses", "messages"}
Imaging == {"image", "edit"}
Statuses == {"200", "400", "401", "403", "challenge", "429", "500"}
Retryable == {"401", "403", "challenge", "429", "500"}
\* mapStatus, with a 403 that is a challenge page shown as such to the pool only.
MapStatus(s) == CASE s = "challenge" -> "403" [] s = "500" -> "502" [] OTHER -> s
\* feedbackFromResponse: a challenge says nothing of the credential, only that the call failed.
FeedbackFromResponse(s) == CASE s = "200" -> "ok" [] s \in {"challenge", "500"} -> "failed" [] OTHER -> s

NoTry == [attempt |-> 0, excluded |-> {}, refreshed |-> {}, lastErr |-> FALSE,
          calls |-> [a \in Accounts |-> 0]]
Silent == [progress |-> [t \in Tools |-> -1], sent |-> 0, over |-> FALSE]

\* The context of the request is done when the client leaves and when ServeHTTP returns.
RequestDone == canceled \/ pc \in {"done", "killed"}

Init ==
  /\ VideoInit
  /\ \E op \in Ops, stream, b64 \in BOOLEAN :
       /\ stream => op \in Conversational
       /\ b64 => op \in Imaging
       /\ req = [op |-> op, stream |-> stream, b64 |-> b64, provider |-> Usual]
  /\ pc = "check" /\ try = NoTry /\ canceled = FALSE /\ status = ""
  /\ producer = "off" /\ upstream = Silent /\ parser = NewParser
  /\ pending = <<>> /\ channel = <<>> /\ imagine = NoImagine /\ uploads = <<>>
  /\ answer = NewStream /\ outcome = "" /\ code = "" /\ reports = 0

-----------------------------------------------------------------------------
\* handleOperation up to invoke: the request is refused before an account is taken.
Refused(status4xx) ==
  /\ pc = "check" /\ process # "down"
  /\ code' = status4xx /\ pc' = "done"
  /\ UNCHANGED <<videoVars, streamVars, req, try, status, answer, outcome, reports, canceled>>
\* The body is too long, not JSON or not a form, or cannot be read.
RefuseBody == Refused("400")
\* No model is named, or the one named is unknown or does not serve the operation.
RefuseModel == Refused("400") \/ Refused("404")
\* A parameter is missing or out of range; chats and messages are not looked at.
RefusePayload == req.op \notin {"chat", "messages"} /\ Refused("400")
Accept ==
  /\ pc = "check" /\ process # "down" /\ pc' = "acquire"
  /\ UNCHANGED <<videoVars, streamVars, req, try, status, answer, outcome, code, reports, canceled>>

\* Pool.Acquire with the excluded accounts, which fails when the client has gone.
Acquire ==
  /\ pc = "acquire" /\ ~canceled
  /\ \E a \in Accounts \ try.excluded :
       /\ lease' = [NoLease EXCEPT !.account = a]
       /\ pc' = IF a \in Proxied THEN "proxy" ELSE "call"
  /\ UNCHANGED <<row, job, next, grok, poller, expired, process, restarted, unsaved, faults, crashes,
                 streamVars, req, try, status, answer, outcome, code, reports, canceled>>

\* invoke returns an error: the last one it met, or the pool's.
Fails(err) ==
  /\ code' = IF err THEN "502" ELSE "429"
  /\ pc' = "done" /\ try' = NoTry
NoAccountLeft ==
  /\ pc = "acquire"
  /\ Fails(try.lastErr) \/ (canceled /\ Fails(TRUE))
  /\ UNCHANGED <<videoVars, streamVars, req, status, answer, outcome, reports, canceled>>

LastAttempt == try.attempt + 1 >= MaxAttempts

\* Mutant: the account that failed may be chosen again.
NextAttemptAnywhere(excluded, err, feedback) ==
  /\ lease' = Released(feedback)
  /\ IF ~LastAttempt
     THEN /\ try' = [try EXCEPT !.attempt = @ + 1, !.lastErr = @ \/ err]
          /\ pc' = "acquire" /\ UNCHANGED code
     ELSE Fails(try.lastErr \/ err)
  /\ UNCHANGED <<row, job, next, grok, poller, expired, process, restarted, unsaved, faults, crashes,
                 streamVars, req, status, answer, outcome, reports, canceled>>

(* The attempt is over: the account is excluded, or not, the lease is released and the loop goes
   on, or ends after its last attempt. *)
NextAttempt(excluded, err, feedback) ==
  /\ lease' = Released(feedback)
  /\ IF ~LastAttempt
     THEN /\ try' = [try EXCEPT !.attempt = @ + 1, !.excluded = @ \cup excluded, !.lastErr = @ \/ err]
          /\ pc' = "acquire" /\ UNCHANGED code
     ELSE Fails(try.lastErr \/ err)
  /\ UNCHANGED <<row, job, next, grok, poller, expired, process, restarted, unsaved, faults, crashes,
                 streamVars, req, status, answer, outcome, reports, canceled>>

ProxyResolved ==
  /\ pc = "proxy" /\ pc' = "call"
  /\ UNCHANGED <<videoVars, streamVars, req, try, status, answer, outcome, code, reports, canceled>>
ProxyFails == pc = "proxy" /\ NextAttempt({lease.account}, TRUE, "failed")

\* Upstream.Do sends the request; an image edit with grok.com uploads its references first.
Edits == req.op = "edit" /\ lease.account \in Sso
Send ==
  /\ pc = "call"
  /\ try' = [try EXCEPT !.calls[lease.account] = @ + 1]
  /\ IF Edits
     THEN pc' = "upload" /\ \E n \in 1..MaxReferences : uploads' = [i \in 1..n |-> "running"]
     ELSE pc' = "upstream" /\ UNCHANGED uploads
  /\ UNCHANGED <<videoVars, producer, upstream, parser, pending, channel, imagine, req, status, answer,
                 outcome, code, reports, canceled>>

(* The goroutines upload side by side, each with the outcome that a URL, an answer of the
   upstream or an error gives it; Do goes on when all have ended. *)
UploadEnds ==
  /\ \E i \in DOMAIN uploads : /\ uploads[i] = "running"
                              /\ \E end \in {"url", "http", "err"} : uploads' = [uploads EXCEPT ![i] = end]
  /\ UNCHANGED <<videoVars, handlerVars, producer, upstream, parser, pending, channel, imagine, canceled>>
UploadsJoined ==
  /\ pc = "upload" /\ \A i \in DOMAIN uploads : uploads[i] # "running"
  /\ pc' = Joined(uploads) /\ uploads' = <<>>
  /\ UNCHANGED <<videoVars, producer, upstream, parser, pending, channel, imagine, req, try, status,
                 answer, outcome, code, reports, canceled>>
\* The edit is posted under the id of a new media post.
PostCreated ==
  /\ pc = "post" /\ pc' = "upstream"
  /\ UNCHANGED <<videoVars, streamVars, req, try, status, answer, outcome, code, reports, canceled>>

\* Do returns an error: the network, a timeout, a limit, or the context of a client that has gone.
DoFails == pc \in {"upstream", "post", "broken"} /\ NextAttempt({lease.account}, TRUE, "failed")

\* A 401 of an OAuth account that this request has not refreshed yet is worth a refresh.
WorthRefresh(s) ==
  s = "401" /\ lease.account \in OAuth /\ ~LastAttempt /\ lease.account \notin try.refreshed

DoUnauthorized ==
  /\ pc = "upstream" /\ WorthRefresh("401")
  /\ try' = [try EXCEPT !.refreshed = @ \cup {lease.account}]
  /\ pc' = "refresh"
  /\ UNCHANGED <<videoVars, streamVars, req, status, answer, outcome, code, reports, canceled>>
\* The refresh of module OAuthRefresh: the same account may then be chosen again, or not.
Refreshed     == pc = "refresh" /\ NextAttempt({}, FALSE, "canceled")
RefreshFails  == pc = "refresh" /\ NextAttempt({lease.account}, TRUE, "canceled")

\* The upstream may have answered with an error: to the call, to the media post or to an upload.
Answered == pc \in {"upstream", "post", "refused"}
DoRetryable ==
  /\ Answered /\ ~LastAttempt
  /\ \E s \in Retryable : /\ ~WorthRefresh(s)
                          /\ NextAttempt({lease.account}, TRUE, FeedbackFromResponse(s))

(* invoke returns a response that ends the request: an error, or the answer, which is read from
   its stream of events or from its document. *)
DoRejects ==
  /\ Answered
  /\ status' \in Statuses \ {"200"}
  /\ status' \in Retryable => LastAttempt
  /\ pc' = "reject" /\ try' = NoTry
  /\ UNCHANGED <<videoVars, streamVars, req, answer, outcome, code, reports, canceled>>
DoStreams ==
  /\ pc = "upstream" /\ ~(req.op = "video" /\ lease.account \in Sso)
  /\ status' = "200" /\ try' = NoTry /\ producer' = "read"
  /\ pc' = IF req.stream THEN "start" ELSE "collect"
  /\ answer' = IF req.stream THEN NewStream ELSE NoAnswer
  /\ \E provider \in Providers :
       /\ provider = Usual \/ (req.op \in Conversational /\ lease.account \notin Sso)
       /\ req' = [req EXCEPT !.provider = provider]
  /\ UNCHANGED <<videoVars, upstream, parser, pending, channel, imageVars, outcome, code, reports, canceled>>
\* A picture of grok.com comes over a WebSocket, unless the model is a light one.
DoImagine ==
  /\ pc = "upstream" /\ req.op = "image" /\ lease.account \in Sso
  /\ status' = "200" /\ try' = NoTry /\ producer' = "imagine" /\ pc' = "collect" /\ answer' = NoAnswer
  /\ \E n \in 1..MaxPictures : imagine' = NewImagine(n)
  /\ UNCHANGED <<videoVars, upstream, parser, pending, channel, uploads, req, outcome, code, reports, canceled>>
DoDocument ==
  /\ pc = "upstream" /\ ~req.stream
  /\ status' = "200" /\ try' = NoTry /\ producer' = "closed"
  /\ \E body \in Bodies :
       /\ body.type = "malformed" => ~(req.op = "video" /\ lease.account \in Sso)
       /\ LET events == req.op \in Conversational \/ body.type = "malformed"
          IN  /\ channel' = IF events THEN ParseNonStream(body) ELSE <<>>
              /\ pc' = IF events THEN "collect" ELSE "body"
       /\ upstream' = [Silent EXCEPT !.progress = [t \in Tools |->
                         IF \E i \in DOMAIN body.output : body.output[i].tool = t
                                                          /\ body.output[i].type = "itemDone"
                         THEN Fragments + 2 ELSE -1]]
  /\ answer' = NoAnswer
  /\ IF req.op = "video" /\ lease.account \in Sso THEN StartGrokVideo ELSE UNCHANGED grok
  /\ UNCHANGED <<lease, row, job, next, poller, expired, process, restarted, unsaved, faults, crashes,
                 parser, pending, imageVars, req, outcome, code, reports, canceled>>

-----------------------------------------------------------------------------
(* The messages of an upstream (external).  A tool call is announced, its arguments come in
   fragments or at once, and are repeated by the messages that close them; the items of a
   response may overlap. *)
Msg(type) == [type |-> type, tool |-> 0, has |-> {}, item |-> FALSE, args |-> <<>>, url |-> 1,
              usage |-> FALSE, error |-> FALSE, token |-> "", media |-> <<>>, final |-> FALSE]
All == [k \in 1..Fragments |-> k]
(* What the documents of an upstream have in common: a tool call comes once, with both of its
   identifiers and all of its arguments, and what cannot be parsed has no items. *)
ASSUME BodiesAssumption ==
  \A body \in Bodies :
    /\ body.usage \in BOOLEAN /\ body.output \in Seq(Range(body.output))
    /\ body.type = "malformed" => body.output = <<>>
    /\ \A m \in Range(body.output) :
         /\ m.type \in {"reasoningDelta", "textDelta", "imageDone", "itemDone"} /\ m.url \in Nat
         /\ m.type = "itemDone" => m.tool \in Tools /\ m.args = All /\ Usual.item \subseteq m.has
    /\ \A i, j \in DOMAIN body.output :
         /\ body.output[i].type = "itemDone" /\ body.output[j].type = "itemDone"
         /\ body.output[i].tool = body.output[j].tool
         => i = j
ToolSteps(k) ==
  CASE k = -1 -> {<<"itemAdded", <<>>, 0>>, <<"itemAdded", All, Fragments>>, <<"itemDone", All, Fragments + 2>>}
    [] k \in 0..(Fragments - 1) ->
         {<<"argsDelta", <<k + 1>>, k + 1>>}
         \cup IF k = 0 THEN {<<"argsDone", All, Fragments + 1>>, <<"itemDone", All, Fragments + 2>>} ELSE {}
    [] k = Fragments -> {<<"argsDone", All, k + 1>>, <<"itemDone", All, k + 2>>}
    [] k = Fragments + 1 -> {<<"itemDone", All, k + 1>>}
    [] k = Fragments + 2 -> {}
ToolMessage(t, step) ==
  LET item == step[1] \in {"itemAdded", "itemDone"}
  IN  [Msg(step[1]) EXCEPT !.tool = t, !.item = item, !.args = step[2],
                           !.has = IF item THEN req.provider.item ELSE req.provider.args]

Plain == {Msg("textDelta"), Msg("reasoningDelta"), Msg("partialImage"), Msg("imageDone"), Msg("malformed")}
Ending == {[Msg("completed") EXCEPT !.usage = TRUE], Msg("failed"), Msg("DONE"), Msg("error")}
GrokPlain == {[Msg("grok") EXCEPT !.token = "text"], [Msg("grok") EXCEPT !.token = "reasoning"],
              [Msg("grok") EXCEPT !.media = <<"video", "image", "image">>]}
GrokEnding == {[Msg("grok") EXCEPT !.final = TRUE, !.usage = TRUE], [Msg("grok") EXCEPT !.error = TRUE]}

\* The upstream sends m, which is read and parsed; nothing is read while events wait to be sent.
Read(m, state) ==
  /\ producer = "read" /\ pending = <<>> /\ ~RequestDone
  /\ upstream.sent < MaxMessages
  /\ upstream' = [state EXCEPT !.sent = @ + 1]
  /\ UNCHANGED <<videoVars, handlerVars, producer, channel, imageVars, canceled>>
  /\ LET r == Parse(parser, m) IN parser' = r.p /\ pending' = r.events
ReadTool ==
  /\ lease.account \notin Sso /\ req.op \in Conversational /\ ~upstream.over
  /\ \E t \in Tools : \E step \in ToolSteps(upstream.progress[t]) :
       Read(ToolMessage(t, step), [upstream EXCEPT !.progress[t] = step[3]])
ReadPlain ==
  /\ ~upstream.over
  /\ \E m \in IF lease.account \in Sso THEN GrokPlain ELSE Plain : Read(m, upstream)
ReadLast ==
  \E m \in IF lease.account \in Sso THEN GrokEnding ELSE Ending :
    /\ upstream.over => m.type = "DONE"
    /\ Read(m, [upstream EXCEPT !.over = TRUE])

\* The body ends, or breaks: the timeout of the HTTP client covers it, so one of them happens.
ReadEnds ==
  /\ producer = "read" /\ pending = <<>> /\ ~RequestDone
  /\ \/ producer' = "closed" /\ UNCHANGED pending
     \/ producer' = "last" /\ pending' = <<Event("error")>>
  /\ parser' = NewParser
  /\ UNCHANGED <<videoVars, handlerVars, upstream, channel, imageVars, canceled>>

\* send: into the channel when it has room, and never when the request is over.
SendEvent ==
  /\ producer \in {"read", "last"} /\ pending # <<>> /\ ~RequestDone
  /\ Len(channel) < ChannelCapacity
  /\ channel' = Append(channel, Head(pending)) /\ pending' = Tail(pending)
  /\ UNCHANGED <<videoVars, handlerVars, producer, upstream, parser, imageVars, canceled>>
CloseChannel ==
  /\ producer = "last" /\ pending = <<>> /\ producer' = "closed"
  /\ UNCHANGED <<videoVars, handlerVars, upstream, parser, pending, channel, imageVars, canceled>>
\* Mutant: a blocked send waits for room whatever becomes of the request.
ProducerWaits ==
  /\ producer \in {"read", "last"} /\ RequestDone /\ (pending = <<>> \/ Len(channel) < ChannelCapacity)
  /\ producer' = "closed" /\ pending' = <<>> /\ parser' = NewParser
  /\ UNCHANGED <<videoVars, handlerVars, upstream, channel, imageVars, canceled>>

\* The body is closed under the goroutine and a blocked send gives up; no error is sent.
ProducerStops ==
  /\ producer \in {"read", "last"} /\ RequestDone
  /\ producer' = "closed" /\ pending' = <<>> /\ parser' = NewParser
  /\ UNCHANGED <<videoVars, handlerVars, upstream, channel, imageVars, canceled>>

(* The goroutine of doImagine.  It sends without a look at the context: the channel has a place
   for every picture a request can ask for and for the last event. *)
ImagineStep(step) ==
  /\ producer = "imagine" /\ Len(channel) + Len(step.events) <= ImagineCapacity
  /\ imagine' = step.g /\ channel' = channel \o step.events
  /\ producer' = IF step.over THEN "closed" ELSE "imagine"
  /\ UNCHANGED <<videoVars, handlerVars, parser, pending, uploads, canceled>>
ReadFrame ==
  /\ ~RequestDone /\ upstream.sent < MaxFrames
  /\ \/ \E id \in Pictures : \/ ImagineStep(ImageFrame(imagine, id))
                             \/ ImagineStep(CompletedFrame(imagine, id, id \in Moderated))
     \/ ImagineStep(ErrorFrame(imagine))
  /\ upstream' = [upstream EXCEPT !.sent = @ + 1]
\* The peer closes the connection, or reading fails: a break, the timeout, the client's departure.
ReadFrameFails ==
  /\ \E closed \in BOOLEAN : (closed => ~RequestDone) /\ ImagineStep(ReadError(imagine, closed))
  /\ UNCHANGED upstream

-----------------------------------------------------------------------------
\* An error response: reported, released with its status, and passed on.
Reject ==
  /\ pc = "reject" /\ pc' = "done"
  /\ reports' = reports + 1 /\ lease' = Released(FeedbackFromResponse(status))
  /\ code' = MapStatus(status)
  /\ UNCHANGED <<row, job, next, grok, poller, expired, process, restarted, unsaved, faults, crashes,
                 streamVars, req, try, status, answer, outcome, canceled>>

\* stream writes the headers and the first frames: from here on the status is sent.
StreamStarts ==
  /\ pc = "start" /\ pc' = "stream"
  /\ code' = "200" /\ answer' = Start(answer, req.op)
  /\ UNCHANGED <<videoVars, streamVars, req, try, status, outcome, reports, canceled>>

\* Mutant: a stream that fails is tried again with another account.
StreamEndsInRetry(frames, result) ==
  answer' = frames /\ outcome' = result /\ pc' = IF result = "failed" THEN "acquire" ELSE "settle"

\* The loop of stream ends with this outcome, and has written these frames.
StreamEnds(frames, result) == answer' = frames /\ outcome' = result /\ pc' = "settle"

StreamCanceled ==
  /\ pc = "stream" /\ canceled
  /\ StreamEnds(answer, "canceled")
  /\ UNCHANGED <<videoVars, streamVars, req, try, status, code, reports, canceled>>
\* Storing a picture or video for the client fails, always possible when the client has gone.
MediaFails == IF canceled THEN UNCHANGED faults ELSE faults < MaxFaults /\ faults' = faults + 1
LocalizeFails(e) == e.kind \in {"image", "video"} /\ MediaFails
StreamNext ==
  /\ pc = "stream" /\ channel # <<>> /\ channel' = Tail(channel)
  /\ LET e == Head(channel)
     IN  \/ /\ LocalizeFails(e)
            /\ StreamEnds(WriteError(answer, req.op), "failed")
         \/ /\ UNCHANGED faults
            /\ CASE e.kind = "error" -> StreamEnds(WriteError(answer, req.op), "failed")
                 [] e.kind = "done" -> StreamEnds(Finish(answer, req.op), "ok")
                 [] OTHER -> answer' = StreamEvent(answer, req.op, e) /\ UNCHANGED <<pc, outcome>>
  /\ UNCHANGED <<lease, row, job, next, grok, poller, expired, process, restarted, unsaved, crashes,
                 producer, upstream, parser, pending, imageVars, req, try, status, code, reports, canceled>>
\* The channel is closed without a last event: the stream is finished as if it were complete.
StreamClosed ==
  /\ pc = "stream" /\ channel = <<>> /\ producer = "closed"
  /\ StreamEnds(Finish(answer, req.op), "ok")
  /\ UNCHANGED <<videoVars, streamVars, req, try, status, code, reports, canceled>>

\* nonStream gathers every event up to the close of the channel.
Collect ==
  /\ pc = "collect" /\ channel # <<>> /\ channel' = Tail(channel)
  /\ LET e == Head(channel)
     IN  \/ LocalizeFails(e) /\ answer' = Add(answer, Event("error"))
         \/ /\ UNCHANGED faults
            /\ answer' = IF req.b64 /\ e.kind = "image" THEN AddEncoded(answer, e) ELSE Add(answer, e)
  /\ UNCHANGED <<lease, row, job, next, grok, poller, expired, process, restarted, unsaved, crashes,
                 producer, upstream, parser, pending, imageVars, req, pc, try, status, outcome, code, reports,
                 canceled>>
Collected ==
  /\ pc = "collect" /\ channel = <<>> /\ producer = "closed"
  /\ outcome' = IF answer.err THEN "failed" ELSE "ok"
  /\ pc' = "settle"
  /\ UNCHANGED <<videoVars, streamVars, req, try, status, answer, code, reports, canceled>>

(* The completion is reported and the lease released; a document is written after that, and the
   job of a video that came as a stream is stored as completed.  What was gathered is dropped. *)
Settle ==
  /\ pc = "settle" /\ pc' = "done" /\ answer' = NewStream /\ upstream' = Silent /\ imagine' = NoImagine
  /\ reports' = reports + 1 /\ lease' = Released(outcome)
  /\ code' = IF req.stream THEN code ELSE IF outcome = "ok" THEN "200" ELSE "502"
  /\ IF req.op = "video" /\ outcome = "ok"
     THEN SaveVideo("completed") \/ SaveVideoFails
     ELSE UNCHANGED <<row, unsaved, faults>>
  /\ UNCHANGED <<job, next, grok, poller, expired, process, restarted, crashes,
                 producer, parser, pending, channel, uploads, req, try, status, outcome, canceled>>

-----------------------------------------------------------------------------
\* The document of a picture or a video: its URLs are localized first.
BodyFails ==
  /\ pc = "body" /\ MediaFails
  /\ reports' = reports + 1 /\ lease' = Released("failed")
  /\ code' = "502" /\ pc' = "done"
  /\ UNCHANGED <<row, job, next, grok, poller, expired, process, restarted, unsaved, crashes,
                 streamVars, req, try, status, answer, outcome, canceled>>
\* Report, release and write.
BodyWritten ==
  /\ reports' = reports + 1 /\ lease' = Released("ok")
  /\ code' = "200" /\ pc' = "done"
BodyImage ==
  /\ pc = "body" /\ req.op \in Imaging /\ BodyWritten
  /\ UNCHANGED <<row, job, next, grok, poller, expired, process, restarted, unsaved, faults, crashes,
                 streamVars, req, try, status, answer, outcome, canceled>>

\* The status a new job is answered with.
FirstStatus(s) == IF lease.account \in Sso THEN s = "queued" ELSE s \in NotYet \cup Terminal

(* saveVideoAndStartPolling: the job is stored with the request's context, and an unfinished one
   gets a poller, which takes the lease over. *)
StartPolling ==
  /\ pc = "body" /\ req.op = "video" /\ ~canceled
  /\ \E s \in NotYet : FirstStatus(s) /\ SaveVideo(s) /\ job' = s
  /\ poller' = "start"
  /\ reports' = reports + 1 /\ code' = "200" /\ pc' = "done"
  /\ UNCHANGED <<lease, next, grok, expired, process, restarted, crashes,
                 streamVars, req, try, status, answer, outcome, canceled>>

(* No poller: the job is finished, has no id, or could not be stored.  saveVideoPayload tries to
   store it again, and may succeed where the first attempt failed. *)
KeepWithoutPolling ==
  /\ pc = "body" /\ req.op = "video"
  /\ \E s \in NotYet \cup Terminal \cup {"none"} :
       /\ s # "none" => FirstStatus(s)
       /\ s \in NotYet => canceled \/ faults < MaxFaults
       /\ faults' = IF s \in NotYet /\ ~canceled THEN faults + 1 ELSE faults
       /\ unsaved' = (unsaved \/ s \in NotYet)
       /\ row' \in IF s = "none" \/ canceled THEN {row} ELSE {row, s}
  /\ BodyWritten
  /\ UNCHANGED <<job, next, grok, poller, expired, process, restarted, crashes,
                 streamVars, req, try, status, answer, outcome, canceled>>

-----------------------------------------------------------------------------
\* The client leaves.
Cancel ==
  /\ ~RequestDone /\ canceled' = TRUE
  /\ UNCHANGED <<videoVars, handlerVars, streamVars>>

\* The process dies under the request.
Die ==
  /\ process # "down" /\ crashes < MaxCrashes /\ VideoDies
  /\ pc' = IF pc = "done" THEN pc ELSE "killed"
  /\ try' = NoTry /\ answer' = NewStream
  /\ producer' = IF producer = "off" THEN "off" ELSE "closed"
  /\ pending' = <<>> /\ channel' = <<>> /\ parser' = NewParser /\ upstream' = Silent /\ outcome' = ""
  /\ imagine' = NoImagine /\ uploads' = <<>>
  /\ UNCHANGED <<req, status, code, reports, canceled>>

\* A stop concerns the jobs of videos only: requests are served to their end.
Video == \/ RunGrokVideo \/ ForgetGrokVideo \/ Poll \/ Restart \/ PeerStarts
         \/ Stop /\ req.op = "video"

Handle == \/ RefuseBody \/ RefuseModel \/ RefusePayload \/ Accept \/ Acquire \/ NoAccountLeft
          \/ ProxyResolved \/ ProxyFails \/ Send \/ UploadEnds \/ UploadsJoined \/ PostCreated
          \/ DoFails \/ DoUnauthorized \/ Refreshed \/ RefreshFails \/ DoRetryable \/ DoRejects
          \/ DoStreams \/ DoDocument \/ DoImagine \/ Reject
          \/ StreamStarts \/ StreamCanceled \/ StreamNext \/ StreamClosed
          \/ Collect \/ Collected \/ Settle \/ BodyFails \/ BodyImage
          \/ StartPolling \/ KeepWithoutPolling
Carry   == ReadEnds \/ SendEvent \/ CloseChannel \/ ProducerStops \/ ReadFrameFails
Produce == ReadTool \/ ReadPlain \/ ReadLast \/ ReadFrame \/ Carry

Next == \/ Handle \/ Produce \/ Cancel \/ Die
        \/ Video /\ UNCHANGED <<handlerVars, streamVars, canceled>>

Spec == Init /\ [][Next]_vars

PollRuns     == Poll /\ UNCHANGED <<handlerVars, streamVars, canceled>>
PollTimesOut == PollDeadline /\ UNCHANGED <<handlerVars, streamVars, canceled>>
PollGivesUp  == (PollExpires \/ PollStops) /\ UNCHANGED <<handlerVars, streamVars, canceled>>

(* The handler and its goroutines run; the deadlines of the HTTP client and of the poller pass;
   the select of the poller, which Go resolves at random, takes a ready context in the end.  The
   upstream need not send anything. *)
Fairness ==
  /\ WF_vars(Handle) /\ WF_vars(Carry)
  /\ WF_vars(PollRuns) /\ WF_vars(PollTimesOut) /\ SF_vars(PollGivesUp)
FairSpec == Spec /\ Fairness

-----------------------------------------------------------------------------
\* The variables have their types, and a pc with a lease has an account.
TypeOK ==
  /\ lease.account \in Accounts \cup {NoAccount} /\ lease.releases \in 0..2
  /\ row \in NotYet \cup Terminal \cup {"none"} /\ job \in NotYet \cup {"none"}
  /\ grok \in {"none", "queued", "in_progress"} \cup Terminal
  /\ poller \in {"none", "start", "wait", "drain", "query", "save"}
  /\ process \in {"up", "stopping", "down"}
  /\ pc \in {"check", "acquire", "proxy", "call", "upload", "post", "refused", "broken", "upstream", "refresh",
             "reject", "start", "stream", "collect", "settle", "body", "done", "killed"}
  /\ try.attempt \in 0..(MaxAttempts - 1) /\ try.excluded \subseteq Accounts
  /\ producer \in {"off", "read", "last", "imagine", "closed"}
  /\ producer \in {"read", "last"} => Len(channel) <= ChannelCapacity
  /\ producer = "imagine" => Len(channel) <= ImagineCapacity
  /\ outcome \in {"", "ok", "canceled", "failed"} /\ reports \in 0..1

(* A lease is released exactly once, never while the handler or the poller still uses the
   account, and never forgotten when the next one is acquired, when the request ends or when its
   poller does: invoke, handleOperation, stream, nonStream and pollVideo each release on some of
   their paths, and one hands the lease to another. *)
LeaseReleasedOnce ==
  /\ lease.releases <= 1
  /\ pc \notin {"check", "acquire", "done", "killed"} \/ Polling \/ uploads # <<>> =>
       lease.account # NoAccount /\ lease.releases = 0
  /\ pc \in {"acquire", "done"} /\ ~Polling /\ lease.account # NoAccount => lease.releases = 1

(* Over the attempts of invoke an account is called a second time only after this request has
   refreshed it, and never a third time. *)
OneCallPerAccount ==
  \A a \in Accounts : try.calls[a] <= 1 + Cardinality({a} \cap try.refreshed)

(* "Retries are limited to failures that happen before response bytes are committed"
   (architecture.md): a call to the upstream is made only while the client has no byte. *)
NoRetryAfterBytes == [][pc = "call" /\ pc' \in {"upload", "upstream"} => code = "" /\ reports = 0]_vars

(* A request that got a response of the upstream reports its completion once, whichever way it
   ends, and one that got none reports nothing. *)
CompletionOnce == pc = "done" => reports = IF status = "" THEN 0 ELSE 1

(* At every moment the frames sent are the beginning of a well-formed stream of the operation,
   whatever order the items of the upstream come in and wherever it stops. *)
FramesWellFormed ==
  req.stream => /\ EndsOnce(answer.out)
                /\ OutputWellFormed(answer.out)
                /\ BlocksWellFormed(answer.out)

\* The identifiers of tool call t that a client sees.
CallId(t) == Id(IF "call" \in req.provider.item THEN "call" ELSE "item", t)
ItemId(t) == Id(IF "item" \in req.provider.item THEN "item" ELSE "fc", t)
\* The argument fragments the upstream has sent for t.
Sent(t) == [k \in 1..Min({Fragments, Max({0, upstream.progress[t]})}) |-> k]
Called == {t \in Tools : upstream.progress[t] >= 0}

(* When an answer is finished, the client has every tool call once, with each fragment of its
   arguments once and in order, although the upstream repeats them. *)
ToolsDelivered ==
  pc = "settle" /\ outcome = "ok" /\ ~canceled /\ req.op \in Conversational =>
    /\ Len(answer.tools) = Cardinality(Called)
    /\ \A t \in Called :
         \E n \in DOMAIN answer.tools : answer.tools[n].id = CallId(t) /\ answer.tools[n].args = Sent(t)
    /\ req.stream => \A t \in Called :
         ArgumentsOf(answer.out, IF req.op = "responses" THEN ItemId(t) ELSE CallId(t)) = Sent(t)

(* An answer with pictures made over a WebSocket has at least one and at most as many as were
   asked for, each once and none that was withheld, however often its frames are repeated. *)
PicturesDelivered ==
  pc = "settle" /\ outcome = "ok" /\ imagine.requested > 0 =>
    /\ Len(answer.media) \in 1..imagine.requested
    /\ Cardinality(Range(answer.media)) = Len(answer.media)
    /\ \A i \in DOMAIN answer.media : answer.media[i].url \in Pictures \ Moderated

(* Every request ends, the goroutine that reads its upstream ends with it, and so does every
   poller: none waits for another for ever. *)
EverythingEnds ==
  <>[](pc \in {"done", "killed"} /\ producer \in {"off", "closed"} /\ uploads = <<>> /\ ~Polling)

(* "Client cancellation is not an upstream health failure" (pool.go): an account is not reported
   as failing because the client left while it was called. *)
CancellationIsNoFailure ==
  [][pc = "upstream" /\ canceled /\ lease'.releases > lease.releases => lease'.feedback # "failed"]_vars

\* A request is settled once: one release of its lease and one report of its completion.
SettledOnce == LeaseReleasedOnce /\ CompletionOnce

\* What a client gets when its answer is finished: its tool calls and its pictures.
AnswerDelivered == ToolsDelivered /\ PicturesDelivered

\* The state is well formed, and the row of a video job and its poller belong together.
JobsTracked == TypeOK /\ RowFollowsPoller /\ JobHasPoller
=============================================================================
