---------------------------- MODULE GatewayProofs ----------------------------
(***************************************************************************)
(* SettledOnce, OneCallPerAccount, NoRetryAfterBytes and JobsTracked of    *)
(* Gateway, for any accounts, operations, documents and limits.            *)
(*                                                                         *)
(* The places of the handler fall into three phases: it tries accounts, it *)
(* gives an answer, or it is over.  Which place it is at says whether it   *)
(* holds a lease, whether an upstream has responded, whether a byte or a   *)
(* report is out and whether there is a job; a poller takes the lease over *)
(* when the handler ends.  The first lemmas sort the steps by what they do *)
(* to all of that, and each invariant is then shown for each sort.         *)
(*                                                                         *)
(* The facts that StreamProofs needs of sequences, of frames, of a stream  *)
(* that records tool calls, and of the parser come after that.             *)
(***************************************************************************)
EXTENDS Gateway, FiniteSetTheorems, SequenceTheorems, TLAPS

\* The places of an attempt, from the choice of its account on, and those where a call may be out.
CallOut == {"upload", "post", "refused", "broken", "upstream"}
Calling == {"proxy", "call", "refresh"} \cup CallOut
Trying == {"check", "acquire"} \cup Calling
\* The places where an upstream has responded.
Answering == {"reject", "start", "stream", "collect", "settle", "body"}
Holding == Calling \cup Answering
Over == {"done", "killed"}

Feedbacks == Statuses \cup {"none", "", "ok", "canceled", "failed"}
Leases == [account : Accounts \cup {NoAccount}, feedback : Feedbacks, releases : Nat]
Tries == [attempt : 0..(MaxAttempts - 1), excluded : SUBSET Accounts, refreshed : SUBSET Accounts,
          lastErr : BOOLEAN, calls : [Accounts -> Nat]]
JobStatuses == NotYet \cup Terminal \cup {"none"}

\* The types of the variables the results are about.
Types ==
  /\ lease \in Leases /\ try \in Tries
  /\ pc \in Trying \cup Answering \cup Over
  /\ status \in Statuses \cup {""} /\ outcome \in {"", "ok", "canceled", "failed"}
  /\ row \in JobStatuses /\ job \in NotYet \cup {"none"} /\ next \in JobStatuses
  /\ grok \in {"none", "queued", "in_progress"} \cup Terminal
  /\ poller \in {"none", "start", "wait", "drain", "query", "save"}
  /\ process \in {"up", "stopping", "down"}

(* Who holds a lease: the handler at its places, then the poller, which begins when the handler is
   done; nobody holds one that is not released.  A process that is down has neither. *)
Leasing ==
  /\ pc \in Holding \/ Polling => lease.account \in Accounts /\ lease.releases = 0
  /\ pc \notin Holding /\ ~Polling => (lease.account = NoAccount /\ lease.releases = 0) \/ lease.releases = 1
  /\ Polling => pc = "done"
  /\ process = "down" => pc \in Over /\ ~Polling
  /\ uploads # <<>> => pc = "upload"

\* What the client and the request log have been told.
Responded == status # ""
Unsent == code = ""
Reporting ==
  /\ pc \in Trying => ~Responded /\ Unsent /\ reports = 0
  /\ pc \in Answering => Responded /\ reports = 0
  /\ pc = "done" => reports = IF Responded THEN 1 ELSE 0
  /\ reports \in 0..1

(* The calls of invoke: an account it may still choose has been called only if it was refreshed
   afterwards, unless it is the account whose call is out. *)
Refreshes(a) == IF a \in try.refreshed THEN 1 ELSE 0
Attempts ==
  /\ \A a \in Accounts : try.calls[a] <= 1 + Refreshes(a)
  /\ \A a \in Accounts \ try.excluded :
       try.calls[a] <= Refreshes(a) \/ (pc \in CallOut /\ a = lease.account)
  /\ pc \in {"proxy", "call"} => lease.account \notin try.excluded

\* The job of a video: there is none before the request is done, and one that runs has its poller.
Jobs ==
  /\ pc \notin Over => row = "none"
  /\ poller = "save" => next \in NotYet \cup Terminal
  /\ RowFollowsPoller /\ JobHasPoller

\* A sequence, of whatever it holds.
IsQueue(s) == s \in Seq({s[n] : n \in DOMAIN s})
\* The channel of the response: there is none while accounts are tried.
Channel ==
  /\ producer \in {"off", "read", "last", "imagine", "closed"}
  /\ pc \in Trying => producer = "off" /\ channel = <<>>
  /\ producer \in {"read", "last", "imagine"} => IsQueue(channel)
  /\ producer \in {"read", "last"} => Len(channel) <= ChannelCapacity
  /\ producer = "imagine" => Len(channel) <= ImagineCapacity

GatewayInv == Types /\ Leasing /\ Reporting /\ Attempts /\ Jobs /\ Channel

-----------------------------------------------------------------------------
(* The steps of a request, by what they do.                                *)

jobVars == <<row, job, next, poller, expired, process, restarted, unsaved>>

\* Nothing but the stream, the answer or an upload moves.
Stays ==
  /\ UNCHANGED <<lease, jobVars, grok, pc, try, status, outcome, code, reports>>
  /\ uploads' = uploads \/ pc = "upload"

\* The handler goes on with the account it has, before a response.
GoesOn ==
  /\ UNCHANGED <<lease, jobVars, grok, status, outcome, code, reports>>
  /\ uploads' # <<>> => pc' = "upload"
  /\ \/ pc = "check" /\ pc' = "acquire" /\ try' = try /\ process # "down"
     \/ pc = "proxy" /\ pc' = "call" /\ try' = try
     \/ pc = "call" /\ pc' \in {"upload", "upstream"} /\ try' = [try EXCEPT !.calls[lease.account] = @ + 1]
     \/ pc \in CallOut /\ pc' \in CallOut /\ try' = try
     \/ /\ pc = "upstream" /\ pc' = "refresh" /\ lease.account \notin try.refreshed
        /\ try' = [try EXCEPT !.refreshed = @ \cup {lease.account}]

\* An account is chosen.
Chooses ==
  /\ UNCHANGED <<jobVars, grok, status, outcome, code, reports, try, uploads>>
  /\ pc = "acquire" /\ pc' \in {"proxy", "call"}
  /\ \E a \in Accounts \ try.excluded : lease' = [NoLease EXCEPT !.account = a]

\* The request is over without a response and without a lease.
GivesUp ==
  /\ UNCHANGED <<lease, jobVars, grok, status, outcome, reports, uploads>>
  /\ pc \in {"check", "acquire"} /\ pc' = "done" /\ try' \in {try, NoTry}

\* An attempt is over: its lease is released, and its account excluded unless it was refreshed.
GivesBack ==
  /\ UNCHANGED <<jobVars, grok, status, outcome, reports, uploads>>
  /\ pc \in Calling \ {"call", "upload"} /\ pc' \in {"acquire", "done"}
  /\ \E f \in Feedbacks : lease' = Released(f)
  /\ pc' = "acquire" => code' = code
  /\ \/ pc' = "done" /\ try' = NoTry
     \/ /\ pc' = "acquire" /\ try.attempt + 1 < MaxAttempts
        /\ \E more \in SUBSET {lease.account}, err \in BOOLEAN :
             /\ pc # "refresh" => more = {lease.account}
             /\ try' = [try EXCEPT !.attempt = @ + 1, !.excluded = @ \cup more, !.lastErr = err]

\* The upstream has responded.
Responds ==
  /\ UNCHANGED <<lease, jobVars, outcome, code, reports, uploads>>
  /\ pc \in CallOut \ {"upload"} /\ pc' \in Answering /\ try' = NoTry
  /\ status' \in Statuses /\ grok' \in {grok, "queued"}

\* The answer goes on.
Serves ==
  /\ UNCHANGED <<lease, jobVars, grok, try, status, reports, uploads>>
  /\ pc \in Answering /\ pc' \in Answering
  /\ outcome' \in {outcome, "ok", "canceled", "failed"}

\* The answer is over: it is reported, the lease released and a video stored.
Settles ==
  /\ UNCHANGED <<job, next, poller, expired, process, restarted, grok, try, status, outcome, uploads>>
  /\ pc \in Answering /\ pc' = "done" /\ reports' = reports + 1
  /\ \E f \in Feedbacks : lease' = Released(f)
  /\ row' \in JobStatuses
  /\ row' \in {row} \cup Terminal \/ unsaved'
  /\ unsaved => unsaved'

\* The answer is over, and a poller takes the lease with the job.
HandsOver ==
  /\ UNCHANGED <<lease, next, grok, expired, process, restarted, unsaved, try, status, outcome, uploads>>
  /\ pc = "body" /\ pc' = "done" /\ reports' = reports + 1
  /\ poller' = "start" /\ row' \in NotYet /\ job' = row'

HandlerSteps == GoesOn \/ Chooses \/ GivesUp \/ GivesBack \/ Responds \/ Serves \/ Settles \/ HandsOver

-----------------------------------------------------------------------------
\* The limits are numbers.
LEMMA Limits == /\ MaxAttempts \in Nat \ {0} /\ ChannelCapacity \in Nat \ {0}
                /\ ImagineCapacity \in Nat
BY GatewayAssumption

\* What an attempt gives back, whatever it tells the pool.
LEMMA AttemptOver ==
  ASSUME Types, NEW more \in SUBSET {lease.account}, NEW err \in BOOLEAN, NEW f \in Feedbacks,
         pc \in Calling \ {"call", "upload"}, pc # "refresh" => more = {lease.account},
         NextAttempt(more, err, f)
  PROVE  GivesBack
<1>1. /\ UNCHANGED <<jobVars, grok, status, outcome, reports, uploads>>
      /\ \E g \in Feedbacks : lease' = Released(g)
  BY DEF NextAttempt, jobVars, streamVars, imageVars
<1>2. CASE LastAttempt
  BY <1>1, <1>2 DEF NextAttempt, GivesBack, Fails
<1>3. CASE ~LastAttempt
  <2>1. try.attempt + 1 < MaxAttempts
    <3>1. try.attempt \in 0..(MaxAttempts - 1)
      BY DEF Types, Tries
    <3>2. ~(try.attempt + 1 >= MaxAttempts)
      BY <1>3 DEF LastAttempt
    <3> QED
      BY <3>1, <3>2, Limits
  <2>2. (try.lastErr \/ err) \in BOOLEAN
    BY DEF Types, Tries
  <2>3. /\ try' = [try EXCEPT !.attempt = @ + 1, !.excluded = @ \cup more, !.lastErr = try.lastErr \/ err]
        /\ pc' = "acquire" /\ code' = code
    BY <1>3 DEF NextAttempt
  <2> QED
    BY <1>1, <2>1, <2>2, <2>3 DEF GivesBack
<1> QED
  BY <1>2, <1>3

\* The steps that try accounts.
LEMMA TryingSteps ==
  ASSUME Types,
         \/ RefuseBody \/ RefuseModel \/ RefusePayload \/ Accept \/ Acquire \/ NoAccountLeft
         \/ ProxyResolved \/ ProxyFails \/ Send \/ UploadEnds \/ UploadsJoined \/ PostCreated
         \/ DoFails \/ DoUnauthorized \/ Refreshed \/ RefreshFails \/ DoRetryable,
         Leasing
  PROVE  Stays \/ HandlerSteps
<1> USE DEF HandlerSteps, videoVars, handlerVars, streamVars, imageVars, jobVars, Calling, CallOut
<1>1. CASE RefuseBody \/ RefuseModel \/ RefusePayload
  BY <1>1 DEF RefuseBody, RefuseModel, RefusePayload, Refused, GivesUp
<1>2. CASE Accept
  BY <1>2 DEF Accept, GoesOn, Leasing
<1>3. CASE Acquire
  BY <1>3 DEF Acquire, Chooses
<1>4. CASE NoAccountLeft
  BY <1>4 DEF NoAccountLeft, Fails, GivesUp
<1>5. CASE ProxyResolved
  BY <1>5 DEF ProxyResolved, GoesOn, Leasing
<1>6. CASE ProxyFails
  BY <1>6, AttemptOver DEF ProxyFails, Feedbacks
<1>7. CASE Send
  BY <1>7 DEF Send, GoesOn, Leasing
<1>8. CASE UploadEnds
  <2>1. uploads # <<>>
    BY <1>8 DEF UploadEnds
  <2> QED
    BY <1>8, <2>1 DEF UploadEnds, Stays, Leasing
<1>9. CASE UploadsJoined
  <2>1. Joined(uploads) \in {"post", "refused", "broken"}
    BY DEF Joined
  <2> QED
    BY <1>9, <2>1 DEF UploadsJoined, GoesOn
<1>10. CASE PostCreated
  BY <1>10 DEF PostCreated, GoesOn, Leasing
<1>11. CASE DoFails
  BY <1>11, AttemptOver DEF DoFails, Feedbacks
<1>12. CASE DoUnauthorized
  BY <1>12 DEF DoUnauthorized, WorthRefresh, GoesOn, Leasing
<1>13. CASE Refreshed
  BY <1>13, AttemptOver DEF Refreshed, Feedbacks
<1>14. CASE RefreshFails
  BY <1>14, AttemptOver DEF RefreshFails, Feedbacks
<1>15. CASE DoRetryable
  <2>1. PICK s \in Retryable : NextAttempt({lease.account}, TRUE, FeedbackFromResponse(s))
    BY <1>15 DEF DoRetryable
  <2>2. FeedbackFromResponse(s) \in Feedbacks
    BY <2>1 DEF FeedbackFromResponse, Feedbacks, Retryable, Statuses
  <2>3. pc \in {"upstream", "post", "refused"}
    BY <1>15 DEF DoRetryable, Answered
  <2> QED
    BY <2>1, <2>2, <2>3, AttemptOver
<1> QED
  BY <1>1, <1>2, <1>3, <1>4, <1>5, <1>6, <1>7, <1>8, <1>9, <1>10, <1>11, <1>12, <1>13, <1>14, <1>15

\* The steps that bring a response, and give the answer.
LEMMA AnsweringSteps ==
  ASSUME Types,
         \/ DoRejects \/ DoStreams \/ DoDocument \/ DoImagine \/ Reject
         \/ StreamStarts \/ StreamCanceled \/ StreamNext \/ StreamClosed
         \/ Collect \/ Collected \/ Settle \/ BodyFails \/ BodyImage
         \/ StartPolling \/ KeepWithoutPolling
  PROVE  Stays \/ HandlerSteps
<1> USE DEF HandlerSteps, videoVars, handlerVars, streamVars, imageVars, jobVars, CallOut, Answering
<1>1. CASE DoRejects
  BY <1>1 DEF DoRejects, Answered, Responds
<1>2. CASE DoStreams
  BY <1>2 DEF DoStreams, Responds, Statuses
<1>3. CASE DoDocument
  BY <1>3 DEF DoDocument, StartGrokVideo, Responds, Statuses
<1>4. CASE DoImagine
  BY <1>4 DEF DoImagine, Responds, Statuses
<1>5. CASE StreamStarts
  BY <1>5 DEF StreamStarts, Serves
<1>6. CASE StreamCanceled \/ StreamClosed
  BY <1>6 DEF StreamCanceled, StreamClosed, StreamEnds, Serves
<1>7. CASE StreamNext
  BY <1>7 DEF StreamNext, StreamEnds, Serves, Stays
<1>8. CASE Collect
  BY <1>8 DEF Collect, Stays
<1>9. CASE Collected
  BY <1>9 DEF Collected, Serves
<1>10. CASE Reject
  <2>1. FeedbackFromResponse(status) \in Feedbacks
    BY DEF FeedbackFromResponse, Feedbacks, Types
  <2> QED
    BY <1>10, <2>1 DEF Reject, Settles, Types
<1>11. CASE Settle
  <2>1. outcome \in Feedbacks
    BY DEF Feedbacks, Types
  <2>2. /\ row' \in JobStatuses
        /\ row' \in {row} \cup Terminal \/ unsaved'
        /\ unsaved => unsaved'
    BY <1>11 DEF Settle, SaveVideo, SaveVideoFails, Types, Terminal, Completed, JobStatuses
  <2> QED
    BY <1>11, <2>1, <2>2 DEF Settle, Settles
<1>12. CASE BodyFails \/ BodyImage
  <2>1. {"ok", "failed"} \subseteq Feedbacks
    BY DEF Feedbacks
  <2> QED
    BY <1>12, <2>1 DEF BodyFails, BodyImage, BodyWritten, Settles, Types
<1>13. CASE StartPolling
  BY <1>13 DEF StartPolling, SaveVideo, HandsOver
<1>14. CASE KeepWithoutPolling
  <2>1. PICK s \in JobStatuses : /\ unsaved' = (unsaved \/ s \in NotYet)
                                 /\ row' \in {row, s} /\ (s = "none" => row' = row)
    BY <1>14 DEF KeepWithoutPolling, JobStatuses
  <2>2. /\ row' \in JobStatuses
        /\ row' \in {row} \cup Terminal \/ unsaved'
        /\ unsaved => unsaved'
    BY <2>1 DEF JobStatuses, Types
  <2>3. "ok" \in Feedbacks
    BY DEF Feedbacks
  <2> QED
    BY <1>14, <2>2, <2>3 DEF KeepWithoutPolling, BodyWritten, Settles
<1> QED
  BY <1>1, <1>2, <1>3, <1>4, <1>5, <1>6, <1>7, <1>8, <1>9, <1>10, <1>11, <1>12, <1>13, <1>14

\* What carries the stream, and the departure of the client, tell the rest nothing.
LEMMA StreamSteps ==
  ASSUME Produce \/ Cancel
  PROVE  Stays
<1> USE DEF Stays, videoVars, handlerVars, streamVars, imageVars, jobVars, Read
<1>1. CASE ReadTool
  BY <1>1 DEF ReadTool
<1>2. CASE ReadPlain
  BY <1>2 DEF ReadPlain
<1>3. CASE ReadLast
  BY <1>3 DEF ReadLast
<1>4. CASE ReadFrame
  BY <1>4 DEF ReadFrame, ImagineStep
<1>5. CASE ReadEnds \/ SendEvent \/ CloseChannel \/ ProducerStops
  BY <1>5 DEF ReadEnds, SendEvent, CloseChannel, ProducerStops
<1>6. CASE ReadFrameFails
  BY <1>6 DEF ReadFrameFails, ImagineStep
<1>7. CASE Cancel
  BY <1>7 DEF Cancel
<1> QED
  BY <1>1, <1>2, <1>3, <1>4, <1>5, <1>6, <1>7 DEF Produce, Carry

-----------------------------------------------------------------------------
(* The steps of a video job, by what they do.                              *)

\* The poller goes on; the status it stores is then the one it holds.
PollerGoesOn ==
  /\ UNCHANGED <<lease, grok, process, restarted, unsaved>>
  /\ Polling /\ poller' \in {"start", "wait", "drain", "query", "save"}
  /\ \/ /\ UNCHANGED <<row, job>> /\ next' \in JobStatuses
        /\ poller' = "save" => next' \in NotYet \cup Terminal
     \/ /\ poller = "save" /\ next \in NotYet /\ row' = next /\ job' = next
        /\ poller' = "wait" /\ next' = "none"

\* The poller returns: the row is terminal, or a save has failed, or the service stops.
PollerEnds ==
  /\ UNCHANGED <<grok, process, restarted>>
  /\ Polling /\ poller' = "none" /\ job' = "none" /\ next' = "none" /\ expired' = FALSE
  /\ \E f \in Feedbacks : lease' = Released(f)
  /\ row' \in {row} \cup Terminal /\ (unsaved => unsaved')
  /\ row' \in Terminal \/ unsaved' \/ process # "up"

\* What happens around the poller: the client's own job, a start of an instance, a stop.
Around ==
  /\ UNCHANGED <<lease, job, next, poller, expired, unsaved>>
  /\ grok' \in {"none", "queued", "in_progress"} \cup Terminal
  /\ \/ UNCHANGED <<row, process, restarted>>
     \/ process = "up" /\ process' = "stopping" /\ UNCHANGED <<row, restarted>>
     \/ /\ process = "down" /\ process' = "up" /\ (restarted \/ row # "none" => restarted')
        /\ row' = IF row \in Interruptible THEN "failed" ELSE row

\* A job of a video moves in one of these ways.
LEMMA FailPolling ==
  ASSUME Types, Polling, NEW f \in Feedbacks, FailVideoPolling(f)
  PROVE  PollerEnds
<1>1. /\ row' \in {row} \cup Terminal /\ (unsaved => unsaved')
      /\ row' \in Terminal \/ unsaved'
  BY DEF FailVideoPolling, SaveVideo, SaveVideoFails, Terminal, Failed
<1> QED
  BY <1>1 DEF FailVideoPolling, EndPolling, PollerEnds

LEMMA PollerSteps ==
  ASSUME Types, Jobs, Poll
  PROVE  PollerGoesOn \/ PollerEnds
<1>1. {"ok", "failed"} \subseteq Feedbacks
  BY DEF Feedbacks
<1> USE DEF PollerGoesOn, Polling, Types
<1>2. CASE PollStarts
  BY <1>2 DEF PollStarts
<1>3. CASE PollProxyFails
  BY <1>3, <1>1, FailPolling DEF PollProxyFails
<1>4. CASE PollDeadline
  BY <1>4 DEF PollDeadline, Jobs
<1>5. CASE PollExpires
  BY <1>5, <1>1, FailPolling DEF PollExpires
<1>6. CASE PollStops
  BY <1>6, <1>1 DEF PollStops, EndPolling, PollerEnds
<1>7. CASE PollTimer
  BY <1>7 DEF PollTimer
<1>8. CASE PollAgain
  BY <1>8 DEF PollAgain
<1>9. CASE PollRejected
  BY <1>9, <1>1, FailPolling DEF PollRejected
<1>10. CASE PollAnswered
  BY <1>10 DEF PollAnswered, JobStatuses
<1>11. CASE PollSaves
  <2>1. next \in NotYet \cup Terminal
    BY <1>11 DEF PollSaves, Jobs
  <2>2. CASE next \in Terminal
    BY <1>11, <1>1, <2>2 DEF PollSaves, SaveVideo, EndPolling, PollerEnds
  <2>3. CASE next \notin Terminal
    BY <1>11, <2>1, <2>3 DEF PollSaves, SaveVideo, JobStatuses
  <2> QED
    BY <2>2, <2>3
<1>12. CASE PollSaveFails
  BY <1>12 DEF PollSaveFails, JobStatuses
<1> QED
  BY <1>2, <1>3, <1>4, <1>5, <1>6, <1>7, <1>8, <1>9, <1>10, <1>11, <1>12 DEF Poll

\* The process dies under the request and the poller.
Dies ==
  /\ UNCHANGED <<row, restarted, unsaved, status, code, reports>>
  /\ process # "down" /\ process' = "down"
  /\ grok' = "none" /\ poller' = "none" /\ job' = "none" /\ next' = "none" /\ expired' = FALSE
  /\ lease' = NoLease /\ try' = NoTry /\ outcome' = "" /\ uploads' = <<>>
  /\ pc' = IF pc = "done" THEN pc ELSE "killed"

VideoSteps == /\ PollerGoesOn \/ PollerEnds \/ Around
              /\ UNCHANGED <<pc, try, status, outcome, code, reports, uploads>>

\* Every step of the gateway is of one of these sorts.
LEMMA Sorts ==
  ASSUME GatewayInv, [Next]_vars
  PROVE  Stays \/ HandlerSteps \/ VideoSteps \/ Dies
<1> USE DEF GatewayInv
<1>1. CASE Handle
  BY <1>1, TryingSteps, AnsweringSteps DEF Handle
<1>2. CASE Produce \/ Cancel
  BY <1>2, StreamSteps
<1>3. CASE Die
  BY <1>3 DEF Die, VideoDies, Dies
<1>4. CASE Video /\ UNCHANGED <<handlerVars, streamVars, canceled>>
  <2>1. UNCHANGED <<pc, try, status, outcome, code, reports, uploads>>
    BY <1>4 DEF handlerVars, streamVars, imageVars
  <2>2. CASE Poll
    BY <2>1, <2>2, PollerSteps DEF VideoSteps
  <2>3. CASE RunGrokVideo \/ ForgetGrokVideo \/ PeerStarts \/ Stop
    BY <2>1, <2>3 DEF RunGrokVideo, ForgetGrokVideo, PeerStarts, FailInterruptedVideos, Stop,
       Around, VideoSteps, Types
  <2>4. CASE Restart
    BY <2>1, <2>4 DEF Restart, FailInterruptedVideos, Around, VideoSteps, Types
  <2> QED
    BY <1>4, <2>2, <2>3, <2>4 DEF Video
<1>5. CASE UNCHANGED vars
  BY <1>5 DEF vars, videoVars, handlerVars, streamVars, imageVars, Stays, jobVars
<1> QED
  BY <1>1, <1>2, <1>3, <1>4, <1>5 DEF Next

-----------------------------------------------------------------------------
(* The invariants, for each sort of step.                                  *)

\* What a try and a lease are made of.
LEMMA Parts ==
  ASSUME Types
  PROVE  /\ try.attempt \in 0..(MaxAttempts - 1) /\ try.excluded \subseteq Accounts
         /\ try.refreshed \subseteq Accounts /\ try.lastErr \in BOOLEAN
         /\ try.calls \in [Accounts -> Nat]
         /\ lease.account \in Accounts \cup {NoAccount} /\ lease.releases \in Nat
BY DEF Types, Tries, Leases

\* A release, and a new lease, are leases.
LEMMA Release ==
  ASSUME lease \in Leases, NEW f \in Feedbacks
  PROVE  /\ Released(f) \in Leases
         /\ Released(f).account = lease.account /\ Released(f).releases = lease.releases + 1
<1>1. lease.releases \in Nat /\ lease.account \in Accounts \cup {NoAccount}
  BY DEF Leases
<1>2. lease.releases + 1 \in Nat
  BY <1>1
<1>3. Released(f).account = lease.account /\ Released(f).releases = lease.releases + 1
  BY <1>1 DEF Released, Leases
<1>4. Released(f) \in Leases
  BY <1>2 DEF Released, Leases
<1> QED
  BY <1>3, <1>4
LEMMA Fresh ==
  /\ NoLease \in Leases /\ NoLease.account = NoAccount /\ NoLease.releases = 0
  /\ \A a \in Accounts : LET l == [NoLease EXCEPT !.account = a]
                         IN  l \in Leases /\ l.account = a /\ l.releases = 0
<1>1. NoLease \in Leases /\ NoLease.account = NoAccount /\ NoLease.releases = 0
  BY DEF NoLease, Leases, Feedbacks
<1> QED
  BY <1>1 DEF Leases
\* A request that has not begun to try.
LEMMA NoTries ==
  /\ NoTry \in Tries /\ NoTry.attempt = 0 /\ NoTry.excluded = {} /\ NoTry.refreshed = {}
  /\ NoTry.calls = [a \in Accounts |-> 0]
BY Limits DEF NoTry, Tries

LEMMA HandlerTypes ==
  ASSUME Types, Leasing, HandlerSteps
  PROVE  Types'
<1>0. /\ try.attempt \in 0..(MaxAttempts - 1) /\ try.excluded \subseteq Accounts
      /\ try.calls \in [Accounts -> Nat]
  BY Parts
<1>n. lease.account \in Accounts => try.calls[lease.account] + 1 \in Nat
  BY <1>0
<1>m. try.attempt + 1 < MaxAttempts => try.attempt + 1 \in 0..(MaxAttempts - 1)
  BY <1>0, Limits
<1> USE DEF Types, jobVars
<1>1. CASE GoesOn
  <2>1. try' \in Tries
    <3>1. CASE try' = try
      BY <3>1
    <3>2. CASE pc = "call" /\ try' = [try EXCEPT !.calls[lease.account] = @ + 1]
      <4>1. lease.account \in Accounts
        BY <3>2 DEF Leasing, Holding, Calling
      <4>2. try.calls[lease.account] + 1 \in Nat
        BY <4>1, <1>n
      <4>3. [try.calls EXCEPT ![lease.account] = @ + 1] \in [Accounts -> Nat]
        BY <4>2, <1>0
      <4>4. try' = [try EXCEPT !.calls = [try.calls EXCEPT ![lease.account] = @ + 1]]
        BY <3>2
      <4> QED
        BY <4>3, <4>4 DEF Tries
    <3>3. CASE pc = "upstream" /\ try' = [try EXCEPT !.refreshed = @ \cup {lease.account}]
      <4>1. lease.account \in Accounts
        BY <3>3 DEF Leasing, Holding, Calling, CallOut
      <4> QED
        BY <3>3, <4>1 DEF Tries
    <3> QED
      BY <1>1, <3>1, <3>2, <3>3 DEF GoesOn
  <2>2. pc' \in Trying
    BY <1>1 DEF GoesOn, Trying, Calling, CallOut
  <2> QED
    BY <1>1, <2>1, <2>2 DEF GoesOn
<1>2. CASE Chooses
  <2>1. lease' \in Leases
    BY <1>2, Fresh DEF Chooses
  <2> QED
    BY <1>2, <2>1 DEF Chooses, Trying, Calling
<1>3. CASE GivesUp
  BY <1>3, NoTries DEF GivesUp, Over
<1>4. CASE GivesBack
  <2>1. lease' \in Leases
    BY <1>4, Release DEF GivesBack
  <2>2. try' \in Tries
    <3>1. CASE try' = NoTry
      BY <3>1, NoTries
    <3>2. CASE pc' # "done"
      <4>1. PICK more \in SUBSET {lease.account}, err \in BOOLEAN :
               try' = [try EXCEPT !.attempt = @ + 1, !.excluded = @ \cup more, !.lastErr = err]
        BY <1>4, <3>2 DEF GivesBack
      <4>2. try.attempt + 1 < MaxAttempts /\ lease.account \in Accounts
        BY <1>4, <3>2 DEF GivesBack, Leasing, Holding
      <4>3. try.attempt + 1 \in 0..(MaxAttempts - 1)
        BY <4>2, <1>m
      <4>4. try.excluded \cup more \in SUBSET Accounts
        BY <4>2, <1>0
      <4> QED
        BY <4>1, <4>3, <4>4 DEF Tries
    <3> QED
      BY <1>4, <3>1, <3>2 DEF GivesBack
  <2> QED
    BY <1>4, <2>1, <2>2 DEF GivesBack, Trying, Over
<1>5. CASE Responds
  BY <1>5, NoTries DEF Responds
<1>6. CASE Serves
  BY <1>6 DEF Serves
<1>7. CASE Settles
  <2>1. lease' \in Leases
    BY <1>7, Release DEF Settles
  <2> QED
    BY <1>7, <2>1 DEF Settles, Over
<1>8. CASE HandsOver
  BY <1>8 DEF HandsOver, Over, JobStatuses
<1> QED
  BY <1>1, <1>2, <1>3, <1>4, <1>5, <1>6, <1>7, <1>8 DEF HandlerSteps

LEMMA TypesStep ==
  ASSUME GatewayInv, [Next]_vars
  PROVE  Types'
<1> USE DEF GatewayInv, Types
<1>1. CASE Stays
  BY <1>1 DEF Stays, jobVars
<1>2. CASE HandlerSteps
  BY <1>2, HandlerTypes
<1>3. CASE PollerGoesOn /\ UNCHANGED <<pc, try, status, outcome, code, reports, uploads>>
  BY <1>3 DEF PollerGoesOn, JobStatuses
<1>4. CASE PollerEnds /\ UNCHANGED <<pc, try, status, outcome, code, reports, uploads>>
  <2>1. lease' \in Leases
    BY <1>4, Release DEF PollerEnds
  <2> QED
    BY <1>4, <2>1 DEF PollerEnds, JobStatuses
<1>5. CASE Around /\ UNCHANGED <<pc, try, status, outcome, code, reports, uploads>>
  <2>1. row' \in JobStatuses
    BY <1>5 DEF Around, JobStatuses, Terminal, Failed
  <2>2. process' \in {"up", "stopping", "down"}
    BY <1>5 DEF Around
  <2> QED
    BY <1>5, <2>1, <2>2 DEF Around
<1>6. CASE Dies
  BY <1>6, Fresh, NoTries DEF Dies, Over, JobStatuses
<1> QED
  BY <1>1, <1>2, <1>3, <1>4, <1>5, <1>6, Sorts DEF VideoSteps

\* Who holds the lease after each sort of step.
LEMMA LeasingStep ==
  ASSUME GatewayInv, [Next]_vars
  PROVE  Leasing'
<1>0. /\ lease \in Leases /\ lease.releases \in Nat
      /\ pc \in Trying \cup Answering \cup Over
  BY Parts DEF GatewayInv, Types
<1> USE DEF Polling, Trying, Holding, Calling, CallOut, Answering, Over
<1>1. CASE Stays
  BY <1>1 DEF GatewayInv, Leasing, Stays, jobVars
<1>2. CASE GoesOn
  BY <1>2 DEF GatewayInv, Leasing, GoesOn, jobVars
<1>3. CASE Chooses
  <2>1. lease'.account \in Accounts /\ lease'.releases = 0
    BY <1>3, Fresh DEF Chooses
  <2> QED
    BY <1>3, <2>1 DEF GatewayInv, Leasing, Chooses, jobVars
<1>4. CASE GivesUp
  BY <1>4 DEF GatewayInv, Leasing, GivesUp, jobVars
<1>5. CASE GivesBack
  <2>1. lease'.releases = 1
    <3>1. lease.releases = 0
      BY <1>5 DEF GatewayInv, Leasing, GivesBack
    <3>2. PICK f \in Feedbacks : lease' = Released(f)
      BY <1>5 DEF GivesBack
    <3> QED
      BY <1>0, <3>1, <3>2, Release
  <2> QED
    BY <1>5, <2>1 DEF GatewayInv, Leasing, GivesBack, jobVars
<1>6. CASE Responds
  BY <1>6 DEF GatewayInv, Leasing, Responds, jobVars
<1>7. CASE Serves
  BY <1>7 DEF GatewayInv, Leasing, Serves, jobVars
<1>8. CASE Settles
  <2>1. lease'.releases = 1
    BY <1>0, <1>8, Release DEF GatewayInv, Leasing, Settles
  <2> QED
    BY <1>8, <2>1 DEF GatewayInv, Leasing, Settles
<1>9. CASE HandsOver
  BY <1>9 DEF GatewayInv, Leasing, HandsOver
<1>10. CASE VideoSteps
  <2>1. CASE PollerGoesOn
    BY <1>10, <2>1 DEF GatewayInv, Leasing, PollerGoesOn, VideoSteps
  <2>2. CASE PollerEnds
    <3>1. lease'.releases = 1
      <4>1. lease.releases = 0
        BY <2>2 DEF GatewayInv, Leasing, PollerEnds
      <4>2. PICK f \in Feedbacks : lease' = Released(f)
        BY <2>2 DEF PollerEnds
      <4> QED
        BY <1>0, <4>1, <4>2, Release
    <3> QED
      BY <1>10, <2>2, <3>1 DEF GatewayInv, Leasing, PollerEnds, VideoSteps
  <2>3. CASE Around
    BY <1>10, <2>3 DEF GatewayInv, Leasing, Around, VideoSteps
  <2> QED
    BY <1>10, <2>1, <2>2, <2>3 DEF VideoSteps
<1>11. CASE Dies
  BY <1>11, Fresh DEF Dies, Leasing
<1> QED
  BY <1>1, <1>2, <1>3, <1>4, <1>5, <1>6, <1>7, <1>8, <1>9, <1>10, <1>11, Sorts DEF HandlerSteps

\* What has been told after each sort of step.
LEMMA ReportingStep ==
  ASSUME GatewayInv, [Next]_vars
  PROVE  Reporting'
<1>0. pc \in Trying \cup Answering \cup Over
  BY DEF GatewayInv, Types
<1> USE DEF Trying, Calling, CallOut, Answering, Over
<1>1. CASE Stays \/ GoesOn \/ Chooses \/ GivesUp
  BY <1>0, <1>1 DEF GatewayInv, Reporting, Stays, GoesOn, Chooses, GivesUp, Responded, Unsent
<1>2. CASE GivesBack
  BY <1>0, <1>2 DEF GatewayInv, Reporting, GivesBack, Responded, Unsent
<1>3. CASE Responds
  <2>1. Responded'
    BY <1>3 DEF Responds, Responded, Statuses
  <2> QED
    BY <1>0, <1>3, <2>1 DEF GatewayInv, Reporting, Responds
<1>4. CASE Serves
  BY <1>0, <1>4 DEF GatewayInv, Reporting, Serves, Responded
<1>5. CASE Settles \/ HandsOver
  <2>1. /\ pc \in Answering /\ pc' = "done" /\ status' = status
    BY <1>5 DEF Settles, HandsOver
  <2>2. reports' = reports + 1
    BY <1>5 DEF Settles, HandsOver
  <2>3. reports = 0
    BY <2>1 DEF GatewayInv, Reporting
  <2>4. reports' = 1
    BY <2>2, <2>3
  <2>5. Responded
    BY <2>1 DEF GatewayInv, Reporting
  <2>6. Responded'
    BY <2>1, <2>5 DEF Responded
  <2> QED
    BY <2>1, <2>4, <2>6 DEF Reporting
<1>6. CASE VideoSteps
  BY <1>0, <1>6 DEF GatewayInv, Reporting, VideoSteps, Responded, Unsent
<1>7. CASE Dies
  BY <1>0, <1>7 DEF GatewayInv, Reporting, Dies, Responded
<1> QED
  BY <1>1, <1>2, <1>3, <1>4, <1>5, <1>6, <1>7, Sorts DEF HandlerSteps

\* The job after each sort of step.
LEMMA JobsStep ==
  ASSUME GatewayInv, [Next]_vars
  PROVE  Jobs'
<1>0. /\ pc \in Trying \cup Answering \cup Over /\ row \in JobStatuses
      /\ process \in {"up", "stopping", "down"} /\ next \in JobStatuses
  BY DEF GatewayInv, Types
<1>u. /\ "none" \notin NotYet /\ "none" \notin Terminal /\ NotYet \cap Terminal = {}
  BY VideoAssumption DEF NotYet, Terminal, Completed, Failed
<1> USE DEF Trying, Calling, CallOut, Answering, Over, RowFollowsPoller, JobHasPoller, Polling
<1>1. CASE Stays
  BY <1>0, <1>1 DEF GatewayInv, Jobs, Stays, jobVars
<1>2. CASE GoesOn \/ Chooses \/ GivesUp
  BY <1>0, <1>2 DEF GatewayInv, Jobs, GoesOn, Chooses, GivesUp, jobVars
<1>3. CASE GivesBack \/ Responds \/ Serves
  BY <1>0, <1>3 DEF GatewayInv, Jobs, GivesBack, Responds, Serves, jobVars
<1>4. CASE Settles
  <2>1. row = "none" /\ poller = "none"
    BY <1>4 DEF GatewayInv, Jobs, Leasing, Settles
  <2>2. row' \notin NotYet \/ unsaved'
    BY <1>4, <2>1, <1>u DEF Settles
  <2> QED
    BY <1>4, <2>1, <2>2 DEF Settles, Jobs
<1>5. CASE HandsOver
  BY <1>0, <1>5 DEF GatewayInv, Jobs, HandsOver
<1>6. CASE VideoSteps
  <2>1. CASE PollerGoesOn
    BY <1>0, <1>6, <2>1 DEF GatewayInv, Jobs, Leasing, PollerGoesOn, VideoSteps
  <2>2. CASE PollerEnds
    <3>1. pc' \in Over
      BY <1>6, <2>2 DEF GatewayInv, Leasing, PollerEnds, VideoSteps
    <3>2. row' \in NotYet /\ process' = "up" => unsaved'
      BY <2>2, <1>u DEF PollerEnds
    <3> QED
      BY <2>2, <3>1, <3>2 DEF PollerEnds, Jobs
  <2>3. CASE Around
    <3>1. CASE UNCHANGED <<row, process, restarted>>
      BY <1>0, <1>6, <2>3, <3>1 DEF GatewayInv, Jobs, Around, VideoSteps
    <3>2. CASE process' = "stopping" /\ UNCHANGED <<row, restarted>>
      BY <1>0, <1>6, <2>3, <3>2 DEF GatewayInv, Jobs, Around, VideoSteps
    <3>3. CASE /\ process = "down" /\ (restarted \/ row # "none" => restarted')
               /\ row' = IF row \in Interruptible THEN "failed" ELSE row
      <4>1. pc' \in Over /\ poller' = "none"
        BY <1>6, <2>3, <3>3 DEF GatewayInv, Leasing, Around, VideoSteps
      <4>2. row' \in NotYet => restarted' /\ row' \notin Interruptible
        BY <3>3, <1>u DEF Terminal, Failed
      <4> QED
        BY <4>1, <4>2 DEF Jobs
    <3> QED
      BY <2>3, <3>1, <3>2, <3>3 DEF Around
  <2> QED
    BY <1>6, <2>1, <2>2, <2>3 DEF VideoSteps
<1>7. CASE Dies
  BY <1>0, <1>7 DEF GatewayInv, Jobs, Dies
<1> QED
  BY <1>1, <1>2, <1>3, <1>4, <1>5, <1>6, <1>7, Sorts DEF HandlerSteps

\* The calls after each sort of step.
LEMMA AttemptsStep ==
  ASSUME GatewayInv, [Next]_vars
  PROVE  Attempts'
<1>0. /\ try.refreshed \subseteq Accounts /\ try.excluded \subseteq Accounts
      /\ try.calls \in [Accounts -> Nat]
      /\ pc \in Trying \cup Answering \cup Over
      /\ \A a \in Accounts : try.calls[a] \in Nat /\ Refreshes(a) \in {0, 1}
  BY Parts DEF GatewayInv, Types, Refreshes
<1>i. /\ \A a \in Accounts : try.calls[a] <= 1 + Refreshes(a)
      /\ \A a \in Accounts \ try.excluded :
           try.calls[a] <= Refreshes(a) \/ (pc \in CallOut /\ a = lease.account)
      /\ pc \in {"proxy", "call"} => lease.account \notin try.excluded
  BY DEF GatewayInv, Attempts
<1>f. try \in Tries
  BY DEF GatewayInv, Types
\* A try that begins anew.
<1>n. ASSUME try' = NoTry, pc' \notin {"proxy", "call"}
      PROVE  Attempts'
  BY <1>n, NoTries DEF Attempts, Refreshes
\* A step that leaves the calls alone.
<1>s. ASSUME UNCHANGED <<try, lease>>, pc \in CallOut => pc' \in CallOut, pc' \in {"proxy", "call"} => pc \in {"proxy", "call"}
      PROVE  Attempts'
  BY <1>s, <1>i DEF Attempts, Refreshes
<1>1. CASE Stays
  BY <1>1, <1>s DEF Stays
<1>2. CASE GoesOn
  <2>1. CASE /\ try' = try
             /\ \/ pc = "check" /\ pc' = "acquire"
                \/ pc = "proxy" /\ pc' = "call"
                \/ pc \in CallOut /\ pc' \in CallOut
    BY <1>2, <2>1, <1>s DEF GoesOn, CallOut
  <2>2. CASE pc = "call" /\ try' = [try EXCEPT !.calls[lease.account] = @ + 1]
    <3>1. lease.account \in Accounts \ try.excluded
      BY <2>2, <1>i DEF GatewayInv, Leasing, Holding, Calling
    <3>2. /\ try'.excluded = try.excluded /\ try'.refreshed = try.refreshed
          /\ try'.calls = [try.calls EXCEPT ![lease.account] = @ + 1]
      BY <2>2, <1>f DEF Tries
    <3>3. /\ try'.calls[lease.account] = try.calls[lease.account] + 1
          /\ \A a \in Accounts \ {lease.account} : try'.calls[a] = try.calls[a]
      BY <3>1, <3>2, <1>0
    <3>4. \A a \in Accounts : Refreshes(a)' = Refreshes(a)
      BY <3>2 DEF Refreshes
    <3>5. try.calls[lease.account] <= Refreshes(lease.account)
      BY <2>2, <3>1, <1>i DEF CallOut
    <3>6. pc' \in CallOut /\ pc' \notin {"proxy", "call"} /\ lease' = lease
      BY <1>2, <2>2 DEF GoesOn, CallOut
    <3>7. \A a \in Accounts : try'.calls[a] <= 1 + Refreshes(a)
      <4>1. try'.calls[lease.account] <= 1 + Refreshes(lease.account)
        BY <3>1, <3>3, <3>5, <1>0
      <4> QED
        BY <4>1, <3>3, <1>i
    <3>8. \A a \in Accounts \ try.excluded : try.calls[a] <= Refreshes(a) \/ a = lease.account
      BY <1>i
    <3> QED
      BY <3>2, <3>3, <3>4, <3>6, <3>7, <3>8 DEF Attempts
  <2>3. CASE /\ pc = "upstream" /\ pc' = "refresh" /\ lease.account \notin try.refreshed
             /\ try' = [try EXCEPT !.refreshed = @ \cup {lease.account}]
    <3>0. PICK me : me = lease.account
      OBVIOUS
    <3>1. /\ try'.excluded = try.excluded /\ try'.calls = try.calls
          /\ try'.refreshed = try.refreshed \cup {me}
      BY <2>3, <3>0, <1>f DEF Tries
    <3>2. /\ \A a \in Accounts \ {me} : Refreshes(a)' = Refreshes(a)
          /\ Refreshes(me) = 0 /\ Refreshes(me)' = 1
      BY <2>3, <3>0, <3>1 DEF Refreshes
    <3>3. \A a \in Accounts : try.calls[a] <= 1 + Refreshes(a)'
      BY <3>2, <1>0, <1>i
    <3>4. \A a \in Accounts \ try.excluded : try.calls[a] <= Refreshes(a)'
      <4>1. me \in Accounts => try.calls[me] <= 1
        BY <3>2, <1>0, <1>i
      <4> QED
        BY <3>0, <3>2, <4>1, <1>i
    <3> QED
      BY <2>3, <3>1, <3>3, <3>4 DEF Attempts
  <2> QED
    BY <1>2, <2>1, <2>2, <2>3 DEF GoesOn
<1>3. CASE Chooses
  <2>1. PICK a \in Accounts \ try.excluded : lease' = [NoLease EXCEPT !.account = a]
    BY <1>3 DEF Chooses
  <2>2. lease'.account = a /\ try' = try /\ pc = "acquire"
    BY <1>3, <2>1, Fresh DEF Chooses
  <2>3. \A b \in Accounts \ try.excluded : try.calls[b] <= Refreshes(b)
    BY <2>2, <1>i DEF CallOut
  <2> QED
    BY <2>1, <2>2, <2>3, <1>i DEF Attempts, Refreshes
<1>4. CASE GivesUp
  <2>1. CASE try' = NoTry
    BY <1>4, <2>1, <1>n DEF GivesUp
  <2>2. CASE try' = try
    BY <1>4, <2>2, <1>s DEF GivesUp, CallOut
  <2> QED
    BY <1>4, <2>1, <2>2 DEF GivesUp
<1>5. CASE GivesBack
  <2>1. CASE pc' = "done"
    BY <1>5, <2>1, <1>n DEF GivesBack
  <2>2. CASE pc' # "done"
    <3>1. PICK more \in SUBSET {lease.account}, err \in BOOLEAN :
             /\ pc # "refresh" => more = {lease.account}
             /\ try' = [try EXCEPT !.attempt = @ + 1, !.excluded = @ \cup more, !.lastErr = err]
      BY <1>5, <2>2 DEF GivesBack
    <3>2. /\ try'.excluded = try.excluded \cup more /\ try'.calls = try.calls
          /\ try'.refreshed = try.refreshed
      BY <3>1, <1>f DEF Tries
    <3>3. \A a \in Accounts : Refreshes(a)' = Refreshes(a)
      BY <3>2 DEF Refreshes
    <3>4. \A a \in Accounts \ try'.excluded : try.calls[a] <= Refreshes(a)
      <4>1. CASE pc = "refresh"
        BY <4>1, <3>2, <1>i DEF CallOut
      <4>2. CASE pc # "refresh"
        BY <4>2, <3>1, <3>2, <1>i
      <4> QED
        BY <4>1, <4>2
    <3>5. pc' = "acquire"
      BY <1>5, <2>2 DEF GivesBack
    <3> QED
      BY <3>2, <3>3, <3>4, <3>5, <1>i DEF Attempts
  <2> QED
    BY <2>1, <2>2
<1>6. CASE Responds
  BY <1>6, <1>n DEF Responds, Answering
<1>7. CASE Serves
  BY <1>7, <1>s DEF Serves, Answering, CallOut
<1>8. CASE Settles \/ HandsOver
  <2>1. \A a \in Accounts \ try.excluded : try.calls[a] <= Refreshes(a)
    BY <1>8, <1>i DEF Settles, HandsOver, Answering, CallOut
  <2>2. try' = try /\ pc' = "done"
    BY <1>8 DEF Settles, HandsOver
  <2> QED
    BY <2>1, <2>2, <1>i DEF Attempts, Refreshes
<1>9. CASE VideoSteps
  <2>1. CASE Polling
    <3>1. pc = "done" /\ pc' = "done" /\ try' = try
      BY <1>9, <2>1 DEF VideoSteps, GatewayInv, Leasing
    <3>2. \A a \in Accounts \ try.excluded : try.calls[a] <= Refreshes(a)
      BY <3>1, <1>i DEF CallOut
    <3> QED
      BY <3>1, <3>2, <1>i DEF Attempts, Refreshes
  <2>2. CASE ~Polling
    BY <1>9, <2>2, <1>s DEF VideoSteps, PollerGoesOn, PollerEnds, Around
  <2> QED
    BY <2>1, <2>2
<1>10. CASE Dies
  BY <1>10, <1>0, <1>n DEF Dies
<1> QED
  BY <1>1, <1>2, <1>3, <1>4, <1>5, <1>6, <1>7, <1>8, <1>9, <1>10, Sorts DEF HandlerSteps

-----------------------------------------------------------------------------
(* The channel.                                                            *)

\* Sequences that hold anything.
LEMMA Queued ==
  ASSUME NEW S, NEW s \in Seq(S)
  PROVE  IsQueue(s)
<1> DEFINE R == {s[n] : n \in DOMAIN s}
<1>1. Len(s) \in Nat /\ DOMAIN s = 1..Len(s) /\ s \in [1..Len(s) -> S]
  BY LenProperties
<1>2. s \in [1..Len(s) -> R]
  BY <1>1
<1>3. s \in Seq(R)
  BY <1>1, <1>2, SeqDef
<1> QED
  BY <1>3 DEF IsQueue
LEMMA QueueTail ==
  ASSUME NEW s, IsQueue(s), s # <<>>
  PROVE  IsQueue(Tail(s)) /\ Len(Tail(s)) < Len(s) /\ Len(s) \in Nat /\ Len(Tail(s)) \in Nat
<1> DEFINE R == {s[n] : n \in DOMAIN s}
<1>1. s \in Seq(R)
  BY DEF IsQueue
<1> HIDE DEF R
<1>2. Tail(s) \in Seq(R) /\ Len(Tail(s)) = Len(s) - 1 /\ Len(s) \in Nat
  BY <1>1, HeadTailProperties, LenProperties
<1>3. IsQueue(Tail(s))
  BY <1>2, Queued
<1>4. Len(Tail(s)) < Len(s) /\ Len(s) \in Nat /\ Len(Tail(s)) \in Nat
  BY <1>1, LenProperties, <1>2
<1> QED
  BY <1>3, <1>4
LEMMA QueueJoin ==
  ASSUME NEW s, IsQueue(s), NEW t, IsQueue(t)
  PROVE  IsQueue(s \o t) /\ Len(s \o t) = Len(s) + Len(t)
<1> DEFINE R == {s[n] : n \in DOMAIN s} \cup {t[n] : n \in DOMAIN t}
<1>1. s \in Seq(R) /\ t \in Seq(R)
  <2>1. s \in Seq({s[n] : n \in DOMAIN s}) /\ t \in Seq({t[n] : n \in DOMAIN t})
    BY DEF IsQueue
  <2> QED
    BY <2>1, SeqDef
<1> HIDE DEF R
<1>2. s \o t \in Seq(R) /\ Len(s \o t) = Len(s) + Len(t)
  BY <1>1, ConcatProperties
<1> QED
  BY <1>2, Queued
LEMMA QueueAppend ==
  ASSUME NEW s, IsQueue(s), NEW e
  PROVE  IsQueue(Append(s, e)) /\ Len(Append(s, e)) = Len(s) + 1 /\ Len(s) \in Nat
<1> DEFINE R == {s[n] : n \in DOMAIN s} \cup {e}
<1>1. s \in Seq(R) /\ e \in R
  <2>1. s \in Seq({s[n] : n \in DOMAIN s})
    BY DEF IsQueue
  <2> QED
    BY <2>1, SeqDef
<1> HIDE DEF R
<1>2. Append(s, e) \in Seq(R) /\ Len(Append(s, e)) = Len(s) + 1 /\ Len(s) \in Nat
  BY <1>1, AppendProperties, LenProperties
<1> QED
  BY <1>2, Queued

\* What the frames of a WebSocket send.
LEMMA FrameQueues ==
  ASSUME NEW g, NEW id, NEW moderated, NEW closed
  PROVE  /\ IsQueue(ImageFrame(g, id).events)
         /\ IsQueue(CompletedFrame(g, id, moderated).events)
         /\ IsQueue(ErrorFrame(g).events)
         /\ IsQueue(ReadError(g, closed).events)
<1>1. \A x : IsQueue(<<x>>)
  <2>1. ASSUME NEW x PROVE <<x>> \in Seq({x})
    OBVIOUS
  <2> QED
    BY <2>1, Queued
<1>2. IsQueue(<<>>)
  <2>1. <<>> \in Seq({})
    OBVIOUS
  <2> QED
    BY <2>1, Queued
<1>3. IsQueue(<<Picture(id)>> \o (IF g.collected + 1 = g.requested THEN <<Event("done")>> ELSE <<>>))
  <2>1. IsQueue(IF g.collected + 1 = g.requested THEN <<Event("done")>> ELSE <<>>)
    BY <1>1, <1>2
  <2>2. IsQueue(<<Picture(id)>>)
    BY <1>1
  <2> QED
    BY <2>1, <2>2, QueueJoin
<1>4. \A h, events, over : Step(h, events, over).events = events
  BY DEF Step
<1>5. IsQueue(ImageFrame(g, id).events)
  BY <1>2, <1>4 DEF ImageFrame
<1>6. IsQueue(CompletedFrame(g, id, moderated).events)
  <2>1. CASE id \in g.completed \/ moderated \/ id \notin g.pictured
    <3>1. CompletedFrame(g, id, moderated).events = <<>>
      BY <2>1, <1>4 DEF CompletedFrame
    <3> QED
      BY <3>1, <1>2
  <2>2. CASE ~(id \in g.completed \/ moderated \/ id \notin g.pictured)
    <3>1. CompletedFrame(g, id, moderated).events
            = <<Picture(id)>> \o (IF g.collected + 1 = g.requested THEN <<Event("done")>> ELSE <<>>)
      BY <2>2 DEF CompletedFrame, Step
    <3> QED
      BY <3>1, <1>3
  <2> QED
    BY <2>1, <2>2
<1>7. IsQueue(ErrorFrame(g).events) /\ IsQueue(ReadError(g, closed).events)
  BY <1>1, <1>4 DEF ErrorFrame, ReadError
<1> QED
  BY <1>5, <1>6, <1>7

\* No step goes back to trying.
LEMMA NoReturn ==
  ASSUME GatewayInv, [Next]_vars, pc' \in Trying
  PROVE  pc \in Trying
<1>1. pc \in Trying \cup Answering \cup Over
  BY DEF GatewayInv, Types
<1> USE DEF Trying, Calling, CallOut, Answering, Over
<1>2. CASE Stays \/ VideoSteps \/ Dies
  BY <1>2 DEF Stays, VideoSteps, Dies
<1>3. CASE HandlerSteps
  BY <1>3, <1>1 DEF HandlerSteps, GoesOn, Chooses, GivesUp, GivesBack, Responds, Serves, Settles, HandsOver
<1> QED
  BY <1>2, <1>3, Sorts

\* What a step does to the channel: nothing, or the producer or the handler moves one end of it.
Carries ==
  \/ UNCHANGED <<producer, channel>>
  \/ producer' = "closed" /\ pc' \notin Trying
  \/ producer' = "off" /\ producer = "off" /\ channel' = <<>>
  \/ pc \in Trying /\ pc' \notin Trying /\ channel' = channel /\ producer' \in {"read", "imagine"}
  \/ producer = "read" /\ producer' = "last" /\ channel' = channel
  \/ channel # <<>> /\ channel' = Tail(channel) /\ producer' = producer
  \/ /\ producer \in {"read", "last"} /\ producer' = producer /\ Len(channel) < ChannelCapacity
     /\ \E e : channel' = Append(channel, e)
  \/ /\ producer = "imagine" /\ producer' \in {"imagine", "closed"}
     /\ \E events : /\ IsQueue(events) /\ channel' = channel \o events
                    /\ Len(channel) + Len(events) <= ImagineCapacity

LEMMA CarriesHandler ==
  ASSUME Handle
  PROVE  Carries
<1> USE DEF Carries, streamVars, imageVars, Trying, Calling, CallOut
<1>1. CASE RefuseBody \/ RefuseModel \/ RefusePayload \/ Accept \/ Acquire \/ NoAccountLeft
           \/ ProxyResolved
  BY <1>1 DEF RefuseBody, RefuseModel, RefusePayload, Refused, Accept, Acquire, NoAccountLeft,
     ProxyResolved
<1>2. CASE ProxyFails \/ DoFails \/ Refreshed \/ RefreshFails \/ DoRetryable
  BY <1>2 DEF ProxyFails, DoFails, Refreshed, RefreshFails, DoRetryable, NextAttempt
<1>3. CASE Send \/ UploadEnds \/ UploadsJoined \/ PostCreated \/ DoUnauthorized \/ DoRejects
  BY <1>3 DEF Send, UploadEnds, UploadsJoined, PostCreated, DoUnauthorized, DoRejects
<1>4. CASE DoStreams \/ DoImagine
  BY <1>4 DEF DoStreams, DoImagine
<1>5. CASE DoDocument
  BY <1>5 DEF DoDocument
<1>6. CASE Reject \/ StreamStarts \/ StreamCanceled \/ StreamClosed \/ Collected \/ Settle
           \/ BodyFails \/ BodyImage \/ StartPolling \/ KeepWithoutPolling
  BY <1>6 DEF Reject, StreamStarts, StreamCanceled, StreamClosed, Collected, Settle, BodyFails,
     BodyImage, StartPolling, KeepWithoutPolling
<1>7. CASE StreamNext \/ Collect
  BY <1>7 DEF StreamNext, Collect
<1> QED
  BY <1>1, <1>2, <1>3, <1>4, <1>5, <1>6, <1>7 DEF Handle

LEMMA CarriesStream ==
  ASSUME Channel, pc \in Trying \cup Answering \cup Over, Produce \/ Cancel \/ Die
  PROVE  Carries
<1> USE DEF Carries, handlerVars, streamVars, imageVars
<1>1. CASE ReadTool \/ ReadPlain \/ ReadLast
  BY <1>1 DEF ReadTool, ReadPlain, ReadLast, Read
<1>2. CASE ReadEnds
  BY <1>2 DEF ReadEnds, Channel
<1>3. CASE SendEvent
  BY <1>3 DEF SendEvent
<1>4. CASE CloseChannel \/ ProducerStops
  BY <1>4 DEF CloseChannel, ProducerStops, Channel
<1>5. CASE ReadFrame
  <2>1. CASE ImagineStep(ErrorFrame(imagine))
    BY <2>1, FrameQueues DEF ImagineStep
  <2>2. CASE \E id \in Pictures : \/ ImagineStep(ImageFrame(imagine, id))
                                  \/ ImagineStep(CompletedFrame(imagine, id, id \in Moderated))
    BY <2>2, FrameQueues DEF ImagineStep
  <2> QED
    BY <1>5, <2>1, <2>2 DEF ReadFrame
<1>6. CASE ReadFrameFails
  BY <1>6, FrameQueues DEF ReadFrameFails, ImagineStep
<1>7. CASE Cancel
  BY <1>7 DEF Cancel
<1>8. CASE Die
  BY <1>8 DEF Die, Trying, Calling, CallOut
<1> QED
  BY <1>1, <1>2, <1>3, <1>4, <1>5, <1>6, <1>7, <1>8 DEF Produce, Carry

LEMMA ChannelStep ==
  ASSUME GatewayInv, [Next]_vars
  PROVE  Channel'
<1>1. /\ pc \in Trying \cup Answering \cup Over /\ Channel
      /\ pc' \in Trying => pc \in Trying
  BY NoReturn DEF GatewayInv, Types
<1>2. Carries
  <2>1. CASE Handle
    BY <2>1, CarriesHandler
  <2>2. CASE Produce \/ Cancel \/ Die
    BY <2>2, <1>1, CarriesStream
  <2>3. CASE (Video /\ UNCHANGED <<handlerVars, streamVars, canceled>>) \/ UNCHANGED vars
    BY <2>3 DEF vars, streamVars, Carries
  <2> QED
    BY <2>1, <2>2, <2>3 DEF Next
<1>3. CASE UNCHANGED <<producer, channel>>
  BY <1>1, <1>3 DEF Channel
<1>4. CASE producer' = "closed" /\ pc' \notin Trying
  BY <1>4 DEF Channel
<1>5. CASE producer' = "off" /\ producer = "off" /\ channel' = <<>>
  BY <1>5 DEF Channel
<1>6. CASE pc \in Trying /\ pc' \notin Trying /\ channel' = channel /\ producer' \in {"read", "imagine"}
  <2>1. channel' = <<>>
    BY <1>1, <1>6 DEF Channel
  <2>2. IsQueue(<<>>) /\ Len(<<>>) = 0
    <3>1. <<>> \in Seq({})
      OBVIOUS
    <3> QED
      BY <3>1, Queued
  <2> QED
    BY <1>6, <2>1, <2>2, Limits DEF Channel
<1>7. CASE producer = "read" /\ producer' = "last" /\ channel' = channel
  BY <1>1, <1>7 DEF Channel
<1>8. CASE channel # <<>> /\ channel' = Tail(channel) /\ producer' = producer
  <2>1. pc' \notin Trying
    BY <1>1, <1>8 DEF Channel
  <2>2. CASE producer \in {"read", "last", "imagine"}
    <3>1. /\ IsQueue(channel') /\ Len(channel') < Len(channel)
          /\ Len(channel) \in Nat /\ Len(channel') \in Nat
      BY <1>1, <1>8, <2>2, QueueTail DEF Channel
    <3> QED
      BY <1>1, <1>8, <2>1, <3>1, Limits DEF Channel
  <2>3. CASE producer \notin {"read", "last", "imagine"}
    BY <1>1, <1>8, <2>1, <2>3 DEF Channel
  <2> QED
    BY <2>2, <2>3
<1>9. CASE /\ producer \in {"read", "last"} /\ producer' = producer /\ Len(channel) < ChannelCapacity
           /\ \E e : channel' = Append(channel, e)
  <2>1. IsQueue(channel)
    BY <1>1, <1>9 DEF Channel
  <2>2. IsQueue(channel') /\ Len(channel') = Len(channel) + 1 /\ Len(channel) \in Nat
    BY <1>9, <2>1, QueueAppend
  <2>3. Len(channel') <= ChannelCapacity
    BY <1>9, <2>2, Limits
  <2>4. pc' \notin Trying
    BY <1>1, <1>9 DEF Channel
  <2> QED
    BY <1>9, <2>2, <2>3, <2>4 DEF Channel
<1>10. CASE /\ producer = "imagine" /\ producer' \in {"imagine", "closed"}
            /\ \E events : /\ IsQueue(events) /\ channel' = channel \o events
                           /\ Len(channel) + Len(events) <= ImagineCapacity
  <2>1. IsQueue(channel)
    BY <1>1, <1>10 DEF Channel
  <2>2. IsQueue(channel') /\ Len(channel') <= ImagineCapacity
    BY <1>10, <2>1, QueueJoin
  <2>3. pc' \notin Trying
    BY <1>1, <1>10 DEF Channel
  <2> QED
    BY <1>10, <2>2, <2>3 DEF Channel
<1> QED
  BY <1>2, <1>3, <1>4, <1>5, <1>6, <1>7, <1>8, <1>9, <1>10 DEF Carries

-----------------------------------------------------------------------------
(* The results.                                                            *)

LEMMA Start0 ==
  ASSUME Init
  PROVE  GatewayInv
<1>3. Reporting
  <2>1. ~Responded /\ Unsent
    BY DEF Responded, Unsent, Init
  <2>2. pc = "check"
    BY DEF Init
  <2>3. reports = 0
    BY DEF Init
  <2> QED
    BY <2>1, <2>2, <2>3 DEF Reporting, Answering
<1>4. Attempts
  <2>1. pc = "check"
    BY DEF Init
  <2>2. try.excluded = {} /\ try.refreshed = {} /\ \A a \in Accounts : try.calls[a] = 0
    BY NoTries DEF Init
  <2>3. \A a \in Accounts : Refreshes(a) = 0
    BY <2>2 DEF Refreshes
  <2> QED
    BY <2>1, <2>2, <2>3 DEF Attempts
<1> USE DEF Init, VideoInit
<1>1. Types
  BY Fresh, NoTries DEF Types, Trying, JobStatuses
<1>2. Leasing
  BY Fresh DEF Leasing, Holding, Calling, CallOut, Answering, Over, Polling
<1>5. Jobs
  <2>1. "none" \notin NotYet
    BY VideoAssumption DEF NotYet
  <2> QED
    BY <2>1 DEF Jobs, RowFollowsPoller, JobHasPoller, Polling
<1>6. Channel
  BY DEF Channel
<1> QED
  BY <1>1, <1>2, <1>3, <1>4, <1>5, <1>6 DEF GatewayInv

\* The invariant of the gateway is inductive.
LEMMA GatewayHolds == Spec => []GatewayInv
<1>1. Init => GatewayInv
  BY Start0
<1>2. GatewayInv /\ [Next]_vars => GatewayInv'
  BY TypesStep, LeasingStep, ReportingStep, AttemptsStep, JobsStep, ChannelStep DEF GatewayInv
<1> QED
  BY <1>1, <1>2, PTL DEF Spec

(* A request is settled once, however its attempts, its stream and its job end: invoke,
   handleOperation, stream, nonStream and pollVideo release each lease once and never one that is
   still in use, and a completion is reported exactly if an upstream has responded. *)
THEOREM SettlesOnce == Spec => []SettledOnce
<1>1. GatewayInv => SettledOnce
  <2> SUFFICES ASSUME GatewayInv
               PROVE  SettledOnce
    OBVIOUS
  <2>1. /\ lease.releases \in Nat /\ pc \in Trying \cup Answering \cup Over
        /\ Leasing /\ Reporting
    BY Parts DEF GatewayInv, Types
  <2>2. pc \notin {"check", "acquire", "done", "killed"} <=> pc \in Holding
    BY <2>1 DEF Holding, Trying, Calling, CallOut, Answering, Over
  <2>3. uploads # <<>> => pc \in Holding
    BY <2>1 DEF Leasing, Holding, Calling, CallOut
  <2>4. lease.releases <= 1
    BY <2>1 DEF Leasing, Fresh
  <2>5. NoAccount \notin Accounts
    BY VideoAssumption
  <2>6. LeaseReleasedOnce
    BY <2>1, <2>2, <2>3, <2>4, <2>5 DEF LeaseReleasedOnce, Leasing
  <2>7. CompletionOnce
    BY <2>1 DEF CompletionOnce, Reporting, Responded
  <2> QED
    BY <2>6, <2>7 DEF SettledOnce
<1> QED
  BY <1>1, GatewayHolds, PTL

(* Over the attempts of a request an account is called once, and a second time only after this
   request has refreshed it, although invoke goes on with a refreshed account without excluding
   it: invoke excludes the account of every other attempt. *)
THEOREM CallsAreCounted == Spec => []OneCallPerAccount
<1>1. GatewayInv => OneCallPerAccount
  <2> SUFFICES ASSUME GatewayInv, NEW a \in Accounts
               PROVE  try.calls[a] <= 1 + Cardinality({a} \cap try.refreshed)
    BY DEF OneCallPerAccount
  <2>1. try.calls[a] <= 1 + Refreshes(a)
    BY DEF GatewayInv, Attempts
  <2>2. CASE a \in try.refreshed
    <3>1. {a} \cap try.refreshed = {a}
      BY <2>2
    <3> QED
      BY <2>1, <2>2, <3>1, FS_Singleton DEF Refreshes
  <2>3. CASE a \notin try.refreshed
    <3>1. {a} \cap try.refreshed = {}
      BY <2>3
    <3> QED
      BY <2>1, <2>3, <3>1, FS_EmptySet DEF Refreshes
  <2> QED
    BY <2>2, <2>3
<1> QED
  BY <1>1, GatewayHolds, PTL

(* A call to an upstream is made only while the client has no byte and the request log no report:
   stream and nonStream never lead back to invoke. *)
THEOREM BytesEndRetries == Spec => NoRetryAfterBytes
<1>1. GatewayInv /\ [Next]_vars
        => [pc = "call" /\ pc' \in {"upload", "upstream"} => code = "" /\ reports = 0]_vars
  BY DEF GatewayInv, Reporting, Unsent, Trying, Calling
<1> QED
  BY <1>1, GatewayHolds, PTL DEF Spec, NoRetryAfterBytes

(* The state is well formed, the channels never hold more than they have room for, the row of a
   polled job is what its poller stored last, and a stored job that is not finished has a poller
   unless its process is gone or a save of it failed: saveVideoAndStartPolling, pollVideo and
   FailInterruptedVideos lose no job. *)
THEOREM JobsAreTracked == Spec => []JobsTracked
<1>1. GatewayInv => JobsTracked
  <2> SUFFICES ASSUME GatewayInv
               PROVE  JobsTracked
    OBVIOUS
  <2>1. /\ try.attempt \in 0..(MaxAttempts - 1) /\ try.excluded \subseteq Accounts
        /\ lease.account \in Accounts \cup {NoAccount}
    BY Parts DEF GatewayInv
  <2>2. lease.releases \in 0..2
    <3>1. lease.releases = 0 \/ lease.releases = 1
      BY DEF GatewayInv, Leasing
    <3> QED
      BY <3>1
  <2>3. reports \in 0..1
    BY DEF GatewayInv, Reporting
  <2>4. /\ row \in NotYet \cup Terminal \cup {"none"} /\ job \in NotYet \cup {"none"}
        /\ grok \in {"none", "queued", "in_progress"} \cup Terminal
        /\ poller \in {"none", "start", "wait", "drain", "query", "save"}
        /\ process \in {"up", "stopping", "down"}
        /\ outcome \in {"", "ok", "canceled", "failed"}
    BY DEF GatewayInv, Types, JobStatuses
  <2>5. pc \in {"check", "acquire", "proxy", "call", "upload", "post", "refused", "broken", "upstream",
                "refresh", "reject", "start", "stream", "collect", "settle", "body", "done", "killed"}
    BY DEF GatewayInv, Types, Trying, Calling, CallOut, Answering, Over
  <2>6. /\ producer \in {"off", "read", "last", "imagine", "closed"}
        /\ producer \in {"read", "last"} => Len(channel) <= ChannelCapacity
        /\ producer = "imagine" => Len(channel) <= ImagineCapacity
    BY DEF GatewayInv, Channel
  <2>7. TypeOK
    BY <2>1, <2>2, <2>3, <2>4, <2>5, <2>6, Zenon DEF TypeOK
  <2>8. RowFollowsPoller /\ JobHasPoller
    BY DEF GatewayInv, Jobs
  <2> QED
    BY <2>7, <2>8 DEF JobsTracked
<1> QED
  BY <1>1, GatewayHolds, PTL

-----------------------------------------------------------------------------
(* Sequences.                                                              *)

\* Whatever holds of 0 and goes up with every step up to n holds of n.
LEMMA Induction ==
  ASSUME NEW n \in Nat, NEW S, 0 \in S, \A k \in 0..(n - 1) : k \in S => k + 1 \in S
  PROVE  n \in S
<1> SUFFICES ASSUME n \notin S PROVE FALSE
  OBVIOUS
<1> DEFINE A == {k \in 0..n : \A j \in 0..k : j \in S}
           f == [k \in A |-> k + 1]
<1>1. 0 \in A /\ n \notin A
  OBVIOUS
<1>2. \A k \in A : k + 1 \in A /\ k + 1 # 0 /\ k \in Nat
  BY <1>1
<1>3. IsFiniteSet(0..n)
  BY FS_Interval
<1>4. IsFiniteSet(A)
  BY <1>3, FS_Subset
<1>5. IsFiniteSet(A \ {0}) /\ Cardinality(A \ {0}) = Cardinality(A) - 1
  BY <1>1, <1>4, FS_RemoveElement
<1>6. Cardinality(A) \in Nat
  BY <1>4, FS_CardinalityType
<1>7. f \in [A -> A \ {0}]
  BY <1>2
<1> HIDE DEF f, A
<1>8. \E x, y \in A : x # y /\ f[x] = f[y]
  BY <1>4, <1>5, <1>6, <1>7, FS_PigeonHole
<1> QED
  BY <1>2, <1>8 DEF f

\* The fold that FlattenSeq evaluates.
IsFlat(g, seqs) == g = [i \in 1..Len(seqs) |-> IF i = 1 THEN seqs[i] ELSE g[i - 1] \o seqs[i]]

\* That fold exists, by induction over the number of sequences.
LEMMA FlatExists ==
  ASSUME NEW X, NEW seqs \in Seq(Seq(X)), Len(seqs) # 0
  PROVE  \E g : IsFlat(g, seqs)
<1> DEFINE Upto(n) == 1..n
           Good(g, n) == g = [i \in 1..n |-> IF i = 1 THEN seqs[i] ELSE g[i - 1] \o seqs[i]]
           S == {n \in Nat : \E g : Good(g, n)}
<1>1. Len(seqs) \in Nat
  OBVIOUS
<1>2. 0 \in S
  <2>1. Good([i \in 1..0 |-> 0], 0)
    OBVIOUS
  <2> QED
    BY <2>1
<1>3. ASSUME NEW k \in 0..(Len(seqs) - 1), k \in S PROVE k + 1 \in S
  <2>1. PICK g : Good(g, k)
    BY <1>3
  <2> DEFINE h == [i \in 1..(k + 1) |-> IF i = 1 THEN seqs[i] ELSE IF i = k + 1 THEN g[k] \o seqs[i] ELSE g[i]]
  <2>2. \A i \in 1..(k + 1) :
          h[i] = IF i = 1 THEN seqs[i] ELSE IF i = k + 1 THEN g[k] \o seqs[i] ELSE g[i]
    OBVIOUS
  <2>3. h = [i \in 1..(k + 1) |-> h[i]]
    OBVIOUS
  <2> HIDE DEF h
  <2>4. \A i \in 1..k : g[i] = IF i = 1 THEN seqs[i] ELSE g[i - 1] \o seqs[i]
    BY <2>1
  <2>5. k \in Nat
    BY <1>1
  <2>6. \A i \in 1..k : h[i] = g[i]
    <3> SUFFICES ASSUME NEW i \in 1..k PROVE h[i] = g[i]
      OBVIOUS
    <3>1. i \in 1..(k + 1) /\ i # k + 1
      BY <2>5
    <3> QED
      BY <2>2, <2>4, <3>1
  <2>7. \A i \in 1..(k + 1) : h[i] = IF i = 1 THEN seqs[i] ELSE h[i - 1] \o seqs[i]
    <3> SUFFICES ASSUME NEW i \in 1..(k + 1), i # 1 PROVE h[i] = h[i - 1] \o seqs[i]
      BY <2>2
    <3>0. i - 1 \in 1..k
      BY <2>5
    <3>1. i - 1 \in 1..k /\ h[i - 1] = g[i - 1]
      BY <3>0, <2>6
    <3>2. CASE i = k + 1
      <4>1. i - 1 = k
        BY <2>5, <3>2
      <4>2. h[i] = g[k] \o seqs[i]
        BY <2>2, <3>2
      <4> QED
        BY <3>1, <4>1, <4>2
    <3>3. CASE i # k + 1
      <4>1. i \in 1..k
        BY <2>5, <3>3
      <4> QED
        BY <2>4, <2>6, <3>1, <4>1
    <3> QED
      BY <3>2, <3>3
  <2>8. Good(h, k + 1)
    BY <2>3, <2>7
  <2> HIDE DEF Good
  <2> QED
    BY <2>5, <2>8
<1> HIDE DEF Good, S
<1>4. Len(seqs) \in S
  BY <1>1, <1>2, <1>3, Induction
<1> QED
  BY <1>4 DEF S, Good, IsFlat

\* FlattenSeq is the last value of the fold.
LEMMA FlatValue ==
  ASSUME NEW X, NEW seqs \in Seq(Seq(X)), Len(seqs) # 0
  PROVE  \E g : IsFlat(g, seqs) /\ FlattenSeq(seqs) = g[Len(seqs)]
<1> DEFINE G == CHOOSE g : IsFlat(g, seqs)
<1>1. IsFlat(G, seqs)
  BY FlatExists
<1>2. FlattenSeq(seqs) = G[Len(seqs)]
  BY DEF FlattenSeq, IsFlat
<1> QED
  BY <1>1, <1>2

\* The fold, one sequence at a time.
LEMMA FlatRecursion ==
  ASSUME NEW seqs, NEW g, IsFlat(g, seqs), Len(seqs) \in Nat
  PROVE  /\ Len(seqs) # 0 => g[1] = seqs[1]
         /\ \A k \in Nat : k # 0 /\ k + 1 \in 1..Len(seqs) => g[k + 1] = g[k] \o seqs[k + 1]
<1>1. \A i \in 1..Len(seqs) : g[i] = IF i = 1 THEN seqs[i] ELSE g[i - 1] \o seqs[i]
  BY DEF IsFlat
<1>2. ASSUME NEW k \in Nat, k # 0, k + 1 \in 1..Len(seqs)
      PROVE  g[k + 1] = g[k] \o seqs[k + 1]
  <2>1. PICK i \in 1..Len(seqs) : i = k + 1
    BY <1>2
  <2>2. i # 1 /\ i - 1 = k
    BY <1>2, <2>1
  <2>3. g[i] = g[i - 1] \o seqs[i]
    BY <1>1, <2>2
  <2> QED
    BY <2>1, <2>2, <2>3
<1>3. Len(seqs) # 0 => g[1] = seqs[1]
  BY <1>1
<1> QED
  BY <1>2, <1>3

\* No sequences are flattened to the empty one.
LEMMA FlatEmpty == FlattenSeq(<<>>) = <<>>
BY DEF FlattenSeq

\* Flattened sequences over X are a sequence over X.
LEMMA FlatType ==
  ASSUME NEW X, NEW seqs \in Seq(Seq(X))
  PROVE  FlattenSeq(seqs) \in Seq(X)
<1>1. CASE Len(seqs) = 0
  BY <1>1 DEF FlattenSeq
<1>2. CASE Len(seqs) # 0
  <2>1. PICK g : IsFlat(g, seqs) /\ FlattenSeq(seqs) = g[Len(seqs)]
    BY <1>2, FlatValue
  <2>2. Len(seqs) \in Nat /\ \A i \in 1..Len(seqs) : seqs[i] \in Seq(X)
    OBVIOUS
  <2>3. \A i \in 1..Len(seqs) : g[i] = IF i = 1 THEN seqs[i] ELSE g[i - 1] \o seqs[i]
    BY <2>1 DEF IsFlat
  <2> DEFINE S == {k \in Nat : k \in 1..Len(seqs) => g[k] \in Seq(X)}
  <2>4. 0 \in S
    OBVIOUS
  <2>5. ASSUME NEW k \in 0..(Len(seqs) - 1), k \in S PROVE k + 1 \in S
    <3>1. k \in Nat /\ k + 1 \in 1..Len(seqs) /\ k + 1 - 1 = k
      BY <2>2
    <3>2. CASE k = 0
      BY <2>2, <2>3, <3>1, <3>2
    <3>3. CASE k # 0
      <4>1. k \in 1..Len(seqs)
        BY <3>1, <3>3, <2>2
      <4>2. g[k] \in Seq(X) /\ seqs[k + 1] \in Seq(X)
        BY <2>2, <2>5, <3>1, <4>1
      <4>3. g[k + 1] = g[k] \o seqs[k + 1]
        BY <2>1, <2>2, <3>1, <3>3, FlatRecursion
      <4>4. g[k + 1] \in Seq(X)
        BY <4>2, <4>3
      <4> QED
        BY <3>1, <4>4
    <3> QED
      BY <3>2, <3>3
  <2> HIDE DEF S
  <2>6. Len(seqs) \in S
    BY <2>2, <2>4, <2>5, Induction
  <2> QED
    BY <1>2, <2>1, <2>2, <2>6 DEF S
<1> QED
  BY <1>1, <1>2

\* One more sequence is appended to what the others are flattened to.
LEMMA FlatStep ==
  ASSUME NEW X, NEW seqs \in Seq(Seq(X)), NEW x \in Seq(X)
  PROVE  FlattenSeq(Append(seqs, x)) = FlattenSeq(seqs) \o x
<1> DEFINE more == Append(seqs, x)
           n == Len(seqs)
<1>1. /\ more \in Seq(Seq(X)) /\ Len(more) = n + 1 /\ n \in Nat
      /\ \A i \in 1..n : more[i] = seqs[i]
      /\ more[n + 1] = x
  OBVIOUS
<1> HIDE DEF more
<1>2. PICK f : IsFlat(f, more) /\ FlattenSeq(more) = f[n + 1]
  BY <1>1, FlatValue, Len(more) # 0
<1>3. \A i \in 1..(n + 1) : f[i] = IF i = 1 THEN more[i] ELSE f[i - 1] \o more[i]
  BY <1>1, <1>2 DEF IsFlat
<1>4. CASE n = 0
  <2>1. FlattenSeq(seqs) = <<>>
    BY <1>4 DEF FlattenSeq
  <2>2. f[n + 1] = x
    BY <1>1, <1>3, <1>4
  <2> QED
    BY <1>2, <2>1, <2>2 DEF more
<1>5. CASE n # 0
  <2>1. PICK g : IsFlat(g, seqs) /\ FlattenSeq(seqs) = g[n]
    BY <1>5, FlatValue
  <2>2. \A i \in 1..n : g[i] = IF i = 1 THEN seqs[i] ELSE g[i - 1] \o seqs[i]
    BY <2>1 DEF IsFlat
  <2> DEFINE S == {k \in Nat : k \in 1..n => f[k] = g[k]}
  <2>3. 0 \in S
    OBVIOUS
  <2>4. ASSUME NEW k \in 0..(n - 1), k \in S PROVE k + 1 \in S
    <3>1. k \in Nat /\ k + 1 \in 1..n /\ k + 1 \in 1..(n + 1) /\ k + 1 - 1 = k
      BY <1>1
    <3>1a. k + 1 \in 1..Len(more) /\ Len(more) \in Nat
      BY <1>1, <3>1
    <3>2. more[k + 1] = seqs[k + 1]
      BY <1>1, <3>1
    <3>3. CASE k = 0
      <4>1. k + 1 = 1
        BY <3>3
      <4> QED
        BY <1>3, <2>2, <3>1, <3>2, <4>1
    <3>4. CASE k # 0
      <4>1. k \in 1..n /\ k + 1 # 1
        BY <3>1, <3>4, <1>1
      <4>2. f[k] = g[k]
        BY <2>4, <4>1
      <4>3. g[k + 1] = g[k] \o seqs[k + 1]
        BY <2>1, <1>1, <3>1, <3>4, FlatRecursion
      <4>4. f[k + 1] = f[k] \o more[k + 1]
        BY <1>2, <3>1, <3>4, FlatRecursion, <3>1a
      <4>5. f[k + 1] = g[k + 1]
        BY <3>2, <4>2, <4>3, <4>4
      <4> QED
        BY <3>1, <4>5
    <3> QED
      BY <3>3, <3>4
  <2> HIDE DEF S
  <2>5. n \in S
    BY <1>1, <2>3, <2>4, Induction
  <2>6. f[n] = g[n]
    BY <1>1, <1>5, <2>5 DEF S
  <2>7. n + 1 \in 1..Len(more)
    BY <1>1, <1>5
  <2>8. f[n + 1] = f[n] \o x
    <3>1. Len(more) \in Nat /\ n \in Nat /\ more[n + 1] = x
      BY <1>1
    <3> HIDE DEF n
    <3>2. f[n + 1] = f[n] \o more[n + 1]
      BY <1>2, <1>5, <2>7, <3>1, FlatRecursion
    <3> QED
      BY <3>1, <3>2
  <2> QED
    BY <1>2, <2>1, <2>6, <2>8 DEF more
<1> QED
  BY <1>4, <1>5

\* Flattening distributes over concatenation.
LEMMA FlatJoin ==
  ASSUME NEW X, NEW s \in Seq(Seq(X)), NEW t \in Seq(Seq(X))
  PROVE  FlattenSeq(s \o t) = FlattenSeq(s) \o FlattenSeq(t)
<1> DEFINE part(k) == SubSeq(t, 1, k)
           S == {k \in Nat : k <= Len(t) => FlattenSeq(s \o part(k)) = FlattenSeq(s) \o FlattenSeq(part(k))}
<1>1. Len(t) \in Nat
  OBVIOUS
<1>2. 0 \in S
  <2>1. part(0) = <<>> /\ s \o <<>> = s
    OBVIOUS
  <2>2. FlattenSeq(s) \in Seq(X)
    BY FlatType
  <2>3. FlattenSeq(s) \o <<>> = FlattenSeq(s)
    BY <2>2
  <2> QED
    BY <2>1, <2>3, FlatEmpty
<1>3. ASSUME NEW k \in 0..(Len(t) - 1), k \in S PROVE k + 1 \in S
  <2>1. k \in Nat /\ k <= Len(t) /\ k + 1 <= Len(t) /\ k + 1 \in 1..Len(t)
    BY <1>1
  <2>2. part(k) \in Seq(Seq(X)) /\ part(k + 1) = Append(part(k), t[k + 1]) /\ t[k + 1] \in Seq(X)
    BY <2>1
  <2>3. s \o part(k + 1) = Append(s \o part(k), t[k + 1])
    BY <2>2
  <2>4. s \o part(k) \in Seq(Seq(X))
    BY <2>2
  <2> HIDE DEF part
  <2>5. FlattenSeq(s \o part(k + 1)) = FlattenSeq(s \o part(k)) \o t[k + 1]
    BY <2>2, <2>3, <2>4, FlatStep
  <2>6. FlattenSeq(part(k + 1)) = FlattenSeq(part(k)) \o t[k + 1]
    BY <2>2, FlatStep
  <2>7. FlattenSeq(s) \in Seq(X) /\ FlattenSeq(part(k)) \in Seq(X)
    BY <2>2, FlatType
  <2>8. (FlattenSeq(s) \o FlattenSeq(part(k))) \o t[k + 1] = FlattenSeq(s) \o (FlattenSeq(part(k)) \o t[k + 1])
    <3>1. PICK a \in Seq(X), b \in Seq(X), c \in Seq(X) :
            a = FlattenSeq(s) /\ b = FlattenSeq(part(k)) /\ c = t[k + 1]
      BY <2>2, <2>7
    <3>3. (a \o b) \o c = a \o (b \o c)
      OBVIOUS
    <3> QED
      BY <3>1, <3>3
  <2>9. FlattenSeq(s \o part(k)) = FlattenSeq(s) \o FlattenSeq(part(k))
    BY <1>3, <2>1
  <2>10. FlattenSeq(s \o part(k + 1)) = FlattenSeq(s) \o FlattenSeq(part(k + 1))
    BY <2>5, <2>6, <2>8, <2>9
  <2> QED
    BY <2>1, <2>10
<1>4. part(Len(t)) = t
  OBVIOUS
<1> HIDE DEF S, part
<1>5. Len(t) \in S
  BY <1>1, <1>2, <1>3, Induction
<1> QED
  BY <1>1, <1>4, <1>5 DEF S

-----------------------------------------------------------------------------
(* Frames, one after the other.                                            *)

IdentKinds == {"", "msg", "rs", "call", "item", "fc"}
Idents == {Id(k, t) : k \in IdentKinds, t \in Tools \cup {0}}
FrameTypes == {"role", "created", "message_start", "content", "tool_calls", "added", "delta", "done", "completed",
               "block_start", "block_delta", "block_stop", "finish", "error", "end"}
Frames == [type : FrameTypes, at : Int, item : Idents, args : Seq(Nat)]
Count(f, type) == Cardinality(Occurs(f, type))

\* The places at which frames of a type occur.
LEMMA OccursFinite ==
  ASSUME NEW f \in Seq(Frames), NEW type
  PROVE  /\ Occurs(f, type) \subseteq 1..Len(f)
         /\ IsFiniteSet(Occurs(f, type))
         /\ Count(f, type) \in Nat
<1>1. Occurs(f, type) \subseteq 1..Len(f) /\ Len(f) \in Nat
  BY DEF Occurs
<1>2. IsFiniteSet(Occurs(f, type))
  <2>1. IsFiniteSet(1..Len(f))
    BY <1>1, FS_Interval
  <2> QED
    BY <1>1, <2>1, FS_Subset
<1> QED
  BY <1>1, <1>2, FS_CardinalityType DEF Count

\* One more frame adds a place to those of its own type only.
LEMMA OccursAppend ==
  ASSUME NEW f \in Seq(Frames), NEW x \in Frames, NEW type
  PROVE  /\ Occurs(Append(f, x), type) = Occurs(f, type) \cup (IF x.type = type THEN {Len(f) + 1} ELSE {})
         /\ Count(Append(f, x), type) = Count(f, type) + (IF x.type = type THEN 1 ELSE 0)
<1> DEFINE g == Append(f, x)
<1>1. Len(f) \in Nat /\ DOMAIN g = 1..(Len(f) + 1) /\ DOMAIN f = 1..Len(f)
  OBVIOUS
<1>2. \A i \in 1..Len(f) : g[i] = f[i]
  OBVIOUS
<1>3. g[Len(f) + 1] = x
  OBVIOUS
<1> HIDE DEF g
<1>4. Occurs(g, type) = Occurs(f, type) \cup (IF x.type = type THEN {Len(f) + 1} ELSE {})
  BY <1>1, <1>2, <1>3 DEF Occurs
<1>5. Len(f) + 1 \notin Occurs(f, type)
  BY <1>1 DEF Occurs
<1>6. IsFiniteSet(Occurs(f, type)) /\ Cardinality(Occurs(f, type)) \in Nat
  BY OccursFinite DEF Count
<1>7. CASE x.type = type
  <2>1. Occurs(g, type) = Occurs(f, type) \cup {Len(f) + 1}
    BY <1>4, <1>7
  <2>2. Cardinality(Occurs(g, type)) = Cardinality(Occurs(f, type)) + 1
    BY <1>5, <1>6, <2>1, FS_AddElement
  <2> QED
    BY <1>4, <1>7, <2>2 DEF g, Count
<1>8. CASE x.type # type
  <2>1. Occurs(g, type) = Occurs(f, type)
    BY <1>4, <1>8
  <2>2. Cardinality(Occurs(g, type)) = Cardinality(Occurs(f, type)) + 0
    BY <1>6, <2>1
  <2> QED
    BY <1>4, <1>8, <2>2 DEF g, Count
<1> QED
  BY <1>7, <1>8

\* The occurrences up to a place do not change when a frame is appended.
LEMMA OccursBefore ==
  ASSUME NEW f \in Seq(Frames), NEW x \in Frames, NEW type, NEW i \in 1..Len(f)
  PROVE  /\ {j \in Occurs(Append(f, x), type) : j <= i} = {j \in Occurs(f, type) : j <= i}
         /\ {j \in Occurs(Append(f, x), type) : j < i} = {j \in Occurs(f, type) : j < i}
         /\ Append(f, x)[i] = f[i]
<1>1. Len(f) \in Nat /\ Append(f, x)[i] = f[i]
  OBVIOUS
<1>2. Occurs(Append(f, x), type) = Occurs(f, type) \cup (IF x.type = type THEN {Len(f) + 1} ELSE {})
  BY OccursAppend
<1>3. Occurs(f, type) \subseteq 1..Len(f)
  BY OccursFinite
<1> QED
  BY <1>1, <1>2, <1>3

\* Up to the place of the appended frame are all occurrences, before it are the earlier ones.
LEMMA OccursLast ==
  ASSUME NEW f \in Seq(Frames), NEW x \in Frames, NEW type
  PROVE  /\ {j \in Occurs(Append(f, x), type) : j <= Len(f) + 1} = Occurs(Append(f, x), type)
         /\ {j \in Occurs(Append(f, x), type) : j < Len(f) + 1} = Occurs(f, type)
         /\ Append(f, x)[Len(f) + 1] = x
         /\ DOMAIN Append(f, x) = 1..(Len(f) + 1)
<1>1. Len(f) \in Nat /\ Append(f, x)[Len(f) + 1] = x /\ DOMAIN Append(f, x) = 1..(Len(f) + 1)
  OBVIOUS
<1>2. Occurs(Append(f, x), type) = Occurs(f, type) \cup (IF x.type = type THEN {Len(f) + 1} ELSE {})
  BY OccursAppend
<1>3. Occurs(f, type) \subseteq 1..Len(f)
  BY OccursFinite
<1> QED
  BY <1>1, <1>2, <1>3

\* What a frame must satisfy where it is appended.
BlockFits(f, x) ==
  LET s == Count(f, "block_start") + (IF x.type = "block_start" THEN 1 ELSE 0)
      e == Count(f, "block_stop") + (IF x.type = "block_stop" THEN 1 ELSE 0)
  IN  /\ s - e \in {0, 1}
      /\ x.type \in {"block_start", "block_delta"} => x.at = s - 1 /\ s - e = 1
      /\ x.type = "block_stop" => x.at = s - 1
      /\ x.type = "finish" => s = e

\* Content blocks stay well formed when the next frame fits them.
LEMMA BlocksAppend ==
  ASSUME NEW f \in Seq(Frames), NEW x \in Frames, BlocksWellFormed(f), BlockFits(f, x)
  PROVE  BlocksWellFormed(Append(f, x))
<1> DEFINE g == Append(f, x)
           starts(h, i) == Cardinality({j \in Occurs(h, "block_start") : j <= i})
           stops(h, i)  == Cardinality({j \in Occurs(h, "block_stop") : j <= i})
           Fits(h, i) == /\ starts(h, i) - stops(h, i) \in {0, 1}
                         /\ h[i].type \in {"block_start", "block_delta"} =>
                              h[i].at = starts(h, i) - 1 /\ starts(h, i) - stops(h, i) = 1
                         /\ h[i].type = "block_stop" => h[i].at = starts(h, i) - 1
                         /\ h[i].type = "finish" => starts(h, i) = stops(h, i)
<1>1. \A i \in DOMAIN f : Fits(f, i)
  BY DEF BlocksWellFormed
<1>2. DOMAIN g = 1..(Len(f) + 1) /\ DOMAIN f = 1..Len(f) /\ Len(f) \in Nat
  OBVIOUS
<1>3. ASSUME NEW i \in 1..Len(f) PROVE Fits(g, i)
  <2>1. starts(g, i) = starts(f, i) /\ stops(g, i) = stops(f, i) /\ g[i] = f[i]
    <3>1. {j \in Occurs(g, "block_start") : j <= i} = {j \in Occurs(f, "block_start") : j <= i}
      BY OccursBefore
    <3>2. {j \in Occurs(g, "block_stop") : j <= i} = {j \in Occurs(f, "block_stop") : j <= i}
      BY OccursBefore
    <3>3. g[i] = f[i]
      BY OccursBefore
    <3> HIDE DEF g
    <3> QED
      BY <3>1, <3>2, <3>3
  <2>2. Fits(f, i)
    BY <1>1, <1>2
  <2> HIDE DEF g, starts, stops
  <2> QED
    BY <2>1, <2>2
<1>4. Fits(g, Len(f) + 1)
  <2>1. /\ starts(g, Len(f) + 1) = Count(f, "block_start") + (IF x.type = "block_start" THEN 1 ELSE 0)
        /\ stops(g, Len(f) + 1) = Count(f, "block_stop") + (IF x.type = "block_stop" THEN 1 ELSE 0)
        /\ g[Len(f) + 1] = x
    <3>1. {j \in Occurs(g, "block_start") : j <= Len(f) + 1} = Occurs(g, "block_start")
      BY OccursLast
    <3>2. {j \in Occurs(g, "block_stop") : j <= Len(f) + 1} = Occurs(g, "block_stop")
      BY OccursLast
    <3>3. g[Len(f) + 1] = x
      BY OccursLast
    <3>4. /\ Count(g, "block_start") = Count(f, "block_start") + (IF x.type = "block_start" THEN 1 ELSE 0)
          /\ Count(g, "block_stop") = Count(f, "block_stop") + (IF x.type = "block_stop" THEN 1 ELSE 0)
      BY OccursAppend
    <3> HIDE DEF g
    <3> QED
      BY <3>1, <3>2, <3>3, <3>4 DEF Count
  <2> HIDE DEF g, starts, stops
  <2> QED
    BY <2>1 DEF BlockFits
<1>5. \A i \in DOMAIN g : Fits(g, i)
  <2> HIDE DEF Fits, g
  <2>1. \A i \in 1..(Len(f) + 1) : i \in 1..Len(f) \/ i = Len(f) + 1
    BY <1>2
  <2> QED
    BY <1>2, <1>3, <1>4, <2>1
<1> QED
  BY <1>5 DEF BlocksWellFormed

OutputFits(f, x) ==
  /\ Occurs(f, "completed") = {} \/ x.type \notin {"added", "done"}
  /\ x.type = "added" => x.at = Count(f, "added")
  /\ x.type \in {"delta", "done"} =>
       /\ \E j \in Occurs(f, "added") : f[j].at = x.at /\ f[j].item = x.item
       /\ ~\E j \in Occurs(f, "done") : f[j].at = x.at
  /\ x.type = "completed" =>
       x.at = Count(f, "added") /\ {f[j].at : j \in Occurs(f, "done")} = 0..(x.at - 1)

\* The items of a Responses stream stay well formed when the next frame fits them.
LEMMA OutputAppend ==
  ASSUME NEW f \in Seq(Frames), NEW x \in Frames, OutputWellFormed(f), OutputFits(f, x)
  PROVE  OutputWellFormed(Append(f, x))
<1> DEFINE g == Append(f, x)
           n == Len(f) + 1
<1>1. Len(f) \in Nat
  OBVIOUS
<1>2. \A i \in 1..Len(f) : g[i] = f[i]
  OBVIOUS
<1>3. g[n] = x
  OBVIOUS
<1>4. Occurs(f, "added") \subseteq 1..Len(f) /\ Occurs(f, "done") \subseteq 1..Len(f)
      /\ Occurs(f, "delta") \subseteq 1..Len(f) /\ Occurs(f, "completed") \subseteq 1..Len(f)
  BY OccursFinite
<1>5. /\ Occurs(g, "added") = Occurs(f, "added") \cup (IF x.type = "added" THEN {n} ELSE {})
      /\ Occurs(g, "done") = Occurs(f, "done") \cup (IF x.type = "done" THEN {n} ELSE {})
      /\ Occurs(g, "delta") = Occurs(f, "delta") \cup (IF x.type = "delta" THEN {n} ELSE {})
      /\ Occurs(g, "completed") = Occurs(f, "completed") \cup (IF x.type = "completed" THEN {n} ELSE {})
  BY OccursAppend
<1>6. \A i \in 1..Len(f) : {j \in Occurs(g, "added") : j < i} = {j \in Occurs(f, "added") : j < i}
  BY OccursBefore
<1>7. {j \in Occurs(g, "added") : j < n} = Occurs(f, "added")
  BY OccursLast
<1>8. Count(g, "added") = Count(f, "added") + (IF x.type = "added" THEN 1 ELSE 0) /\ Count(f, "added") \in Nat
  BY OccursAppend, OccursFinite
<1> HIDE DEF g
<1>9. ASSUME NEW i \in Occurs(g, "added") PROVE g[i].at = Cardinality({j \in Occurs(g, "added") : j < i})
  <2>1. CASE i \in Occurs(f, "added")
    <3>1. f[i].at = Cardinality({j \in Occurs(f, "added") : j < i})
      BY <2>1 DEF OutputWellFormed
    <3>2. i \in 1..Len(f)
      BY <2>1, <1>4
    <3> QED
      BY <1>2, <1>6, <3>1, <3>2
  <2>2. CASE i \notin Occurs(f, "added")
    <3>1. i = n /\ x.type = "added"
      BY <1>5, <2>2
    <3> QED
      BY <1>3, <1>7, <3>1 DEF OutputFits, Count
  <2> QED
    BY <2>1, <2>2
<1>10. ASSUME NEW i \in Occurs(g, "delta") \cup Occurs(g, "done")
       PROVE  /\ \E j \in Occurs(g, "added") : j < i /\ g[j].at = g[i].at /\ g[j].item = g[i].item
              /\ ~\E j \in Occurs(g, "done") : j < i /\ g[j].at = g[i].at
  <2>1. CASE i \in Occurs(f, "delta") \cup Occurs(f, "done")
    <3>1. i \in 1..Len(f) /\ g[i] = f[i]
      BY <2>1, <1>2, <1>4
    <3>2. PICK j \in Occurs(f, "added") : j < i /\ f[j].at = f[i].at /\ f[j].item = f[i].item
      BY <2>1 DEF OutputWellFormed
    <3>3. j \in Occurs(g, "added") /\ g[j] = f[j]
      BY <1>2, <1>4, <1>5
    <3>4. ASSUME NEW k \in Occurs(g, "done"), k < i, g[k].at = g[i].at PROVE FALSE
      <4>1. k \in Occurs(f, "done")
        BY <1>1, <1>5, <3>1, <3>4
      <4>2. g[k] = f[k]
        BY <1>2, <1>4, <4>1
      <4> QED
        BY <2>1, <3>1, <3>4, <4>1, <4>2 DEF OutputWellFormed
    <3> QED
      BY <3>1, <3>2, <3>3, <3>4
  <2>2. CASE i \notin Occurs(f, "delta") \cup Occurs(f, "done")
    <3>1. i = n /\ x.type \in {"delta", "done"}
      BY <1>5, <2>2
    <3>2. PICK j \in Occurs(f, "added") : f[j].at = x.at /\ f[j].item = x.item
      BY <3>1 DEF OutputFits
    <3>3. j \in Occurs(g, "added") /\ g[j] = f[j] /\ j < n
      BY <1>1, <1>2, <1>4, <1>5
    <3>4. ASSUME NEW k \in Occurs(g, "done"), k < n, g[k].at = x.at PROVE FALSE
      <4>1. k \in Occurs(f, "done")
        BY <1>5, <3>4, <1>1
      <4>2. g[k] = f[k]
        BY <1>2, <1>4, <4>1
      <4> QED
        BY <3>1, <3>4, <4>1, <4>2 DEF OutputFits
    <3> QED
      BY <1>3, <3>1, <3>2, <3>3, <3>4
  <2> QED
    BY <2>1, <2>2
<1>11. ASSUME NEW i \in Occurs(g, "completed")
       PROVE  /\ g[i].at = Cardinality(Occurs(g, "added"))
              /\ {g[j].at : j \in Occurs(g, "done")} = 0..(g[i].at - 1)
  <2>1. x.type \notin {"added", "done"}
    BY <1>5 DEF OutputFits
  <2>2. Occurs(g, "added") = Occurs(f, "added") /\ Occurs(g, "done") = Occurs(f, "done")
    BY <1>5, <2>1
  <2>3. {g[j].at : j \in Occurs(g, "done")} = {f[j].at : j \in Occurs(f, "done")}
    BY <1>2, <1>4, <2>2
  <2>4. CASE i \in Occurs(f, "completed")
    <3>1. g[i] = f[i]
      BY <1>2, <1>4, <2>4
    <3> QED
      BY <2>2, <2>3, <2>4, <3>1 DEF OutputWellFormed
  <2>5. CASE i \notin Occurs(f, "completed")
    <3>1. i = n /\ x.type = "completed"
      BY <1>5, <2>5
    <3> QED
      BY <1>3, <2>2, <2>3, <3>1 DEF OutputFits, Count
  <2> QED
    BY <2>4, <2>5
<1> HIDE DEF n
<1> QED
  BY <1>9, <1>10, <1>11 DEF OutputWellFormed, g

Endings(f) == Occurs(f, "finish") \cup Occurs(f, "completed") \cup Occurs(f, "error")
Ongoing(f) == Occurs(f, "end") = {} /\ Endings(f) = {}
EndFits(f, x) == Occurs(f, "end") = {} /\ (x.type \in {"finish", "completed", "error"} => Endings(f) = {})

\* A stream that ended once has not ended again when the next frame is no second end.
LEMMA EndsAppend ==
  ASSUME NEW f \in Seq(Frames), NEW x \in Frames, EndsOnce(f), EndFits(f, x)
  PROVE  EndsOnce(Append(f, x))
<1> DEFINE g == Append(f, x)
           n == Len(f) + 1
<1>1. Len(g) = n /\ Len(f) \in Nat
  OBVIOUS
<1>2. /\ Occurs(g, "end") = Occurs(f, "end") \cup (IF x.type = "end" THEN {n} ELSE {})
      /\ Occurs(g, "finish") = Occurs(f, "finish") \cup (IF x.type = "finish" THEN {n} ELSE {})
      /\ Occurs(g, "completed") = Occurs(f, "completed") \cup (IF x.type = "completed" THEN {n} ELSE {})
      /\ Occurs(g, "error") = Occurs(f, "error") \cup (IF x.type = "error" THEN {n} ELSE {})
  BY OccursAppend
<1> HIDE DEF g, n
<1>3. \A i \in Occurs(g, "end") : i = Len(g)
  BY <1>1, <1>2 DEF EndFits
<1>4. Cardinality(Occurs(g, "finish") \cup Occurs(g, "completed") \cup Occurs(g, "error")) <= 1
  <2>1. CASE x.type \in {"finish", "completed", "error"}
    <3>1. Occurs(g, "finish") \cup Occurs(g, "completed") \cup Occurs(g, "error") = {n}
      BY <1>2, <2>1 DEF EndFits, Endings
    <3>2. Cardinality({n}) = 1
      BY FS_Singleton
    <3>3. Cardinality(Occurs(g, "finish") \cup Occurs(g, "completed") \cup Occurs(g, "error")) = 1
      BY <3>1, <3>2, Zenon
    <3> QED
      BY <3>3
  <2>2. CASE x.type \notin {"finish", "completed", "error"}
    <3>1. /\ Occurs(g, "finish") = Occurs(f, "finish") /\ Occurs(g, "completed") = Occurs(f, "completed")
          /\ Occurs(g, "error") = Occurs(f, "error")
      BY <1>2, <2>2
    <3>2. Cardinality(Occurs(f, "finish") \cup Occurs(f, "completed") \cup Occurs(f, "error")) <= 1
      BY DEF EndsOnce
    <3>3. Occurs(g, "finish") \cup Occurs(g, "completed") \cup Occurs(g, "error")
          = Occurs(f, "finish") \cup Occurs(f, "completed") \cup Occurs(f, "error")
      BY <3>1
    <3> QED
      BY <3>2, <3>3
  <2> QED
    BY <2>1, <2>2
<1> QED
  BY <1>3, <1>4 DEF EndsOnce, g

\* A stream that is well formed, and one that goes on.
WellFormed(f) == EndsOnce(f) /\ OutputWellFormed(f) /\ BlocksWellFormed(f)

\* A well-formed stream with a frame that fits is well formed.
LEMMA FrameFits ==
  ASSUME NEW f \in Seq(Frames), NEW x \in Frames, WellFormed(f), BlockFits(f, x), OutputFits(f, x), EndFits(f, x)
  PROVE  WellFormed(Append(f, x)) /\ Append(f, x) \in Seq(Frames)
BY BlocksAppend, OutputAppend, EndsAppend DEF WellFormed

-----------------------------------------------------------------------------
(* The state of a stream.                                                  *)

\* The identifiers of tool call t with provider pr.
CallOf(pr, t) == Id(IF "call" \in pr.item THEN "call" ELSE "item", t)
ItemOf(pr, t) == Id(IF "item" \in pr.item THEN "item" ELSE "fc", t)
IsToolEvent(e, pr, t) ==
  e.kind = "tool" /\ e.id = CallOf(pr, t) /\ e.itemID = ItemOf(pr, t) /\ e.args \in Seq(Nat)

\* Identifiers of every kind are identifiers.
LEMMA Identifiers == \A k \in IdentKinds, t \in Tools \cup {0} : Id(k, t) \in Idents
BY DEF Idents

\* Calls and items with one provider have different names.
LEMMA Names ==
  ASSUME NEW pr, NEW t, NEW u
  PROVE  /\ CallOf(pr, t) = CallOf(pr, u) => t = u
         /\ CallOf(pr, t) = ItemOf(pr, u) => t = u
         /\ ItemOf(pr, t) = ItemOf(pr, u) => t = u
         /\ t \in Tools => CallOf(pr, t) \in Idents /\ ItemOf(pr, t) \in Idents
<1>1. CallOf(pr, t)[2] = t /\ ItemOf(pr, t)[2] = t /\ CallOf(pr, u)[2] = u /\ ItemOf(pr, u)[2] = u
  BY DEF CallOf, ItemOf, Id
<1>2. t \in Tools => CallOf(pr, t) \in Idents /\ ItemOf(pr, t) \in Idents
  BY Identifiers DEF CallOf, ItemOf, IdentKinds
<1> QED
  BY <1>1, <1>2

\* The names of the text and of the reasoning.
LEMMA FixedNames == NoId \in Idents /\ Text \in Idents /\ Reasoning \in Idents
<1>1. Text \in Idents
  BY Identifiers DEF Text, IdentKinds
<1>2. Reasoning \in Idents
  BY Identifiers DEF IdentKinds, Reasoning
<1>3. NoId = Id("", 0)
  BY Zenon DEF NoId, Id
<1>4. Id("", 0) \in Idents
  BY Identifiers DEF IdentKinds
<1> QED
  BY <1>1, <1>2, <1>3, <1>4

Kinds == {"text", "reasoning", "image", "video", "usage", "error", "done"}
BlockKinds == Kinds \cup {"", "tool"}
ToolEntries == [id : Idents, itemID : Idents, outputIndex : Int, args : Seq(Nat)]
Streams == [tools : Seq(ToolEntries), keys : SUBSET (Idents \X Nat), usage : BOOLEAN, next : Nat, text : Int,
            reasoning : Int, open : BOOLEAN, blockKind : BlockKinds, blockTool : Idents, blockIndex : Nat,
            out : Seq(Frames)]

(* The tool calls recorded so far: each is known by its two identifiers and by nothing else, and
   no two of them are the same. *)
Recorded(tools, keys, pr) ==
  /\ \A n \in DOMAIN tools : \E t \in Tools : tools[n].id = CallOf(pr, t) /\ tools[n].itemID = ItemOf(pr, t)
  /\ \A n, m \in DOMAIN tools : tools[n].id = tools[m].id => n = m
  /\ keys = {<<tools[n].id, n>> : n \in DOMAIN tools} \cup {<<tools[n].itemID, n>> : n \in DOMAIN tools}

\* What the tool event of call t does to the recorded calls.
Records(s, e, pr, t, r) ==
  /\ r.s \in Streams /\ Recorded(r.s.tools, r.s.keys, pr)
  /\ r.s = [s EXCEPT !.tools = r.s.tools, !.keys = r.s.keys]
  /\ r.n \in DOMAIN r.s.tools
  /\ r.s.tools[r.n].id = CallOf(pr, t) /\ r.s.tools[r.n].itemID = ItemOf(pr, t)
  /\ r.fresh <=> \A n \in DOMAIN s.tools : s.tools[n].id # CallOf(pr, t)
  /\ r.fresh => /\ r.n = Len(s.tools) + 1
                /\ r.s.tools = Append(s.tools, [id |-> e.id, itemID |-> e.itemID, outputIndex |-> -1,
                                                args |-> e.args])
  /\ ~r.fresh => /\ r.n \in DOMAIN s.tools /\ s.tools[r.n].id = CallOf(pr, t)
                 /\ s.tools[r.n].itemID = ItemOf(pr, t)
                 /\ r.s.tools = [s.tools EXCEPT ![r.n].args = @ \o e.args]

\* Record finds the tool call by the identifiers of its event or records it as the last one.
LEMMA RecordStep ==
  ASSUME NEW pr, NEW t \in Tools, NEW e, IsToolEvent(e, pr, t),
         NEW s \in Streams, Recorded(s.tools, s.keys, pr)
  PROVE  Records(s, e, pr, t, Record(s, e))
<1> DEFINE r == Record(s, e)
           known == {b \in s.keys : b[1] = e.id}
           c == CallOf(pr, t)
           i == ItemOf(pr, t)
           entry == [id |-> e.id, itemID |-> e.itemID, outputIndex |-> -1, args |-> e.args]
           keysWith(n) == {b \in s.keys : b[1] \notin {e.id, e.itemID}} \cup {<<e.id, n>>, <<e.itemID, n>>}
<1>1. e.id = c /\ e.itemID = i /\ e.args \in Seq(Nat) /\ c \in Idents /\ i \in Idents
  BY Names DEF IsToolEvent
<1>2. s.tools \in Seq(ToolEntries) /\ Len(s.tools) \in Nat /\ DOMAIN s.tools = 1..Len(s.tools)
  BY DEF Streams
<1>3. ASSUME NEW n \in DOMAIN s.tools
      PROVE  /\ s.tools[n].id = c <=> s.tools[n].itemID = i
             /\ s.tools[n].id # c => s.tools[n].itemID # c /\ s.tools[n].id # i
  <2>1. PICK u \in Tools : s.tools[n].id = CallOf(pr, u) /\ s.tools[n].itemID = ItemOf(pr, u)
    BY DEF Recorded
  <2>2. CASE u = t
    BY <2>1, <2>2
  <2>3. CASE u # t
    <3>1. CallOf(pr, u) # c /\ ItemOf(pr, u) # i /\ ItemOf(pr, u) # c /\ CallOf(pr, u) # i
      BY <2>3, Names
    <3> QED
      BY <2>1, <3>1
  <2> QED
    BY <2>2, <2>3
<1>4. \A b \in known : b[2] \in DOMAIN s.tools /\ s.tools[b[2]].id = c
  <2> SUFFICES ASSUME NEW b \in s.keys, b[1] = c PROVE b[2] \in DOMAIN s.tools /\ s.tools[b[2]].id = c
    BY <1>1
  <2>1. PICK n \in DOMAIN s.tools : b = <<s.tools[n].id, n>> \/ b = <<s.tools[n].itemID, n>>
    BY DEF Recorded
  <2>2. b[2] = n /\ (s.tools[n].id = c \/ s.tools[n].itemID = c)
    BY <2>1
  <2>3. s.tools[n].id = c
    BY <1>3, <2>2
  <2> QED
    BY <2>2, <2>3
<1>5. \A n \in DOMAIN s.tools : s.tools[n].id = c => <<c, n>> \in known
  BY <1>1 DEF Recorded
<1>6. \A n, m \in DOMAIN s.tools : s.tools[n].id = s.tools[m].id => n = m
  BY DEF Recorded
<1>7. r.fresh <=> known = {}
  BY DEF Record
<1> HIDE DEF known
<1>8. r.fresh <=> \A n \in DOMAIN s.tools : s.tools[n].id # c
  BY <1>4, <1>5, <1>7
<1>9. \A b \in s.keys : \E n \in DOMAIN s.tools : b = <<s.tools[n].id, n>> \/ b = <<s.tools[n].itemID, n>>
  BY DEF Recorded
<1>10. \A n \in DOMAIN s.tools : <<s.tools[n].id, n>> \in s.keys /\ <<s.tools[n].itemID, n>> \in s.keys
  BY DEF Recorded
<1>11. s = [tools |-> s.tools, keys |-> s.keys, usage |-> s.usage, next |-> s.next, text |-> s.text,
            reasoning |-> s.reasoning, open |-> s.open, blockKind |-> s.blockKind, blockTool |-> s.blockTool,
            blockIndex |-> s.blockIndex, out |-> s.out]
  BY DEF Streams
<1>12. CASE r.fresh
  <2> DEFINE more == Append(s.tools, entry)
             n == Len(s.tools) + 1
  <2>1. r.n = n /\ r.s = [s EXCEPT !.tools = more, !.keys = keysWith(n)]
    BY <1>7, <1>12 DEF Record, known
  <2>2. entry \in ToolEntries
    BY <1>1 DEF ToolEntries
  <2>3. /\ more \in Seq(ToolEntries) /\ DOMAIN more = 1..n /\ n \in 1..n
        /\ \A m \in DOMAIN s.tools : m \in 1..n /\ m # n /\ more[m] = s.tools[m]
        /\ more[n] = entry
        /\ \A m \in 1..n : m = n \/ m \in DOMAIN s.tools
    BY <1>2, <2>2
  <2>4. more[n].id = c /\ more[n].itemID = i
    BY <1>1, <2>3
  <2>5. r.s.tools = more /\ r.s.keys = keysWith(n)
    BY <1>11, <2>1
  <2> HIDE DEF more, n, r, entry
  <2>6. keysWith(n) = {<<more[m].id, m>> : m \in DOMAIN more} \cup {<<more[m].itemID, m>> : m \in DOMAIN more}
    <3>1. ASSUME NEW b \in keysWith(n)
          PROVE  \E m \in DOMAIN more : b = <<more[m].id, m>> \/ b = <<more[m].itemID, m>>
      <4>1. CASE b \in s.keys
        BY <1>9, <2>3, <4>1
      <4>2. CASE b \notin s.keys
        BY <1>1, <2>3, <2>4, <4>2
      <4> QED
        BY <4>1, <4>2
    <3>2. ASSUME NEW m \in DOMAIN more
          PROVE  <<more[m].id, m>> \in keysWith(n) /\ <<more[m].itemID, m>> \in keysWith(n)
      <4>1. CASE m = n
        BY <1>1, <2>4, <4>1
      <4>2. CASE m # n
        <5>1. m \in DOMAIN s.tools /\ more[m] = s.tools[m]
          BY <2>3, <4>2
        <5>2. s.tools[m].id \notin {c, i} /\ s.tools[m].itemID \notin {c, i}
          BY <1>3, <1>8, <1>12, <5>1 DEF r
        <5> QED
          BY <1>1, <1>10, <5>1, <5>2
      <4> QED
        BY <4>1, <4>2
    <3> HIDE DEF keysWith
    <3> QED
      BY <3>1, <3>2, Zenon
  <2>7. \A m \in DOMAIN more : \E u \in Tools : more[m].id = CallOf(pr, u) /\ more[m].itemID = ItemOf(pr, u)
    BY <2>3, <2>4 DEF Recorded
  <2>8. \A m, k \in DOMAIN more : more[m].id = more[k].id => m = k
    BY <1>6, <1>8, <1>12, <2>3, <2>4 DEF r
  <2>9. Recorded(more, keysWith(n), pr)
    BY <2>6, <2>7, <2>8 DEF Recorded
  <2>10. keysWith(n) \subseteq Idents \X Nat
    BY <1>1, <1>2 DEF Streams, n
  <2> HIDE DEF keysWith
  <2>11. r.s \in Streams
    BY <2>1, <2>3, <2>10 DEF Streams
  <2>12. r.s = [s EXCEPT !.tools = r.s.tools, !.keys = r.s.keys]
    BY <2>1, <2>5
  <2> QED
    BY <1>8, <1>12, <2>1, <2>3, <2>4, <2>5, <2>9, <2>11, <2>12 DEF r, more, n, entry, Records
<1>13. CASE ~r.fresh
  <2> DEFINE n == (CHOOSE b \in known : TRUE)[2]
             old == s.tools[n]
             same == [s.tools EXCEPT ![n].args = @ \o e.args]
             both == [s.tools EXCEPT ![n].itemID = e.itemID, ![n].args = @ \o e.args]
  <2>1. n \in DOMAIN s.tools /\ s.tools[n].id = c /\ s.tools[n].itemID = i
    BY <1>3, <1>4, <1>7, <1>13
  <2>2. r.n = n /\ r.s = [s EXCEPT !.tools = both, !.keys = keysWith(n)]
    BY <1>7, <1>13 DEF Record, known
  <2> HIDE DEF n, r
  <2>3. old \in ToolEntries
    BY <1>2, <2>1
  <2>4. [[old EXCEPT !.itemID = e.itemID] EXCEPT !.args = @ \o e.args] = [old EXCEPT !.args = @ \o e.args]
    BY <1>1, <2>1, <2>3 DEF ToolEntries
  <2>5. both = same
    BY <1>2, <2>1, <2>4
  <2>6. [old EXCEPT !.args = @ \o e.args] \in ToolEntries
    <3> HIDE DEF old
    <3>1. old.args \o e.args \in Seq(Nat)
      BY <1>1, <2>3 DEF ToolEntries
    <3> DEFINE more == old.args \o e.args
    <3> HIDE DEF more
    <3>2. [old EXCEPT !.args = more] \in ToolEntries
      BY <2>3, <3>1 DEF ToolEntries, more
    <3> QED
      BY <3>2 DEF more
  <2>7. /\ same \in Seq(ToolEntries) /\ DOMAIN same = DOMAIN s.tools
        /\ \A m \in DOMAIN s.tools : same[m].id = s.tools[m].id /\ same[m].itemID = s.tools[m].itemID
    <3>1. same = [s.tools EXCEPT ![n] = [old EXCEPT !.args = @ \o e.args]]
      BY <1>2, <2>1
    <3>2. [old EXCEPT !.args = @ \o e.args].id = old.id /\ [old EXCEPT !.args = @ \o e.args].itemID = old.itemID
      BY <2>3 DEF ToolEntries
    <3> DEFINE changed == [old EXCEPT !.args = @ \o e.args]
    <3> HIDE DEF changed, same
    <3>3. same = [s.tools EXCEPT ![n] = changed] /\ changed \in ToolEntries
      BY <2>6, <3>1 DEF changed
    <3>4. changed.id = s.tools[n].id /\ changed.itemID = s.tools[n].itemID
      BY <3>2 DEF changed
    <3> HIDE DEF old
    <3> QED
      BY <1>2, <2>1, <3>3, <3>4
  <2>8. keysWith(n) = s.keys
    <3>1. <<c, n>> \in s.keys /\ <<i, n>> \in s.keys
      BY <1>10, <2>1
    <3>2. ASSUME NEW b \in s.keys, b[1] \in {c, i} PROVE b \in {<<c, n>>, <<i, n>>}
      <4>1. PICK m \in DOMAIN s.tools : b = <<s.tools[m].id, m>> \/ b = <<s.tools[m].itemID, m>>
        BY <1>9
      <4>2. s.tools[m].id \in {c, i} \/ s.tools[m].itemID \in {c, i}
        BY <3>2, <4>1
      <4>3. s.tools[m].id = c /\ s.tools[m].itemID = i
        BY <1>3, <4>2
      <4>4. m = n
        BY <1>6, <2>1, <4>3
      <4> QED
        BY <4>1, <4>3, <4>4
    <3> QED
      BY <1>1, <3>1, <3>2
  <2> HIDE DEF same, both, keysWith
  <2>9. r.s.tools = same /\ r.s.keys = s.keys
    BY <1>11, <2>2, <2>5, <2>8
  <2>10. Recorded(same, s.keys, pr)
    <3>1. \A m \in DOMAIN same : \E u \in Tools : same[m].id = CallOf(pr, u) /\ same[m].itemID = ItemOf(pr, u)
      BY <2>7 DEF Recorded
    <3>2. \A m, k \in DOMAIN same : same[m].id = same[k].id => m = k
      BY <1>6, <2>7
    <3>3. {<<same[m].id, m>> : m \in DOMAIN same} = {<<s.tools[m].id, m>> : m \in DOMAIN s.tools}
      BY <2>7
    <3>4. {<<same[m].itemID, m>> : m \in DOMAIN same} = {<<s.tools[m].itemID, m>> : m \in DOMAIN s.tools}
      BY <2>7
    <3> QED
      BY <3>1, <3>2, <3>3, <3>4 DEF Recorded
  <2>11. r.s \in Streams
    BY <2>2, <2>5, <2>7, <2>8 DEF Streams
  <2>12. r.s = [s EXCEPT !.tools = r.s.tools, !.keys = r.s.keys]
    BY <2>2, <2>5, <2>8, <2>9
  <2>13. same[n].id = c /\ same[n].itemID = i
    BY <2>1, <2>7
  <2>14. same = [s.tools EXCEPT ![n].args = @ \o e.args]
    BY DEF same
  <2> QED
    BY <1>8, <1>13, <2>1, <2>2, <2>7, <2>9, <2>10, <2>11, <2>12, <2>13, <2>14 DEF r, Records
<1> QED
  BY <1>12, <1>13

\* An event of a stream: of a tool call, or without data that matter here.
IsPlain(e) == e.kind \in Kinds /\ e.id = NoId /\ e.itemID = NoId /\ e.args = <<>>
IsEvent(e, pr) == IsPlain(e) \/ \E t \in Tools : IsToolEvent(e, pr, t)

-----------------------------------------------------------------------------
(* What is heard in a sequence.                                           *)

\* h gives a sequence over Y for each element of X.
Maps(h, X, Y) == h \in [X -> Seq(Y)]

\* What h hears in the sequence q: what it makes of its elements, in order.
Mapped(h, q) == [i \in DOMAIN q |-> h[q[i]]]
Gathered(h, q) == FlattenSeq(Mapped(h, q))

\* Two sequences, one after the other.
LEMMA JoinFacts ==
  ASSUME NEW Z, NEW a \in Seq(Z), NEW b \in Seq(Z)
  PROVE  /\ a \o b \in Seq(Z) /\ Len(a \o b) = Len(a) + Len(b) /\ Len(a) \in Nat /\ Len(b) \in Nat
         /\ \A i \in 1..(Len(a) + Len(b)) : (a \o b)[i] = IF i <= Len(a) THEN a[i] ELSE b[i - Len(a)]
OBVIOUS

\* Sequences with the same elements are the same.
LEMMA SameSequence ==
  ASSUME NEW Z, NEW a \in Seq(Z), NEW b \in Seq(Z), Len(a) = Len(b), \A i \in 1..Len(a) : a[i] = b[i]
  PROVE  a = b
OBVIOUS

\* Joining sequences is associative, and the empty one makes no difference.
LEMMA JoinAgain ==
  ASSUME NEW Z, NEW a \in Seq(Z), NEW b \in Seq(Z), NEW c \in Seq(Z)
  PROVE  /\ (a \o b) \o c = a \o (b \o c) /\ a \o <<>> = a /\ <<>> \o a = a
OBVIOUS

\* Such an h gives a sequence for each element.
LEMMA MapsTo == ASSUME NEW X, NEW Y, NEW h, Maps(h, X, Y), NEW x \in X PROVE h[x] \in Seq(Y)
BY DEF Maps

\* Mapping a sequence, and a longer one.
LEMMA MappedType ==
  ASSUME NEW X, NEW Y, NEW h, Maps(h, X, Y), NEW q \in Seq(X)
  PROVE  Mapped(h, q) \in Seq(Seq(Y)) /\ Len(Mapped(h, q)) = Len(q) /\ Gathered(h, q) \in Seq(Y)
<1>1. \A i \in 1..Len(q) : h[q[i]] \in Seq(Y)
  BY DEF Maps
<1>2. Len(q) \in Nat /\ DOMAIN q = 1..Len(q)
  OBVIOUS
<1>3. Mapped(h, q) = [i \in 1..Len(q) |-> h[q[i]]]
  BY <1>2 DEF Mapped
<1>4. Mapped(h, q) \in Seq(Seq(Y)) /\ Len(Mapped(h, q)) = Len(q)
  BY <1>1, <1>2, <1>3
<1> QED
  BY <1>4, FlatType DEF Gathered

\* What becomes of a sequence with one more element.
LEMMA MappedAppend ==
  ASSUME NEW X, NEW Y, NEW h, Maps(h, X, Y), NEW q \in Seq(X), NEW x \in X
  PROVE  Mapped(h, Append(q, x)) = Append(Mapped(h, q), h[x])
<1> DEFINE more == Append(q, x)
           a == Mapped(h, more)
           b == Append(Mapped(h, q), h[x])
<1>1. more \in Seq(X) /\ Len(more) = Len(q) + 1 /\ Len(q) \in Nat
  OBVIOUS
<1>2. \A i \in 1..Len(q) : more[i] = q[i]
  OBVIOUS
<1>3. more[Len(q) + 1] = x
  OBVIOUS
<1>4. DOMAIN a = 1..(Len(q) + 1)
  BY <1>1 DEF Mapped
<1>5. Mapped(h, q) \in Seq(Seq(Y)) /\ Len(Mapped(h, q)) = Len(q) /\ h[x] \in Seq(Y)
  BY MappedType, MapsTo
<1>6. a \in Seq(Seq(Y)) /\ b \in Seq(Seq(Y)) /\ Len(a) = Len(q) + 1 /\ Len(b) = Len(q) + 1
  <2> HIDE DEF more
  <2>1. a \in Seq(Seq(Y)) /\ Len(a) = Len(more)
    BY <1>1, MappedType
  <2> QED
    BY <1>1, <1>5, <2>1
<1>7. \A i \in 1..(Len(q) + 1) : a[i] = h[more[i]]
  BY <1>1 DEF Mapped
<1>8. \A i \in 1..Len(q) : b[i] = h[q[i]]
  BY <1>5 DEF Mapped
<1>9. b[Len(q) + 1] = h[x]
  BY <1>5
<1> HIDE DEF a, b, more
<1>10. \A i \in 1..(Len(q) + 1) : a[i] = b[i]
  BY <1>1, <1>2, <1>3, <1>7, <1>8, <1>9
<1>11. a = b
  BY <1>6, <1>10, SameSequence
<1> QED
  BY <1>11 DEF a, b, more

\* What becomes of two sequences one after the other.
LEMMA MappedJoin ==
  ASSUME NEW X, NEW Y, NEW h, Maps(h, X, Y), NEW q \in Seq(X), NEW r \in Seq(X)
  PROVE  Mapped(h, q \o r) = Mapped(h, q) \o Mapped(h, r)
<1> DEFINE both == q \o r
           a == Mapped(h, both)
           b == Mapped(h, q) \o Mapped(h, r)
<1>1. /\ both \in Seq(X) /\ Len(both) = Len(q) + Len(r) /\ Len(q) \in Nat /\ Len(r) \in Nat
      /\ \A i \in 1..Len(both) : both[i] = IF i <= Len(q) THEN q[i] ELSE r[i - Len(q)]
  OBVIOUS
<1>2. Mapped(h, q) \in Seq(Seq(Y)) /\ Len(Mapped(h, q)) = Len(q) /\ Mapped(h, r) \in Seq(Seq(Y)) /\ Len(Mapped(h, r)) = Len(r)
  BY MappedType
<1>4. b \in Seq(Seq(Y)) /\ Len(b) = Len(Mapped(h, q)) + Len(Mapped(h, r))
  BY <1>2, JoinFacts
<1>5. \A i \in 1..(Len(Mapped(h, q)) + Len(Mapped(h, r))) :
        b[i] = IF i <= Len(Mapped(h, q)) THEN Mapped(h, q)[i] ELSE Mapped(h, r)[i - Len(Mapped(h, q))]
  BY <1>2, JoinFacts
<1>6. \A i \in 1..Len(both) : a[i] = h[both[i]]
  BY <1>1 DEF Mapped
<1>7. (\A i \in 1..Len(q) : Mapped(h, q)[i] = h[q[i]]) /\ (\A i \in 1..Len(r) : Mapped(h, r)[i] = h[r[i]])
  BY DEF Mapped
<1> HIDE DEF both
<1>3. a \in Seq(Seq(Y)) /\ Len(a) = Len(both)
  BY <1>1, MappedType
<1> HIDE DEF a, b
<1>8. ASSUME NEW i \in 1..Len(both) PROVE a[i] = b[i]
  <2>1. CASE i <= Len(q)
    <3>1. i \in 1..Len(q)
      BY <1>1, <2>1
    <3>2. b[i] = h[q[i]]
      BY <1>1, <1>2, <1>5, <1>7, <2>1, <3>1
    <3>3. both[i] = q[i]
      BY <1>1, <2>1
    <3> QED
      BY <1>6, <3>2, <3>3
  <2>2. CASE ~(i <= Len(q))
    <3>1. i - Len(q) \in 1..Len(r)
      BY <1>1, <2>2
    <3>2. b[i] = h[r[i - Len(q)]]
      BY <1>1, <1>2, <1>5, <1>7, <2>2, <3>1
    <3>3. both[i] = r[i - Len(q)]
      BY <1>1, <2>2
    <3> QED
      BY <1>6, <3>2, <3>3
  <2> QED
    BY <2>1, <2>2
<1>9. a = b
  <2>1. Len(a) = Len(b)
    BY <1>1, <1>2, <1>3, <1>4
  <2> QED
    BY <1>3, <1>4, <1>8, <2>1, SameSequence
<1> QED
  BY <1>9 DEF a, b, both

\* Nothing is heard in nothing, one more element is heard last, and two parts are heard one after the other.
LEMMA GatherAppend ==
  ASSUME NEW X, NEW Y, NEW h, Maps(h, X, Y), NEW q \in Seq(X), NEW x \in X
  PROVE  Gathered(h, Append(q, x)) = Gathered(h, q) \o h[x]
<1>1. Mapped(h, q) \in Seq(Seq(Y)) /\ h[x] \in Seq(Y)
  BY MappedType, MapsTo
<1>2. FlattenSeq(Append(Mapped(h, q), h[x])) = FlattenSeq(Mapped(h, q)) \o h[x]
  BY <1>1, FlatStep
<1>3. Gathered(h, Append(q, x)) = FlattenSeq(Append(Mapped(h, q), h[x]))
  <2>1. Mapped(h, Append(q, x)) = Append(Mapped(h, q), h[x])
    BY MappedAppend
  <2> QED
    BY <2>1 DEF Gathered
<1> QED
  BY <1>2, <1>3 DEF Gathered

\* In the empty sequence nothing is heard.
LEMMA GatherNothing == \A h : Gathered(h, <<>>) = <<>>
<1> TAKE h
<1>1. [i \in DOMAIN <<>> |-> h[<<>>[i]]] = <<>>
  OBVIOUS
<1> QED
  BY <1>1, FlatEmpty DEF Gathered, Mapped

\* What is heard in two sequences is heard in the one and then in the other.
LEMMA GatherJoin ==
  ASSUME NEW X, NEW Y, NEW h, Maps(h, X, Y), NEW q \in Seq(X), NEW r \in Seq(X)
  PROVE  Gathered(h, q \o r) = Gathered(h, q) \o Gathered(h, r)
<1>1. Mapped(h, q) \in Seq(Seq(Y)) /\ Mapped(h, r) \in Seq(Seq(Y))
  BY MappedType
<1>2. FlattenSeq(Mapped(h, q) \o Mapped(h, r)) = FlattenSeq(Mapped(h, q)) \o FlattenSeq(Mapped(h, r))
  BY <1>1, FlatJoin
<1>3. Mapped(h, q \o r) = Mapped(h, q) \o Mapped(h, r)
  BY MappedJoin
<1> QED
  BY <1>2, <1>3 DEF Gathered

\* A single element, and the first one of several.
LEMMA GatherOne ==
  ASSUME NEW X, NEW Y, NEW h, Maps(h, X, Y), NEW x \in X
  PROVE  Gathered(h, <<x>>) = h[x]
<1>1. <<>> \in Seq(X) /\ Append(<<>>, x) = <<x>> /\ h[x] \in Seq(Y)
  BY MapsTo
<1>2. Gathered(h, <<x>>) = Gathered(h, <<>>) \o h[x]
  BY <1>1, GatherAppend
<1>3. <<>> \o h[x] = h[x]
  BY <1>1
<1> QED
  BY <1>2, <1>3, GatherNothing

\* What is heard in a sequence is heard in its head and then in its tail.
LEMMA GatherTail ==
  ASSUME NEW X, NEW Y, NEW h, Maps(h, X, Y), NEW q \in Seq(X), q # <<>>
  PROVE  Gathered(h, q) = h[Head(q)] \o Gathered(h, Tail(q))
<1>1. Head(q) \in X /\ Tail(q) \in Seq(X) /\ <<Head(q)>> \in Seq(X) /\ q = <<Head(q)>> \o Tail(q)
  OBVIOUS
<1> DEFINE first == <<Head(q)>>
           rest == Tail(q)
<1>2. first \in Seq(X) /\ rest \in Seq(X) /\ q = first \o rest
  BY <1>1
<1>3. Gathered(h, first) = h[Head(q)]
  BY <1>1, GatherOne
<1> HIDE DEF first, rest
<1>4. Gathered(h, first \o rest) = Gathered(h, first) \o Gathered(h, rest)
  BY <1>2, GatherJoin
<1>5. Gathered(h, q) = h[Head(q)] \o Gathered(h, rest)
  BY <1>2, <1>3, <1>4
<1> QED
  BY <1>5 DEF rest

\* Elements that say nothing are not heard.
LEMMA GatherSilence ==
  ASSUME NEW X, NEW Y, NEW h, Maps(h, X, Y), NEW q \in Seq(X), \A i \in DOMAIN q : h[q[i]] = <<>>
  PROVE  Gathered(h, q) = <<>>
<1> DEFINE part(k) == SubSeq(q, 1, k)
           S == {k \in Nat : k <= Len(q) => Gathered(h, part(k)) = <<>>}
<1>1. Len(q) \in Nat
  OBVIOUS
<1>2. 0 \in S
  <2>1. part(0) = <<>>
    OBVIOUS
  <2> QED
    BY <2>1, GatherNothing
<1>3. ASSUME NEW k \in 0..(Len(q) - 1), k \in S PROVE k + 1 \in S
  <2>1. k \in Nat /\ k <= Len(q) /\ k + 1 \in DOMAIN q
    BY <1>1
  <2>2. part(k) \in Seq(X) /\ part(k + 1) = Append(part(k), q[k + 1]) /\ q[k + 1] \in X
    BY <2>1
  <2> HIDE DEF part
  <2>3. Gathered(h, part(k + 1)) = Gathered(h, part(k)) \o h[q[k + 1]]
    <3>1. ASSUME NEW p \in Seq(X), NEW x \in X PROVE Gathered(h, Append(p, x)) = Gathered(h, p) \o h[x]
      BY GatherAppend
    <3> QED
      BY <2>2, <3>1
  <2>4. Gathered(h, part(k)) = <<>> /\ h[q[k + 1]] = <<>>
    BY <1>3, <2>1
  <2>5. Gathered(h, part(k + 1)) = <<>>
    BY <2>3, <2>4
  <2> QED
    BY <2>1, <2>5
<1>4. part(Len(q)) = q
  OBVIOUS
<1> HIDE DEF S, part
<1>5. Len(q) \in S
  BY <1>1, <1>2, <1>3, Induction
<1> QED
  BY <1>1, <1>4, <1>5 DEF S

\* Only one element is heard.
LEMMA GatherSolo ==
  ASSUME NEW X, NEW Y, NEW h, Maps(h, X, Y), NEW q \in Seq(X), NEW n \in DOMAIN q,
         \A i \in DOMAIN q : i # n => h[q[i]] = <<>>
  PROVE  Gathered(h, q) = h[q[n]]
<1> DEFINE before == SubSeq(q, 1, n - 1)
           after == SubSeq(q, n + 1, Len(q))
<1>1. /\ before \in Seq(X) /\ after \in Seq(X) /\ q[n] \in X /\ n \in Nat /\ Len(q) \in Nat
      /\ Len(before) = n - 1 /\ Len(after) = Len(q) - n
      /\ \A i \in 1..(n - 1) : before[i] = q[i]
      /\ \A i \in 1..(Len(q) - n) : after[i] = q[n + i]
  OBVIOUS
<1>2. q = Append(before, q[n]) \o after
  <2> DEFINE left == Append(before, q[n])
  <2>1. left \in Seq(X) /\ Len(left) = n
    BY <1>1
  <2>2. \A i \in 1..n : left[i] = q[i]
    BY <1>1
  <2> HIDE DEF left, before, after
  <2>3. left \o after \in Seq(X) /\ Len(left \o after) = Len(q)
    BY <1>1, <2>1
  <2>4. ASSUME NEW i \in 1..Len(q) PROVE q[i] = (left \o after)[i]
    <3>1. (left \o after)[i] = IF i <= n THEN left[i] ELSE after[i - n]
      <4>1. i \in 1..(Len(left) + Len(after))
        BY <1>1, <2>1
      <4>2. (left \o after)[i] = IF i <= Len(left) THEN left[i] ELSE after[i - Len(left)]
        BY <1>1, <2>1, <4>1, JoinFacts
      <4> QED
        BY <2>1, <4>2
    <3>2. CASE i <= n
      <4>1. i \in 1..n
        BY <1>1, <3>2
      <4> QED
        BY <2>2, <3>1, <3>2, <4>1
    <3>3. CASE ~(i <= n)
      <4>1. i - n \in 1..(Len(q) - n) /\ n + (i - n) = i
        BY <1>1, <3>3
      <4> QED
        BY <1>1, <3>1, <3>3, <4>1
    <3> QED
      BY <3>2, <3>3
  <2>5. q = left \o after
    BY <2>3, <2>4, SameSequence
  <2> QED
    BY <2>5 DEF left
<1>3. DOMAIN before = 1..(n - 1) /\ DOMAIN after = 1..(Len(q) - n) /\ DOMAIN q = 1..Len(q)
  BY <1>1
<1> DEFINE x == q[n]
<1>4. x \in X /\ h[x] \in Seq(Y)
  BY <1>1, MapsTo
<1> HIDE DEF before, after
<1>5. \A i \in DOMAIN before : h[before[i]] = <<>>
  BY <1>1, <1>3
<1>6. \A i \in DOMAIN after : h[after[i]] = <<>>
  <2> SUFFICES ASSUME NEW i \in DOMAIN after PROVE h[after[i]] = <<>>
    OBVIOUS
  <2>1. n + i \in DOMAIN q /\ n + i # n /\ after[i] = q[n + i]
    BY <1>1, <1>3
  <2> QED
    BY <2>1
<1>7. before \in Seq(X) /\ after \in Seq(X)
  BY <1>1
<1> HIDE DEF x
<1>8. Gathered(h, before) = <<>> /\ Gathered(h, after) = <<>>
  <2>1. ASSUME NEW p \in Seq(X), \A i \in DOMAIN p : h[p[i]] = <<>> PROVE Gathered(h, p) = <<>>
    BY <2>1, GatherSilence
  <2> QED
    BY <1>5, <1>6, <1>7, <2>1
<1>9. Gathered(h, Append(before, x)) = Gathered(h, before) \o h[x]
  BY <1>4, <1>7, GatherAppend
<1>10. Append(before, x) \in Seq(X)
  BY <1>4, <1>7
<1>11. Gathered(h, Append(before, x) \o after) = Gathered(h, Append(before, x)) \o Gathered(h, after)
  <2>1. ASSUME NEW a \in Seq(X), NEW b \in Seq(X) PROVE Gathered(h, a \o b) = Gathered(h, a) \o Gathered(h, b)
    BY GatherJoin
  <2> QED
    BY <1>7, <1>10, <2>1
<1>12. (<<>> \o h[x]) \o <<>> = h[x]
  BY <1>4
<1>13. Gathered(h, Append(before, x) \o after) = h[x]
  BY <1>8, <1>9, <1>11, <1>12
<1> QED
  BY <1>2, <1>13 DEF x

\* Whatever is joined, h hears it part by part.
HearsParts(h, X) == \A q, r \in Seq(X) : Gathered(h, q \o r) = Gathered(h, q) \o Gathered(h, r)
\* It is so for any h that gives sequences.
LEMMA PartsHeard == ASSUME NEW X, NEW Y, NEW h, Maps(h, X, Y) PROVE HearsParts(h, X)
BY GatherJoin DEF HearsParts

\* What is heard in flattened sequences, of which each is heard like an element of another sequence.
LEMMA GatherFlat ==
  ASSUME NEW X, NEW Y, NEW h, Maps(h, X, Y), NEW seqs \in Seq(Seq(X)), NEW q \in Seq(X), Len(q) = Len(seqs),
         \A i \in DOMAIN q : Gathered(h, seqs[i]) = h[q[i]]
  PROVE  Gathered(h, FlattenSeq(seqs)) = Gathered(h, q)
<1> DEFINE part(k) == SubSeq(q, 1, k)
           flat(k) == SubSeq(seqs, 1, k)
           S == {k \in Nat : k <= Len(q) => Gathered(h, FlattenSeq(flat(k))) = Gathered(h, part(k))}
<1>1. Len(q) \in Nat
  OBVIOUS
<1>2. 0 \in S
  <2>1. part(0) = <<>> /\ flat(0) = <<>>
    OBVIOUS
  <2> QED
    BY <2>1, FlatEmpty, GatherNothing
<1>3. ASSUME NEW k \in 0..(Len(q) - 1), k \in S PROVE k + 1 \in S
  <2>1. k \in Nat /\ k <= Len(q) /\ k + 1 \in DOMAIN q /\ k + 1 \in DOMAIN seqs
    BY <1>1
  <2>2. part(k) \in Seq(X) /\ part(k + 1) = Append(part(k), q[k + 1]) /\ q[k + 1] \in X
    BY <2>1
  <2>3. flat(k) \in Seq(Seq(X)) /\ flat(k + 1) = Append(flat(k), seqs[k + 1]) /\ seqs[k + 1] \in Seq(X)
    BY <2>1
  <2> HIDE DEF part, flat
  <2>4. Gathered(h, part(k + 1)) = Gathered(h, part(k)) \o h[q[k + 1]]
    <3>1. ASSUME NEW p \in Seq(X), NEW x \in X PROVE Gathered(h, Append(p, x)) = Gathered(h, p) \o h[x]
      BY GatherAppend
    <3> QED
      BY <2>2, <3>1
  <2>5. FlattenSeq(flat(k + 1)) = FlattenSeq(flat(k)) \o seqs[k + 1] /\ FlattenSeq(flat(k)) \in Seq(X)
    BY <2>3, FlatStep, FlatType
  <2>6. Gathered(h, FlattenSeq(flat(k)) \o seqs[k + 1]) = Gathered(h, FlattenSeq(flat(k))) \o Gathered(h, seqs[k + 1])
    <3>1. HearsParts(h, X)
      BY PartsHeard
    <3> HIDE DEF S
    <3> QED
      BY <2>3, <2>5, <3>1 DEF HearsParts
  <2>7. Gathered(h, FlattenSeq(flat(k))) = Gathered(h, part(k)) /\ Gathered(h, seqs[k + 1]) = h[q[k + 1]]
    BY <1>3, <2>1
  <2>8. Gathered(h, FlattenSeq(flat(k + 1))) = Gathered(h, part(k + 1))
    BY <2>4, <2>5, <2>6, <2>7
  <2> QED
    BY <2>1, <2>8
<1>4. part(Len(q)) = q /\ flat(Len(q)) = seqs
  OBVIOUS
<1> HIDE DEF S, part, flat
<1>5. Len(q) \in S
  BY <1>1, <1>2, <1>3, Induction
<1> QED
  BY <1>1, <1>4, <1>5 DEF S

-----------------------------------------------------------------------------
(* The parser.                                                             *)

KeyKinds == {"item", "call", "output", "other"}
ParserKeys == {Id(k, t) : k \in KeyKinds, t \in Tools}
ParserTools == [id : Idents, itemID : Idents, announced : BOOLEAN, argumentsSeen : BOOLEAN]
Parsers == [tools : Seq(ParserTools), keys : SUBSET (ParserKeys \X Nat), images : SUBSET (Nat \X Nat), done : BOOLEAN]
Identifies(pr) == /\ pr.item \cup pr.args \subseteq {"item", "call", "output"}
                  /\ pr.item \cap {"item", "call"} # {} /\ pr.item \cap pr.args # {}

\* A key of a tool leads to it.
KeysLead(tools, keys, pr) ==
  \A b \in keys : b[2] \in DOMAIN tools /\ tools[b[2]].id = CallOf(pr, b[1][2])

\* Tool call t is known by every identifier its item had.
KnownBy(keys, pr, t) == \A k \in pr.item : \E b \in keys : b[1] = Id(k, t)

(* What the parser knows, where pg is how far the upstream has come with each tool call: one tool
   for each call that has begun, which is announced, and whose arguments it has passed on if it has
   seen any. *)
Knows(p, pr, pg) ==
  /\ p \in Parsers /\ pg \in [Tools -> Int]
  /\ \A n \in DOMAIN p.tools : \E t \in Tools :
       /\ p.tools[n].id = CallOf(pr, t) /\ p.tools[n].itemID = ItemOf(pr, t)
       /\ pg[t] >= 0 /\ p.tools[n].announced /\ (p.tools[n].argumentsSeen <=> pg[t] >= 1)
  /\ \A n, m \in DOMAIN p.tools : p.tools[n].id = p.tools[m].id => n = m
  /\ KeysLead(p.tools, p.keys, pr)
  /\ \A t \in Tools : pg[t] >= 0 => KnownBy(p.keys, pr, t)

\* The keys of the parser: a kind and the tool call they belong to.
LEMMA KeyFacts ==
  /\ \A b \in ParserKeys : b # NoId /\ b[2] \in Tools
  /\ \A k, j, t, u : Id(k, t) = Id(j, u) <=> k = j /\ t = u
  /\ \A k, t : Id(k, t)[2] = t
  /\ \A k \in KeyKinds, t \in Tools : Id(k, t) \in ParserKeys
<1>1. \A k, j, t, u : Id(k, t) = Id(j, u) <=> k = j /\ t = u
  BY Zenon DEF Id
<1>2. \A k, t : Id(k, t)[2] = t
  BY DEF Id
<1>4. "" \notin KeyKinds
  BY DEF KeyKinds
<1>5. \A k \in KeyKinds, t \in Tools : Id(k, t) \in ParserKeys
  BY DEF ParserKeys
<1>6. ASSUME NEW b \in ParserKeys PROVE b # NoId /\ b[2] \in Tools
  <2>1. PICK k \in KeyKinds, t \in Tools : b = Id(k, t)
    BY DEF ParserKeys
  <2>2. b # NoId
    <3>1. k # ""
      BY <1>4
    <3>2. Id(k, t)[1] = k
      BY DEF Id
    <3>3. NoId[1] = ""
      BY DEF NoId
    <3> QED
      BY <2>1, <3>1, <3>2, <3>3, Zenon
  <2> QED
    BY <1>2, <2>1, <2>2
<1> QED
  BY <1>1, <1>2, <1>5, <1>6

\* The identifiers of a message, and the tool they lead to.
LEMMA KeysOf ==
  ASSUME NEW m, m.tool \in Tools, m.has \subseteq {"item", "call", "output"}
  PROVE  /\ DOMAIN ToolKeys(m) = 1..3
         /\ \A i \in 1..3 : ToolKeys(m)[i] # NoId =>
              ToolKeys(m)[i] \in ParserKeys /\ ToolKeys(m)[i][2] = m.tool
         /\ \A k \in m.has : \E i \in 1..3 : ToolKeys(m)[i] = Id(k, m.tool)
         /\ Range(ToolKeys(m)) \ {NoId} = {Id(k, m.tool) : k \in m.has}
<1> DEFINE a == Field(m, "item")
           b == Field(m, "call")
           c == Field(m, "output")
           keys == ToolKeys(m)
           mine(k) == k \in m.has
<1>1. keys = <<a, b, c>>
  BY DEF ToolKeys
<1>2. /\ a = IF mine("item") THEN Id("item", m.tool) ELSE NoId
      /\ b = IF mine("call") THEN Id("call", m.tool) ELSE NoId
      /\ c = IF mine("output") THEN Id("output", m.tool) ELSE NoId
  BY Zenon DEF Field
<1>3. \A k \in {"item", "call", "output"} :
         Id(k, m.tool) \in ParserKeys /\ Id(k, m.tool) # NoId /\ Id(k, m.tool)[2] = m.tool
  BY KeyFacts DEF KeyKinds
<1> HIDE DEF a, b, c, keys
<1>4. DOMAIN keys = 1..3 /\ keys[1] = a /\ keys[2] = b /\ keys[3] = c
  BY <1>1
<1>5. \A i \in 1..3 : i = 1 \/ i = 2 \/ i = 3
  OBVIOUS
<1>6. \A x \in {a, b, c} : x # NoId => x \in ParserKeys /\ x[2] = m.tool
  BY <1>2, <1>3
<1>7. \A k \in m.has : Id(k, m.tool) \in {a, b, c}
  BY <1>2
<1>8. \A x \in {a, b, c} : x # NoId => \E k \in m.has : x = Id(k, m.tool)
  BY <1>2
<1>9. Range(keys) = {a, b, c}
  BY <1>4, <1>5 DEF Range
<1>10. {a, b, c} \ {NoId} = {Id(k, m.tool) : k \in m.has}
  BY <1>3, <1>7, <1>8
<1>11. \A i \in 1..3 : keys[i] \in {a, b, c}
  BY <1>4, <1>5
<1>12. \A x \in {a, b, c} : \E i \in 1..3 : keys[i] = x
  BY <1>4
<1> QED
  BY <1>4, <1>6, <1>7, <1>9, <1>10, <1>11, <1>12 DEF keys

\* A set of places that is not empty has a first one.
LEMMA MinOf ==
  ASSUME NEW S \in SUBSET (1..3), S # {}
  PROVE  Min(S) \in S
<1>1. \E x \in S : \A y \in S : x <= y
  <2>0. \A y \in S : y = 1 \/ y = 2 \/ y = 3
    OBVIOUS
  <2>1. CASE 1 \in S
    <3>1. \A y \in S : 1 <= y
      BY <2>0
    <3> QED
      BY <2>1, <3>1
  <2>2. CASE 1 \notin S /\ 2 \in S
    <3>1. \A y \in S : 2 <= y
      BY <2>0, <2>2
    <3> QED
      BY <2>2, <3>1
  <2>3. CASE 1 \notin S /\ 2 \notin S
    <3>1. \A y \in S : 3 <= y
      BY <2>0, <2>3
    <3>2. 3 \in S
      BY <2>0, <2>3
    <3> QED
      BY <3>1, <3>2
  <2> QED
    BY <2>1, <2>2, <2>3
<1> QED
  BY <1>1 DEF Min

\* The tool of a call that has begun is found, and no other one is.
LEMMA BoundTool ==
  ASSUME NEW p, NEW pr, NEW pg, Knows(p, pr, pg), NEW m, m.tool \in Tools,
         m.has \subseteq {"item", "call", "output"}
  PROVE  /\ pg[m.tool] < 0 => Bound(p, ToolKeys(m)) = 0
         /\ pg[m.tool] >= 0 /\ m.has \cap pr.item # {} =>
              /\ Bound(p, ToolKeys(m)) \in DOMAIN p.tools
              /\ p.tools[Bound(p, ToolKeys(m))].id = CallOf(pr, m.tool)
<1> DEFINE keys == ToolKeys(m)
           known == {i \in DOMAIN keys : \E b \in p.keys : b[1] = keys[i]}
           t == m.tool
<1>1. /\ p.keys \subseteq ParserKeys \X Nat
      /\ \A b \in p.keys : b[1] \in ParserKeys
      /\ \A b \in p.keys : b[2] \in DOMAIN p.tools /\ p.tools[b[2]].id = CallOf(pr, b[1][2])
  BY DEF Knows, Parsers, KeysLead
<1>2. /\ DOMAIN keys = 1..3
      /\ \A i \in 1..3 : keys[i] # NoId => keys[i][2] = t
      /\ \A k \in m.has : \E i \in 1..3 : keys[i] = Id(k, t)
  BY KeysOf
<1>3. Bound(p, keys) = IF known = {} THEN 0 ELSE (CHOOSE b \in p.keys : b[1] = keys[Min(known)])[2]
  BY DEF Bound
<1> HIDE DEF keys
<1>4. ASSUME NEW b \in p.keys, NEW i \in DOMAIN keys, b[1] = keys[i]
      PROVE  b[2] \in DOMAIN p.tools /\ p.tools[b[2]].id = CallOf(pr, t)
  <2>1. b[1] # NoId
    BY <1>1, KeyFacts
  <2>2. b[1][2] = t
    BY <1>2, <1>4, <2>1
  <2> QED
    BY <1>1, <2>2
<1>5. ASSUME pg[t] < 0 PROVE Bound(p, keys) = 0
  <2>1. known = {}
    <3> SUFFICES ASSUME NEW b \in p.keys, NEW i \in DOMAIN keys, b[1] = keys[i] PROVE FALSE
      OBVIOUS
    <3>1. b[2] \in DOMAIN p.tools /\ p.tools[b[2]].id = CallOf(pr, t)
      BY <1>4
    <3>2. PICK u \in Tools : p.tools[b[2]].id = CallOf(pr, u) /\ pg[u] >= 0
      BY <3>1 DEF Knows
    <3>3. u = t
      BY <3>1, <3>2, Names
    <3>4. pg[t] >= 0
      BY <3>2, <3>3
    <3>5. pg[t] \in Int
      BY DEF Knows
    <3> QED
      BY <1>5, <3>4, <3>5
  <2> QED
    BY <1>3, <2>1
<1>6. ASSUME pg[t] >= 0, m.has \cap pr.item # {}
      PROVE  Bound(p, keys) \in DOMAIN p.tools /\ p.tools[Bound(p, keys)].id = CallOf(pr, t)
  <2>1. PICK k \in m.has \cap pr.item : TRUE
    BY <1>6
  <2>2. PICK b \in p.keys : b[1] = Id(k, t)
    BY <1>6, <2>1 DEF Knows, KnownBy
  <2>3. PICK i \in 1..3 : keys[i] = Id(k, t)
    BY <1>2, <2>1
  <2>4. i \in known
    BY <1>2, <2>2, <2>3
  <2>5. known \in SUBSET (1..3) /\ known # {}
    BY <1>2, <2>4
  <2>6. Min(known) \in known
    BY <2>5, MinOf
  <2> DEFINE j == Min(known)
             c == CHOOSE a \in p.keys : a[1] = keys[j]
  <2>7. j \in DOMAIN keys /\ \E a \in p.keys : a[1] = keys[j]
    BY <2>6
  <2> HIDE DEF j
  <2>8. c \in p.keys /\ c[1] = keys[j]
    BY <2>7
  <2>9. Bound(p, keys) = c[2]
    BY <1>3, <2>5 DEF j
  <2> HIDE DEF c
  <2> QED
    BY <1>4, <2>7, <2>8, <2>9
<1> QED
  BY <1>5, <1>6 DEF keys

\* A message about tool call t.
AboutTool(m, pr, t) == m.tool = t /\ m.has = IF m.item THEN pr.item ELSE pr.args

\* The key made of a call is one of its own keys.
LEMMA CallKeyOf ==
  ASSUME NEW pr, NEW t \in Tools
  PROVE  CallKey(CallOf(pr, t)) \in ParserKeys /\ CallKey(CallOf(pr, t))[2] = t
<1>1. Id("call", t) \in ParserKeys /\ Id("other", t) \in ParserKeys
  BY KeyFacts DEF KeyKinds
<1>2. Id("call", t)[2] = t /\ Id("other", t)[2] = t /\ CallOf(pr, t)[2] = t
  BY KeyFacts DEF CallOf
<1>3. CallKey(CallOf(pr, t)) \in {CallOf(pr, t), Id("other", t)}
  BY <1>2 DEF CallKey
<1>4. CallOf(pr, t) = Id("call", t) \/ CallKey(CallOf(pr, t)) = Id("other", t)
  <2>1. CASE "call" \in pr.item
    BY <2>1 DEF CallOf
  <2>2. CASE "call" \notin pr.item
    <3>1. CallOf(pr, t) = Id("item", t)
      BY <2>2 DEF CallOf
    <3>2. Id("item", t)[1] # "call"
      BY DEF Id
    <3> QED
      BY <1>2, <3>1, <3>2, Zenon DEF CallKey
  <2> QED
    BY <2>1, <2>2
<1> QED
  BY <1>1, <1>2, <1>3, <1>4

\* Binding the identifiers of a message to its own tool leaves every key leading to its tool.
LEMMA Binding ==
  ASSUME NEW p \in Parsers, NEW pr, KeysLead(p.tools, p.keys, pr), NEW t \in Tools,
         NEW n \in DOMAIN p.tools, p.tools[n].id = CallOf(pr, t),
         NEW m, m.tool = t, m.has \subseteq {"item", "call", "output"}
  PROVE  LET q == BindToolKeys(p, n, ToolKeys(m))
         IN  /\ q \in Parsers /\ q.tools = p.tools /\ q.done = p.done
             /\ KeysLead(q.tools, q.keys, pr)
             /\ \A u \in Tools : KnownBy(p.keys, pr, u) => KnownBy(q.keys, pr, u)
             /\ m.has = pr.item => KnownBy(q.keys, pr, t)
<1> DEFINE keys == ToolKeys(m)
           own == {Id(k, t) : k \in m.has}
           mine == (Range(keys) \ {NoId}) \cup {CallKey(p.tools[n].id)}
           after == {b \in p.keys : b[1] \notin mine} \cup {<<key, n>> : key \in mine}
           q == BindToolKeys(p, n, keys)
<1>0. /\ p.keys \in SUBSET (ParserKeys \X Nat) /\ p.tools \in Seq(ParserTools)
      /\ p.images \in SUBSET (Nat \X Nat) /\ p.done \in BOOLEAN
      /\ p = [tools |-> p.tools, keys |-> p.keys, images |-> p.images, done |-> p.done]
  BY DEF Parsers
<1>1. Range(keys) \ {NoId} = own
  BY KeysOf
<1>2. \A k \in m.has : Id(k, t) \in ParserKeys /\ Id(k, t)[2] = t
  BY KeyFacts DEF KeyKinds
<1>3. CallKey(p.tools[n].id) \in ParserKeys /\ CallKey(p.tools[n].id)[2] = t
  BY CallKeyOf
<1>4. q = [p EXCEPT !.keys = after]
  BY DEF BindToolKeys
<1>5. \A k \in m.has : Id(k, t) \in mine
  BY <1>1
<1>6. \A key \in mine : key \in ParserKeys /\ key[2] = t
  BY <1>1, <1>2, <1>3
<1>7. n \in Nat
  BY <1>0
<1> HIDE DEF mine, keys
<1>8. /\ \A key \in mine : <<key, n>> \in after
      /\ \A b \in p.keys : b[1] \in mine \/ b \in after
      /\ \A b \in after : b \in p.keys \/ \E key \in mine : b = <<key, n>>
  OBVIOUS
<1>9. after \in SUBSET (ParserKeys \X Nat)
  BY <1>0, <1>6, <1>7
<1>10. \A b \in after : b[2] \in DOMAIN p.tools /\ p.tools[b[2]].id = CallOf(pr, b[1][2])
  <2> SUFFICES ASSUME NEW b \in after PROVE b[2] \in DOMAIN p.tools /\ p.tools[b[2]].id = CallOf(pr, b[1][2])
    OBVIOUS
  <2>1. CASE b \in p.keys
    BY <2>1 DEF KeysLead
  <2>2. CASE \E key \in mine : b = <<key, n>>
    <3>1. b[2] = n /\ b[1][2] = t
      BY <1>6, <2>2
    <3> QED
      BY <3>1
  <2> QED
    BY <1>8, <2>1, <2>2
<1>11. ASSUME NEW u \in Tools, KnownBy(p.keys, pr, u) PROVE KnownBy(after, pr, u)
  <2> SUFFICES ASSUME NEW k \in pr.item PROVE \E b \in after : b[1] = Id(k, u)
    BY DEF KnownBy
  <2>1. PICK b \in p.keys : b[1] = Id(k, u)
    BY <1>11 DEF KnownBy
  <2>2. CASE b[1] \in mine
    <3>1. <<b[1], n>> \in after /\ <<b[1], n>>[1] = Id(k, u)
      BY <1>8, <2>1, <2>2
    <3> QED
      BY <3>1
  <2>3. CASE b \in after
    BY <2>1, <2>3
  <2> QED
    BY <1>8, <2>2, <2>3
<1>12. ASSUME m.has = pr.item PROVE KnownBy(after, pr, t)
  <2> SUFFICES ASSUME NEW k \in pr.item PROVE \E b \in after : b[1] = Id(k, t)
    BY DEF KnownBy
  <2>1. <<Id(k, t), n>> \in after
    BY <1>5, <1>8, <1>12
  <2>2. <<Id(k, t), n>>[1] = Id(k, t)
    OBVIOUS
  <2> QED
    BY <2>1, <2>2
<1> HIDE DEF after, q
<1>13. q.tools = p.tools /\ q.done = p.done /\ q.keys = after /\ q \in Parsers
  BY <1>0, <1>4, <1>9 DEF Parsers
<1>14. KeysLead(q.tools, q.keys, pr)
  BY <1>10, <1>13 DEF KeysLead
<1> QED
  BY <1>11, <1>12, <1>13, <1>14 DEF q, keys

(* The tool a message is about, and the state s.p that knows it by all identifiers of the message:
   a new one if the call had not begun, and no new one if it had. *)
FoundTool(s, p, pr, pg, t, item) ==
  /\ s.p \in Parsers /\ s.p.done = p.done
  /\ s.n \in DOMAIN s.p.tools
  /\ s.p.tools[s.n].id = CallOf(pr, t) /\ s.p.tools[s.n].itemID = ItemOf(pr, t)
  /\ pg[t] < 0 => /\ s.n = Len(p.tools) + 1
                  /\ s.p.tools = Append(p.tools, [id |-> CallOf(pr, t), itemID |-> ItemOf(pr, t),
                                                  announced |-> FALSE, argumentsSeen |-> FALSE])
  /\ pg[t] >= 0 => s.p.tools = p.tools
  /\ KeysLead(s.p.tools, s.p.keys, pr)
  /\ \A u \in Tools : pg[u] >= 0 \/ (item /\ u = t) => KnownBy(s.p.keys, pr, u)

\* The names an item gives its tool.
LEMMA ItemNames ==
  ASSUME NEW pr, Identifies(pr), NEW t \in Tools, NEW m, m.tool = t, m.has = pr.item
  PROVE  /\ FirstOf(Field(m, "call"), Field(m, "item")) = CallOf(pr, t)
         /\ CallOf(pr, t) # NoId
         /\ Field(m, "item") # NoId => Field(m, "item") = ItemOf(pr, t)
         /\ Field(m, "item") = NoId => ItemOf(pr, t) = Id("fc", t)
<1>1. Id("call", t) # NoId /\ Id("item", t) # NoId
  BY KeyFacts DEF KeyKinds
<1>2. "call" \in pr.item \/ "item" \in pr.item
  BY DEF Identifies
<1>3. CASE "call" \in pr.item
  <2>1. Field(m, "call") = Id("call", t) /\ CallOf(pr, t) = Id("call", t)
    BY <1>3, Zenon DEF Field, CallOf
  <2>2. Field(m, "item") = (IF "item" \in pr.item THEN Id("item", t) ELSE NoId)
    BY Zenon DEF Field
  <2> QED
    BY <1>1, <2>1, <2>2, Zenon DEF FirstOf, ItemOf
<1>4. CASE "call" \notin pr.item
  <2>1. Field(m, "call") = NoId /\ CallOf(pr, t) = Id("item", t)
    BY <1>4, Zenon DEF Field, CallOf
  <2>2. Field(m, "item") = Id("item", t) /\ ItemOf(pr, t) = Id("item", t)
    BY <1>2, <1>4, Zenon DEF Field, ItemOf
  <2> QED
    BY <1>1, <2>1, <2>2, Zenon DEF FirstOf
<1> QED
  BY <1>3, <1>4

\* toolState finds the tool of a message, or makes it with the names of its call.
LEMMA StateOfTool ==
  ASSUME NEW pr, Identifies(pr), NEW p, NEW pg, Knows(p, pr, pg), NEW t \in Tools,
         NEW m, AboutTool(m, pr, t), m.item \in BOOLEAN, ~m.item => pg[t] >= 0
  PROVE  FoundTool(ToolState(p, m), p, pr, pg, t, m.item)
<1> DEFINE keys == ToolKeys(m)
           n == Bound(p, keys)
           s == ToolState(p, m)
           call == FirstOf(Field(m, "call"), Field(m, "item"))
           made == [id |-> IF call = NoId THEN Id("new", Len(p.tools)) ELSE call,
                    itemID |-> IF Field(m, "item") = NoId THEN Id("fc", m.tool) ELSE Field(m, "item"),
                    announced |-> FALSE, argumentsSeen |-> FALSE]
           known == [p.tools[n] EXCEPT
                       !.id     = IF m.item /\ call # NoId THEN call ELSE @,
                       !.itemID = IF m.item /\ Field(m, "item") # NoId THEN Field(m, "item") ELSE @]
<1>1. m.tool = t /\ m.has \subseteq {"item", "call", "output"} /\ m.has \cap pr.item # {} /\ (m.item => m.has = pr.item)
  BY DEF AboutTool, Identifies
<1>2. p \in Parsers /\ KeysLead(p.tools, p.keys, pr) /\ pg[t] \in Int
  BY DEF Knows
<1>3. p.tools \in Seq(ParserTools)
  BY <1>2 DEF Parsers
<1>4. ASSUME m.item
      PROVE  /\ call = CallOf(pr, t) /\ CallOf(pr, t) # NoId
             /\ Field(m, "item") # NoId => Field(m, "item") = ItemOf(pr, t)
             /\ Field(m, "item") = NoId => ItemOf(pr, t) = Id("fc", t)
  BY <1>1, <1>4, ItemNames
<1>5. CASE pg[t] < 0
  <2> DEFINE d == [id |-> CallOf(pr, t), itemID |-> ItemOf(pr, t), announced |-> FALSE, argumentsSeen |-> FALSE]
             p1 == [p EXCEPT !.tools = Append(@, made)]
             k == Len(p.tools) + 1
             q == BindToolKeys(p1, k, keys)
  <2>1. n = 0
    BY <1>1, <1>5, BoundTool
  <2>2. m.item
    BY <1>2, <1>5
  <2>3. made = d
    BY <1>1, <1>4, <2>2, Zenon
  <2>4. s = [n |-> k, p |-> q]
    BY <2>1 DEF ToolState
  <2>5. d \in ParserTools /\ d.id = CallOf(pr, t) /\ d.itemID = ItemOf(pr, t)
    BY Names DEF ParserTools
  <2> HIDE DEF made, d
  <2>6. Append(p.tools, d) \in Seq(ParserTools)
    BY <1>3, <2>5
  <2>7. /\ Len(Append(p.tools, d)) = k /\ k \in DOMAIN Append(p.tools, d) /\ Append(p.tools, d)[k] = d
        /\ \A i \in DOMAIN p.tools : i \in DOMAIN Append(p.tools, d) /\ Append(p.tools, d)[i] = p.tools[i]
    BY <1>3, <2>5
  <2>8. p1 = [p EXCEPT !.tools = Append(p.tools, d)]
    BY <2>3
  <2> HIDE DEF p1, k, q
  <2>9. p1 \in Parsers /\ p1.tools = Append(p.tools, d) /\ p1.keys = p.keys /\ p1.done = p.done
    BY <1>2, <2>6, <2>8 DEF Parsers
  <2>10. KeysLead(p1.tools, p1.keys, pr)
    <3> SUFFICES ASSUME NEW b \in p.keys
                 PROVE  b[2] \in DOMAIN p1.tools /\ p1.tools[b[2]].id = CallOf(pr, b[1][2])
      BY <2>9 DEF KeysLead
    <3>1. b[2] \in DOMAIN p.tools /\ p.tools[b[2]].id = CallOf(pr, b[1][2])
      BY <1>2 DEF KeysLead
    <3> QED
      BY <2>7, <2>9, <3>1
  <2>11. k \in DOMAIN p1.tools /\ p1.tools[k].id = CallOf(pr, t) /\ p1.tools[k].itemID = ItemOf(pr, t)
    BY <2>5, <2>7, <2>9
  <2>12. /\ q \in Parsers /\ q.tools = p1.tools /\ q.done = p1.done
         /\ KeysLead(q.tools, q.keys, pr)
         /\ \A u \in Tools : KnownBy(p1.keys, pr, u) => KnownBy(q.keys, pr, u)
         /\ m.has = pr.item => KnownBy(q.keys, pr, t)
    <3>1. p1 \in Parsers /\ k \in DOMAIN p1.tools /\ p1.tools[k].id = CallOf(pr, t)
      BY <2>9, <2>11
    <3>2. m.tool = t /\ m.has \subseteq {"item", "call", "output"}
      BY <1>1
    <3> HIDE DEF keys
    <3> QED
      BY <2>10, <3>1, <3>2, Binding DEF q, keys
  <2>13. \A u \in Tools : pg[u] >= 0 => KnownBy(p1.keys, pr, u)
    BY <2>9 DEF Knows
  <2>14. s.n = k /\ s.p = q
    BY <2>4
  <2>15. \A u \in Tools : pg[u] >= 0 \/ (m.item /\ u = t) => KnownBy(q.keys, pr, u)
    BY <1>1, <2>12, <2>13
  <2> HIDE DEF s
  <2>16. s.p.tools = Append(p.tools, d) /\ s.n = Len(p.tools) + 1
    BY <2>9, <2>12, <2>14 DEF k
  <2>17. s.n \in DOMAIN s.p.tools /\ s.p.tools[s.n].id = CallOf(pr, t) /\ s.p.tools[s.n].itemID = ItemOf(pr, t)
    BY <2>11, <2>12, <2>14
  <2>18. s.p \in Parsers /\ s.p.done = p.done /\ KeysLead(s.p.tools, s.p.keys, pr)
    BY <2>9, <2>12, <2>14
  <2>19. \A u \in Tools : pg[u] >= 0 \/ (m.item /\ u = t) => KnownBy(s.p.keys, pr, u)
    BY <2>14, <2>15
  <2>20. ~(pg[t] >= 0)
    BY <1>2, <1>5
  <2> QED
    BY <2>16, <2>17, <2>18, <2>19, <2>20 DEF FoundTool, s, d
<1>6. CASE pg[t] >= 0
  <2> DEFINE b == BindToolKeys(p, n, keys)
  <2>1. n \in DOMAIN p.tools /\ p.tools[n].id = CallOf(pr, t)
    BY <1>1, <1>6, BoundTool
  <2>2. PICK u \in Tools : p.tools[n].id = CallOf(pr, u) /\ p.tools[n].itemID = ItemOf(pr, u)
    BY <2>1 DEF Knows
  <2>3. u = t
    BY <2>1, <2>2, Names
  <2>4. p.tools[n].itemID = ItemOf(pr, t)
    BY <2>2, <2>3
  <2>5. n # 0
    BY <1>3, <2>1
  <2>6. s = [n |-> n, p |-> [b EXCEPT !.tools[n] = known]]
    BY <2>5 DEF ToolState
  <2>7. p.tools[n] \in ParserTools
    BY <1>3, <2>1
  <2> DEFINE id2 == IF m.item /\ call # NoId THEN call ELSE p.tools[n].id
             item2 == IF m.item /\ Field(m, "item") # NoId THEN Field(m, "item") ELSE p.tools[n].itemID
  <2>8. id2 = p.tools[n].id /\ item2 = p.tools[n].itemID
    BY <1>4, <2>1, <2>4, Zenon
  <2>9. known = [p.tools[n] EXCEPT !.id = id2, !.itemID = item2]
    OBVIOUS
  <2> HIDE DEF id2, item2, known, n, b
  <2>10. known = p.tools[n]
    BY <2>7, <2>8, <2>9 DEF ParserTools
  <2>11. /\ b \in Parsers /\ b.tools = p.tools /\ b.done = p.done
         /\ KeysLead(b.tools, b.keys, pr)
         /\ \A v \in Tools : KnownBy(p.keys, pr, v) => KnownBy(b.keys, pr, v)
         /\ m.has = pr.item => KnownBy(b.keys, pr, t)
    BY <1>1, <1>2, <2>1, Binding DEF b
  <2>12. [b EXCEPT !.tools[n] = known] = b
    BY <1>3, <2>10, <2>11 DEF Parsers
  <2>13. s.n = n /\ s.p = b
    BY <2>6, <2>12
  <2>14. \A v \in Tools : pg[v] >= 0 => KnownBy(p.keys, pr, v)
    BY DEF Knows
  <2>15. \A v \in Tools : pg[v] >= 0 \/ (m.item /\ v = t) => KnownBy(b.keys, pr, v)
    BY <1>1, <2>11, <2>14
  <2>16. ~(pg[t] < 0)
    BY <1>2, <1>6
  <2> HIDE DEF s
  <2> QED
    BY <1>6, <2>1, <2>4, <2>11, <2>13, <2>15, <2>16 DEF FoundTool, s
<1> QED
  BY <1>2, <1>5, <1>6

\* The tool found is marked as announced, and as having its arguments or not.
Marked(s, seen) ==
  [s.p EXCEPT !.tools = [s.p.tools EXCEPT
    ![s.n] = [s.p.tools[s.n] EXCEPT !.announced = TRUE, !.argumentsSeen = seen]]]

\* Marking a tool changes its two marks and nothing else.
LEMMA MarkedTool ==
  ASSUME NEW s, s.p \in Parsers, s.n \in DOMAIN s.p.tools, NEW seen \in BOOLEAN
  PROVE  /\ Marked(s, seen) \in Parsers
         /\ Marked(s, seen).keys = s.p.keys /\ Marked(s, seen).done = s.p.done
         /\ DOMAIN Marked(s, seen).tools = DOMAIN s.p.tools
         /\ \A i \in DOMAIN s.p.tools : i # s.n => Marked(s, seen).tools[i] = s.p.tools[i]
         /\ s.p.tools[s.n].announced /\ s.p.tools[s.n].argumentsSeen = seen => Marked(s, seen) = s.p
         /\ Marked(s, seen).tools[s.n].id = s.p.tools[s.n].id
         /\ Marked(s, seen).tools[s.n].itemID = s.p.tools[s.n].itemID
         /\ Marked(s, seen).tools[s.n].announced
         /\ Marked(s, seen).tools[s.n].argumentsSeen = seen
<1> DEFINE p == s.p
           d == [p.tools[s.n] EXCEPT !.announced = TRUE, !.argumentsSeen = seen]
           new == [p.tools EXCEPT ![s.n] = d]
<1>1. /\ p.tools \in Seq(ParserTools) /\ p.keys \in SUBSET (ParserKeys \X Nat)
      /\ p.images \in SUBSET (Nat \X Nat) /\ p.done \in BOOLEAN
      /\ p = [tools |-> p.tools, keys |-> p.keys, images |-> p.images, done |-> p.done]
  BY DEF Parsers
<1>2. p.tools[s.n] \in ParserTools
  BY <1>1
<1>3. d \in ParserTools
  BY <1>2 DEF ParserTools
<1>4. /\ p.tools[s.n].announced /\ p.tools[s.n].argumentsSeen = seen => d = p.tools[s.n]
      /\ d.id = p.tools[s.n].id /\ d.itemID = p.tools[s.n].itemID /\ d.announced /\ d.argumentsSeen = seen
  BY <1>2 DEF ParserTools
<1>5. Marked(s, seen) = [p EXCEPT !.tools = new]
  BY DEF Marked
<1> HIDE DEF d
<1>6. new \in Seq(ParserTools) /\ DOMAIN new = DOMAIN p.tools
  BY <1>1, <1>3
<1>7. /\ \A i \in DOMAIN p.tools : new[i] = IF i = s.n THEN d ELSE p.tools[i]
      /\ d = p.tools[s.n] => new = p.tools
  BY <1>1, <1>6
<1> HIDE DEF new
<1>8. /\ Marked(s, seen) \in Parsers /\ Marked(s, seen).tools = new
      /\ Marked(s, seen).keys = p.keys /\ Marked(s, seen).done = p.done
      /\ new = p.tools => Marked(s, seen) = p
  BY <1>1, <1>5, <1>6 DEF Parsers
<1> QED
  BY <1>4, <1>6, <1>7, <1>8 DEF d

\* The parser still knows every tool when one of them goes on.
LEMMA KnowsOn ==
  ASSUME NEW pr, NEW p, NEW pg, Knows(p, pr, pg), NEW t \in Tools, NEW item \in BOOLEAN, item \/ pg[t] >= 0,
         NEW s, FoundTool(s, p, pr, pg, t, item), NEW j \in Int, j >= 0
  PROVE  Knows(Marked(s, j >= 1), pr, [pg EXCEPT ![t] = j])
<1> DEFINE seen == j >= 1
           q == Marked(s, seen)
           tl == s.p.tools
           f == [pg EXCEPT ![t] = j]
<1>0. seen \in BOOLEAN
  OBVIOUS
<1>1. /\ s.p \in Parsers /\ s.n \in DOMAIN tl
      /\ tl[s.n].id = CallOf(pr, t) /\ tl[s.n].itemID = ItemOf(pr, t)
      /\ pg[t] < 0 => s.n = Len(p.tools) + 1
      /\ pg[t] < 0 => tl = Append(p.tools, [id |-> CallOf(pr, t), itemID |-> ItemOf(pr, t),
                                                  announced |-> FALSE, argumentsSeen |-> FALSE])
      /\ pg[t] >= 0 => tl = p.tools
  BY DEF FoundTool
<1>2. /\ q \in Parsers /\ q.keys = s.p.keys
      /\ DOMAIN q.tools = DOMAIN tl
      /\ \A i \in DOMAIN tl : i # s.n => q.tools[i] = tl[i]
      /\ q.tools[s.n].id = tl[s.n].id /\ q.tools[s.n].itemID = tl[s.n].itemID
      /\ q.tools[s.n].announced /\ q.tools[s.n].argumentsSeen = seen
  <2>1. s.p \in Parsers /\ s.n \in DOMAIN s.p.tools
    BY <1>1
  <2> HIDE DEF seen, q
  <2>2. /\ Marked(s, seen) \in Parsers /\ Marked(s, seen).keys = s.p.keys
        /\ DOMAIN Marked(s, seen).tools = DOMAIN s.p.tools
        /\ \A i \in DOMAIN s.p.tools : i # s.n => Marked(s, seen).tools[i] = s.p.tools[i]
        /\ Marked(s, seen).tools[s.n].id = s.p.tools[s.n].id
        /\ Marked(s, seen).tools[s.n].itemID = s.p.tools[s.n].itemID
        /\ Marked(s, seen).tools[s.n].announced
        /\ Marked(s, seen).tools[s.n].argumentsSeen = seen
    BY <1>0, <2>1, MarkedTool, Zenon
  <2> QED
    BY <2>2, Zenon DEF q
<1>3. pg \in [Tools -> Int] /\ p \in Parsers
  BY DEF Knows
<1>4. p.tools \in Seq(ParserTools)
  BY <1>3 DEF Parsers
<1>5. f \in [Tools -> Int] /\ f[t] = j /\ \A u \in Tools : u # t => f[u] = pg[u]
  BY <1>3
<1> HIDE DEF f, q
<1>6. ASSUME NEW i \in DOMAIN tl, i # s.n
      PROVE  i \in DOMAIN p.tools /\ tl[i] = p.tools[i] /\ p.tools[i].id # CallOf(pr, t)
  <2>1. CASE pg[t] < 0
    <3>1. i \in DOMAIN p.tools /\ tl[i] = p.tools[i]
      BY <1>1, <1>4, <1>6, <2>1
    <3>2. PICK u \in Tools : p.tools[i].id = CallOf(pr, u) /\ pg[u] >= 0
      BY <3>1 DEF Knows
    <3>3. u # t
      BY <1>3, <2>1, <3>2
    <3> QED
      BY <3>1, <3>2, <3>3, Names
  <2>2. CASE pg[t] >= 0
    <3>1. tl = p.tools
      BY <1>1, <2>2
    <3>2. p.tools[i].id # p.tools[s.n].id
      BY <1>1, <1>6, <3>1 DEF Knows
    <3> QED
      BY <1>1, <3>1, <3>2
  <2> QED
    BY <1>3, <2>1, <2>2
<1>7. ASSUME NEW i \in DOMAIN q.tools
      PROVE  \E u \in Tools : /\ q.tools[i].id = CallOf(pr, u) /\ q.tools[i].itemID = ItemOf(pr, u)
                              /\ f[u] >= 0 /\ q.tools[i].announced /\ (q.tools[i].argumentsSeen <=> f[u] >= 1)
  <2>1. CASE i = s.n
    BY <1>1, <1>2, <1>5, <2>1
  <2>2. CASE i # s.n
    <3>1. i \in DOMAIN p.tools /\ q.tools[i] = p.tools[i] /\ p.tools[i].id # CallOf(pr, t)
      BY <1>2, <1>6, <2>2
    <3>2. PICK u \in Tools : /\ p.tools[i].id = CallOf(pr, u) /\ p.tools[i].itemID = ItemOf(pr, u)
                             /\ pg[u] >= 0 /\ p.tools[i].announced /\ (p.tools[i].argumentsSeen <=> pg[u] >= 1)
      BY <3>1 DEF Knows
    <3>3. f[u] = pg[u]
      BY <1>5, <3>1, <3>2
    <3> QED
      BY <3>1, <3>2, <3>3
  <2> QED
    BY <2>1, <2>2
<1>8. ASSUME NEW i \in DOMAIN q.tools, NEW k \in DOMAIN q.tools, q.tools[i].id = q.tools[k].id PROVE i = k
  <2>1. CASE i # s.n /\ k # s.n
    <3>1. /\ i \in DOMAIN p.tools /\ q.tools[i] = p.tools[i]
          /\ k \in DOMAIN p.tools /\ q.tools[k] = p.tools[k]
      BY <1>2, <1>6, <2>1
    <3> QED
      BY <1>8, <3>1 DEF Knows
  <2>2. CASE i = s.n \/ k = s.n
    <3>1. \A v \in DOMAIN q.tools : v # s.n => q.tools[v].id # CallOf(pr, t)
      BY <1>2, <1>6
    <3>2. q.tools[s.n].id = CallOf(pr, t)
      BY <1>1, <1>2
    <3> QED
      BY <1>8, <2>2, <3>1, <3>2
  <2> QED
    BY <2>1, <2>2
<1>9. KeysLead(q.tools, q.keys, pr)
  <2>1. KeysLead(tl, q.keys, pr)
    BY <1>2 DEF FoundTool
  <2>2. \A i \in DOMAIN tl : q.tools[i].id = tl[i].id
    BY <1>2
  <2> QED
    BY <1>2, <2>1, <2>2 DEF KeysLead
<1>10. ASSUME NEW u \in Tools, f[u] >= 0 PROVE KnownBy(q.keys, pr, u)
  <2>1. pg[u] >= 0 \/ (item /\ u = t)
    BY <1>5, <1>10
  <2> QED
    BY <1>2, <2>1 DEF FoundTool
<1> QED
  BY <1>2, <1>5, <1>7, <1>8, <1>9, <1>10 DEF Knows, q, f

\* The ways in which the parser marks a tool.
LEMMA MarkedForms ==
  ASSUME NEW s, s.p \in Parsers, s.n \in DOMAIN s.p.tools, NEW seen \in BOOLEAN
  PROVE  /\ [s.p EXCEPT !.tools[s.n].announced = TRUE, !.tools[s.n].argumentsSeen = seen] = Marked(s, seen)
         /\ s.p.tools[s.n].announced =>
              /\ [s.p EXCEPT !.tools[s.n].argumentsSeen = TRUE] = Marked(s, TRUE)
              /\ s.p.tools[s.n].argumentsSeen => s.p = Marked(s, TRUE)
              /\ ~s.p.tools[s.n].argumentsSeen => s.p = Marked(s, FALSE)
<1>1. s.p.tools \in Seq(ParserTools)
  BY DEF Parsers
<1>2. s.p.tools[s.n] \in ParserTools
  BY <1>1
<1>3. s.p.tools[s.n].announced \in BOOLEAN /\ s.p.tools[s.n].argumentsSeen \in BOOLEAN
  BY <1>2 DEF ParserTools
<1>4. s.p.tools[s.n].announced => Marked(s, s.p.tools[s.n].argumentsSeen) = s.p
  BY <1>3, MarkedTool, Zenon
<1>5. [s.p EXCEPT !.tools[s.n].announced = TRUE, !.tools[s.n].argumentsSeen = seen] = Marked(s, seen)
  BY <1>1, <1>2 DEF Marked, Parsers, ParserTools
<1>6. ASSUME s.p.tools[s.n].announced
      PROVE  [s.p EXCEPT !.tools[s.n].argumentsSeen = TRUE] = Marked(s, TRUE)
  <2>1. [s.p.tools[s.n] EXCEPT !.argumentsSeen = TRUE]
        = [s.p.tools[s.n] EXCEPT !.announced = TRUE, !.argumentsSeen = TRUE]
    BY <1>2, <1>3, <1>6 DEF ParserTools
  <2> QED
    BY <2>1, Zenon DEF Marked
<1>7. ASSUME s.p.tools[s.n].announced, s.p.tools[s.n].argumentsSeen PROVE s.p = Marked(s, TRUE)
  <2>1. s.p.tools[s.n].argumentsSeen = TRUE
    BY <1>3, <1>7
  <2> QED
    BY <1>4, <1>7, <2>1, Zenon
<1>8. ASSUME s.p.tools[s.n].announced, ~s.p.tools[s.n].argumentsSeen PROVE s.p = Marked(s, FALSE)
  <2>1. s.p.tools[s.n].argumentsSeen = FALSE
    BY <1>3, <1>8
  <2> QED
    BY <1>4, <1>8, <2>1, Zenon
<1> QED
  BY <1>5, <1>6, <1>7, <1>8

\* What is known of the tool found.
LEMMA FoundState ==
  ASSUME NEW pr, NEW p, NEW pg, Knows(p, pr, pg), NEW t \in Tools, NEW item, NEW s, FoundTool(s, p, pr, pg, t, item)
  PROVE  LET tool == s.p.tools[s.n]
         IN  (tool.announced <=> pg[t] >= 0) /\ (tool.argumentsSeen <=> pg[t] >= 1)
<1>1. p.tools \in Seq(ParserTools) /\ pg[t] \in Int
  BY DEF Knows, Parsers
<1>2. CASE pg[t] < 0
  <2> DEFINE d == [id |-> CallOf(pr, t), itemID |-> ItemOf(pr, t), announced |-> FALSE, argumentsSeen |-> FALSE]
  <2>1. s.n = Len(p.tools) + 1 /\ s.p.tools = Append(p.tools, d)
    BY <1>2 DEF FoundTool
  <2>2. ~d.announced /\ ~d.argumentsSeen
    OBVIOUS
  <2> HIDE DEF d
  <2>3. s.p.tools[s.n] = d
    BY <1>1, <2>1
  <2>4. ~(pg[t] >= 0) /\ ~(pg[t] >= 1)
    BY <1>1, <1>2
  <2> QED
    BY <2>2, <2>3, <2>4
<1>3. CASE pg[t] >= 0
  <2>1. s.n \in DOMAIN p.tools /\ s.p.tools = p.tools /\ p.tools[s.n].id = CallOf(pr, t)
    BY <1>3 DEF FoundTool
  <2>2. PICK u \in Tools : /\ p.tools[s.n].id = CallOf(pr, u)
                           /\ pg[u] >= 0 /\ p.tools[s.n].announced /\ (p.tools[s.n].argumentsSeen <=> pg[u] >= 1)
    BY <2>1 DEF Knows
  <2>3. u = t
    BY <2>1, <2>2, Names
  <2> QED
    BY <1>3, <2>1, <2>2, <2>3
<1> QED
  BY <1>1, <1>2, <1>3

\* The fragments that have come when the upstream is at k with a tool call.
Shown(k) == IF k < 0 THEN 0 ELSE IF k > Fragments THEN Fragments ELSE k
Upto(k) == [i \in 1..Shown(k) |-> i]

\* The steps of a tool call, in what they say of its arguments.
Announces(k, step) ==
  /\ k < 0 /\ step[1] \in {"itemAdded", "itemDone"}
  /\ step[2] # <<>> <=> step[3] >= 1
  /\ Upto(step[3]) = step[2]
Repeats(k, step) == k >= 1 /\ step[1] \in {"itemDone", "argsDone"} /\ Upto(step[3]) = Upto(k)
Tells(k, step) ==
  /\ k >= 0 /\ step[1] \in {"itemDone", "argsDone", "argsDelta"} /\ step[2] # <<>>
  /\ step[1] = "argsDelta" \/ k = 0
  /\ Upto(step[3]) = Upto(k) \o step[2]

\* Each step announces the call, repeats its arguments, or tells a fragment of them.
LEMMA StepKinds ==
  ASSUME NEW k \in -1..(Fragments + 2), NEW step \in ToolSteps(k)
  PROVE  /\ step[3] \in 0..(Fragments + 2) /\ step[2] \in Seq(Nat)
         /\ Announces(k, step) \/ (step[3] >= 1 /\ (Repeats(k, step) \/ Tells(k, step)))
<1>1. Fragments \in Nat /\ Fragments >= 1
  BY GatewayAssumption
<1>2. All \in Seq(Nat) /\ All # <<>> /\ Len(All) = Fragments
  BY <1>1 DEF All
<1>3. Upto(0) = <<>> /\ Upto(Fragments) = All /\ Upto(Fragments + 1) = All /\ Upto(Fragments + 2) = All
  BY <1>1 DEF Upto, Shown, All
<1>4. CASE k = -1
  <2>1. \/ step = <<"itemAdded", <<>>, 0>>
        \/ step = <<"itemAdded", All, Fragments>>
        \/ step = <<"itemDone", All, Fragments + 2>>
    BY <1>1, <1>4 DEF ToolSteps
  <2>2. CASE step = <<"itemAdded", <<>>, 0>>
    BY <1>1, <1>3, <1>4, <2>2 DEF Announces
  <2>3. CASE step = <<"itemAdded", All, Fragments>>
    BY <1>1, <1>2, <1>3, <1>4, <2>3 DEF Announces
  <2>4. CASE step = <<"itemDone", All, Fragments + 2>>
    BY <1>1, <1>2, <1>3, <1>4, <2>4 DEF Announces
  <2> QED
    BY <2>1, <2>2, <2>3, <2>4
<1>5. CASE k \in 0..(Fragments - 1)
  <2>1. \/ step = <<"argsDelta", <<k + 1>>, k + 1>>
        \/ k = 0 /\ step = <<"argsDone", All, Fragments + 1>>
        \/ k = 0 /\ step = <<"itemDone", All, Fragments + 2>>
    BY <1>1, <1>5 DEF ToolSteps
  <2>2. CASE step = <<"argsDelta", <<k + 1>>, k + 1>>
    <3>1. Upto(k + 1) = Upto(k) \o <<k + 1>>
      <4>1. Shown(k) = k /\ Shown(k + 1) = k + 1 /\ k \in Nat
        BY <1>1, <1>5 DEF Shown
      <4>2. Upto(k) \in Seq(Nat) /\ Len(Upto(k)) = k
        BY <4>1 DEF Upto
      <4>3. Upto(k + 1) = Append(Upto(k), k + 1)
        BY <4>1, <4>2 DEF Upto
      <4>4. \A q \in Seq(Nat), x \in Nat : Append(q, x) = q \o <<x>>
        OBVIOUS
      <4>5. k + 1 \in Nat
        BY <4>1
      <4> QED
        BY <4>2, <4>3, <4>4, <4>5, Zenon
    <3>2. step[1] = "argsDelta" /\ step[2] = <<k + 1>> /\ step[3] = k + 1
      BY <2>2
    <3>3. <<k + 1>> \in Seq(Nat) /\ <<k + 1>> # <<>> /\ k + 1 >= 1 /\ k + 1 \in 0..(Fragments + 2) /\ k >= 0
      BY <1>1, <1>5
    <3> QED
      BY <3>1, <3>2, <3>3 DEF Tells
  <2>3. CASE k = 0 /\ step = <<"argsDone", All, Fragments + 1>>
    BY <1>1, <1>2, <1>3, <2>3 DEF Tells
  <2>4. CASE k = 0 /\ step = <<"itemDone", All, Fragments + 2>>
    BY <1>1, <1>2, <1>3, <2>4 DEF Tells
  <2> QED
    BY <2>1, <2>2, <2>3, <2>4
<1>6. CASE k = Fragments
  <2>1. step = <<"argsDone", All, k + 1>> \/ step = <<"itemDone", All, k + 2>>
    BY <1>1, <1>6 DEF ToolSteps
  <2>2. Upto(k + 1) = Upto(k) /\ Upto(k + 2) = Upto(k) /\ k + 1 \in 0..(Fragments + 2) /\ k + 2 \in 0..(Fragments + 2)
    BY <1>1, <1>3, <1>6
  <2>3. CASE step = <<"argsDone", All, k + 1>>
    BY <1>1, <1>2, <1>6, <2>2, <2>3 DEF Repeats
  <2>4. CASE step = <<"itemDone", All, k + 2>>
    BY <1>1, <1>2, <1>6, <2>2, <2>4 DEF Repeats
  <2> QED
    BY <2>1, <2>3, <2>4
<1>7. CASE k = Fragments + 1
  <2>1. step = <<"itemDone", All, k + 1>>
    BY <1>1, <1>7 DEF ToolSteps
  <2>2. Upto(k + 1) = Upto(k) /\ k + 1 \in 0..(Fragments + 2)
    BY <1>1, <1>3, <1>7
  <2> QED
    BY <1>1, <1>2, <1>7, <2>1, <2>2 DEF Repeats
<1>8. CASE k = Fragments + 2
  <2>1. ToolSteps(k) = {}
    BY <1>1, <1>8 DEF ToolSteps
  <2> QED
    BY <2>1
<1> QED
  BY <1>1, <1>4, <1>5, <1>6, <1>7, <1>8

\* The result of an item, when the tool found is s.n of s.p.
ItemResult(s, m) ==
  LET tool == s.p.tools[s.n]
      late == m.type = "itemDone" /\ m.args # <<>> /\ ~tool.argumentsSeen
  IN  IF tool.announced
      THEN Parsed(IF late THEN [s.p EXCEPT !.tools[s.n].argumentsSeen = TRUE] ELSE s.p,
                  IF late THEN <<ToolEvent(s.p, s.n, m.args)>> ELSE <<>>)
      ELSE Parsed([s.p EXCEPT !.tools[s.n].announced = TRUE,
                              !.tools[s.n].argumentsSeen = (m.args # <<>>)],
                  <<ToolEvent(s.p, s.n, m.args)>>)

\* What a message about a tool call makes of the tool found, and the event it gives.
ItemOutcome(r, s, m) ==
  LET tool == s.p.tools[s.n]
      e == ToolEvent(s.p, s.n, m.args)
  IN  /\ ~tool.announced /\ m.args = <<>> => r.p = Marked(s, FALSE) /\ r.events = <<e>>
      /\ ~tool.announced /\ m.args # <<>> => r.p = Marked(s, TRUE) /\ r.events = <<e>>
      /\ tool.announced /\ tool.argumentsSeen => r.p = Marked(s, TRUE) /\ r.events = <<>>
      /\ tool.announced /\ ~tool.argumentsSeen /\ m.type = "itemDone" /\ m.args # <<>> =>
           r.p = Marked(s, TRUE) /\ r.events = <<e>>
ArgumentsOutcome(r, s, m) ==
  LET tool == s.p.tools[s.n]
      e == ToolEvent(s.p, s.n, m.args)
  IN  /\ m.type = "argsDelta" \/ ~tool.argumentsSeen => r.p = Marked(s, TRUE) /\ r.events = <<e>>
      /\ m.type = "argsDone" /\ tool.argumentsSeen => r.p = Marked(s, TRUE) /\ r.events = <<>>

\* parse on an item event.
LEMMA ParsedItem ==
  ASSUME NEW p, ~p.done, NEW m, m.type \in {"itemAdded", "itemDone"}, NEW s, s = ToolState(p, m),
         s.p \in Parsers, s.n \in DOMAIN s.p.tools
  PROVE  ItemOutcome(Parse(p, m), s, m)
<1> DEFINE tool == s.p.tools[s.n]
           r == Parse(p, m)
           e == ToolEvent(s.p, s.n, m.args)
           late == m.type = "itemDone" /\ m.args # <<>> /\ ~tool.argumentsSeen
           f == FunctionItem(p, m)
<1>1. r = f
  BY DEF Parse
<1>2. f = IF tool.announced
          THEN Parsed(IF late THEN [s.p EXCEPT !.tools[s.n].argumentsSeen = TRUE] ELSE s.p,
                      IF late THEN <<e>> ELSE <<>>)
          ELSE Parsed([s.p EXCEPT !.tools[s.n].announced = TRUE,
                                  !.tools[s.n].argumentsSeen = (m.args # <<>>)], <<e>>)
  <2>1. f = ItemResult(ToolState(p, m), m)
    BY Zenon DEF FunctionItem, ItemResult
  <2>2. f = ItemResult(s, m)
    BY <2>1
  <2> HIDE DEF f
  <2> QED
    BY <2>2, Zenon DEF ItemResult
<1>3. \A q, events : Parsed(q, events).p = q /\ Parsed(q, events).events = events
  BY DEF Parsed
<1>4. /\ \A seen \in BOOLEAN :
           [s.p EXCEPT !.tools[s.n].announced = TRUE, !.tools[s.n].argumentsSeen = seen] = Marked(s, seen)
      /\ tool.announced =>
           /\ [s.p EXCEPT !.tools[s.n].argumentsSeen = TRUE] = Marked(s, TRUE)
           /\ tool.argumentsSeen => s.p = Marked(s, TRUE)
  BY MarkedForms
<1> HIDE DEF f, e, r, tool
<1>5. CASE ~tool.announced
  <2>1. f = Parsed(Marked(s, m.args # <<>>), <<e>>)
    BY <1>2, <1>4, <1>5
  <2>2. f.p = Marked(s, m.args # <<>>) /\ f.events = <<e>>
    BY <1>3, <2>1, Zenon
  <2>3. m.args = <<>> => (m.args # <<>>) = FALSE
    OBVIOUS
  <2>4. m.args # <<>> => (m.args # <<>>) = TRUE
    OBVIOUS
  <2>5. /\ m.args = <<>> => r.p = Marked(s, FALSE) /\ r.events = <<e>>
        /\ m.args # <<>> => r.p = Marked(s, TRUE) /\ r.events = <<e>>
    BY <1>1, <2>2, <2>3, <2>4
  <2> QED
    BY <1>5, <2>5 DEF tool, e, r, ItemOutcome
<1>6. CASE tool.announced /\ late
  <2>1. f = Parsed(Marked(s, TRUE), <<e>>)
    BY <1>2, <1>4, <1>6
  <2>2. r.p = Marked(s, TRUE) /\ r.events = <<e>>
    BY <1>1, <1>3, <2>1
  <2> QED
    BY <1>6, <2>2 DEF tool, e, r, ItemOutcome
<1>7. CASE tool.announced /\ ~late
  <2>1. f = Parsed(s.p, <<>>)
    BY <1>2, <1>7
  <2>2. r.p = s.p /\ r.events = <<>>
    BY <1>1, <1>3, <2>1
  <2>3. tool.argumentsSeen => r.p = Marked(s, TRUE)
    BY <1>4, <1>7, <2>2
  <2> QED
    BY <1>7, <2>2, <2>3 DEF tool, e, r, ItemOutcome
<1> QED
  BY <1>5, <1>6, <1>7

\* parse on an arguments event.
LEMMA ParsedArguments ==
  ASSUME NEW p, ~p.done, NEW m, m.type \in {"argsDelta", "argsDone"}, NEW s, s = ToolState(p, m),
         s.p \in Parsers, s.n \in DOMAIN s.p.tools, s.p.tools[s.n].announced
  PROVE  ArgumentsOutcome(Parse(p, m), s, m)
<1> DEFINE tool == s.p.tools[s.n]
           r == Parse(p, m)
           e == ToolEvent(s.p, s.n, m.args)
           d == ArgumentsDelta(p, m)
<1>1. /\ m.type = "argsDelta" => r = d
      /\ m.type = "argsDone" => r = ArgumentsDone(p, m)
  BY DEF Parse
<1>2. ArgumentsDone(p, m) = IF tool.argumentsSeen THEN Parsed(s.p, <<>>) ELSE d
  BY Zenon DEF ArgumentsDone
<1>3. \A q, events : Parsed(q, events).p = q /\ Parsed(q, events).events = events
  BY DEF Parsed
<1>4. /\ [s.p EXCEPT !.tools[s.n].argumentsSeen = TRUE] = Marked(s, TRUE)
      /\ tool.argumentsSeen => s.p = Marked(s, TRUE)
  BY MarkedForms
<1>5. d = Parsed(Marked(s, TRUE), <<e>>)
  BY <1>4, Zenon DEF ArgumentsDelta
<1> HIDE DEF e, r, tool, d
<1>6. d.p = Marked(s, TRUE) /\ d.events = <<e>>
  BY <1>3, <1>5, Zenon
<1>7. Parsed(s.p, <<>>).p = s.p /\ Parsed(s.p, <<>>).events = <<>>
  BY <1>3, Zenon
<1>8. m.type = "argsDelta" \/ ~tool.argumentsSeen => r = d
  BY <1>1, <1>2
<1>9. m.type = "argsDone" /\ tool.argumentsSeen => r.p = Marked(s, TRUE) /\ r.events = <<>>
  BY <1>1, <1>2, <1>4, <1>7
<1> QED
  BY <1>6, <1>8, <1>9 DEF tool, e, r, ArgumentsOutcome

AllEvents == [kind : BlockKinds, id : Idents, itemID : Idents, args : Seq(Nat), url : Nat]

\* The events of a tool call have the form of an event.
LEMMA ToolEventType ==
  ASSUME NEW p \in Parsers, NEW n \in DOMAIN p.tools, NEW args \in Seq(Nat)
  PROVE  ToolEvent(p, n, args) \in AllEvents
<1> DEFINE tool == p.tools[n]
           e == ToolEvent(p, n, args)
<1>1. tool \in ParserTools
  BY DEF Parsers
<1>2. e = [Event("tool") EXCEPT !.id = tool.id, !.itemID = tool.itemID, !.args = args]
  BY DEF ToolEvent
<1>3. tool.id \in Idents /\ tool.itemID \in Idents
  BY <1>1 DEF ParserTools
<1> HIDE DEF tool, e
<1>4. e = [kind |-> "tool", id |-> tool.id, itemID |-> tool.itemID, args |-> args, url |-> 0]
  BY <1>2 DEF Event
<1>5. "tool" \in BlockKinds
  BY DEF BlockKinds
<1>6. e \in AllEvents
  BY <1>3, <1>4, <1>5 DEF AllEvents
<1> QED
  BY <1>6 DEF e

\* The parser keeps up with the upstream, and passes on what is new in a message.
PassesOn(r, p, pr, pg, t, step) ==
  /\ Knows(r.p, pr, [pg EXCEPT ![t] = step[3]]) /\ r.p.done = p.done
  /\ \/ r.events = <<>> /\ pg[t] >= 0 /\ Upto(step[3]) = Upto(pg[t])
     \/ \E e : r.events = <<e>> /\ e \in AllEvents /\ IsToolEvent(e, pr, t) /\ Upto(step[3]) = Upto(pg[t]) \o e.args

\* Every message about a tool call is passed on as it should be, whatever identifiers it carries.
LEMMA ToolParse ==
  ASSUME NEW pr, Identifies(pr), NEW p, NEW pg, Knows(p, pr, pg), ~p.done, NEW t \in Tools,
         pg[t] \in -1..(Fragments + 2), NEW step \in ToolSteps(pg[t]),
         NEW m, m.type = step[1], m.args = step[2], m.item \in BOOLEAN,
         m.item <=> step[1] \in {"itemAdded", "itemDone"}, AboutTool(m, pr, t)
  PROVE  PassesOn(Parse(p, m), p, pr, pg, t, step)
<1> DEFINE r == Parse(p, m)
           s == ToolState(p, m)
           e == ToolEvent(s.p, s.n, m.args)
           tool == s.p.tools[s.n]
           k == pg[t]
           j == step[3]
<1>1. /\ j \in 0..(Fragments + 2) /\ step[2] \in Seq(Nat)
      /\ Announces(k, step) \/ (j >= 1 /\ (Repeats(k, step) \/ Tells(k, step)))
  BY StepKinds
<1>2. j \in Int /\ j >= 0 /\ k \in Int /\ k >= -1 /\ (k < 0 => k = -1)
  BY <1>1, GatewayAssumption
<1>3. ~m.item => k >= 0
  <2>1. CASE Announces(k, step)
    BY <2>1 DEF Announces
  <2>2. CASE Repeats(k, step)
    BY <1>2, <2>2 DEF Repeats
  <2>3. CASE Tells(k, step)
    BY <2>3 DEF Tells
  <2> QED
    BY <1>1, <2>1, <2>2, <2>3
<1>4. FoundTool(s, p, pr, pg, t, m.item)
  BY <1>3, StateOfTool
<1>5. /\ s.p \in Parsers /\ s.n \in DOMAIN s.p.tools /\ s.p.done = p.done
      /\ tool.id = CallOf(pr, t) /\ tool.itemID = ItemOf(pr, t)
  BY <1>4 DEF FoundTool
<1>6. (tool.announced <=> k >= 0) /\ (tool.argumentsSeen <=> k >= 1)
  BY <1>4, FoundState
<1>7. Knows(Marked(s, j >= 1), pr, [pg EXCEPT ![t] = j])
  <2>1. m.item \/ pg[t] >= 0
    BY <1>3
  <2> HIDE DEF s, j
  <2> QED
    BY <1>2, <1>4, <2>1, KnowsOn
<1>8. /\ j >= 1 => Marked(s, j >= 1) = Marked(s, TRUE)
      /\ ~(j >= 1) => Marked(s, j >= 1) = Marked(s, FALSE)
  <2>1. j >= 1 => (j >= 1) = TRUE
    OBVIOUS
  <2>2. ~(j >= 1) => (j >= 1) = FALSE
    OBVIOUS
  <2> HIDE DEF j, s
  <2> QED
    BY <2>1, <2>2, Zenon
<1>9. IsToolEvent(e, pr, t)
  <2>1. e = [Event("tool") EXCEPT !.id = tool.id, !.itemID = tool.itemID, !.args = m.args]
    BY DEF ToolEvent
  <2> HIDE DEF e, tool, s
  <2>2. e.kind = "tool" /\ e.id = tool.id /\ e.itemID = tool.itemID /\ e.args = m.args
    BY <2>1 DEF Event
  <2> QED
    BY <1>1, <1>5, <2>2 DEF IsToolEvent
<1>10. e \in AllEvents
  <2>1. m.args \in Seq(Nat) /\ s.p \in Parsers /\ s.n \in DOMAIN s.p.tools
    BY <1>1, <1>5
  <2> HIDE DEF s
  <2> QED
    BY <2>1, ToolEventType
<1>11. e.args = m.args
  BY DEF ToolEvent, Event
<1>12. Marked(s, TRUE).done = p.done /\ Marked(s, FALSE).done = p.done
  BY <1>5, MarkedTool
<1>13. m.type \in {"itemAdded", "itemDone"} => ItemOutcome(r, s, m)
  <2>1. s = ToolState(p, m)
    OBVIOUS
  <2>2. s.p \in Parsers /\ s.n \in DOMAIN s.p.tools
    BY <1>5
  <2> HIDE DEF s
  <2> QED
    BY <2>1, <2>2, ParsedItem
<1>14. m.type \in {"argsDelta", "argsDone"} /\ tool.announced => ArgumentsOutcome(r, s, m)
  <2>1. s = ToolState(p, m)
    OBVIOUS
  <2>2. s.p \in Parsers /\ s.n \in DOMAIN s.p.tools
    BY <1>5
  <2> HIDE DEF s
  <2> QED
    BY <2>1, <2>2, ParsedArguments
<1>15. /\ r.p = Marked(s, j >= 1)
       /\ \/ r.events = <<>> /\ k >= 0 /\ Upto(j) = Upto(k)
          \/ r.events = <<e>> /\ Upto(j) = Upto(k) \o m.args
  <2>1. CASE Announces(k, step)
    <3>1. m.type \in {"itemAdded", "itemDone"} /\ ~tool.announced /\ (m.args = <<>> \/ j >= 1)
          /\ (m.args # <<>> \/ ~(j >= 1)) /\ Upto(j) = m.args
      BY <1>2, <1>6, <2>1 DEF Announces
    <3>2. /\ m.args = <<>> => r.p = Marked(s, FALSE) /\ r.events = <<e>>
          /\ m.args # <<>> => r.p = Marked(s, TRUE) /\ r.events = <<e>>
      <4> HIDE DEF s, r
      <4> QED
        BY <1>13, <3>1 DEF ItemOutcome
    <3>3. Upto(k) = <<>>
      BY <1>2, <2>1 DEF Announces, Upto, Shown
    <3>4. <<>> \o m.args = m.args
      BY <1>1
    <3> HIDE DEF s, r, j, e, tool, k
    <3> QED
      BY <1>8, <3>1, <3>2, <3>3, <3>4
  <2>2. CASE j >= 1 /\ Repeats(k, step)
    <3>1. tool.announced /\ tool.argumentsSeen /\ m.type \in {"itemDone", "argsDone"} /\ Upto(j) = Upto(k) /\ k >= 0
      BY <1>2, <1>6, <2>2 DEF Repeats
    <3>2. m.type = "itemDone" => r.p = Marked(s, TRUE) /\ r.events = <<>>
      <4> HIDE DEF s, r
      <4> QED
        BY <1>13, <3>1 DEF ItemOutcome
    <3>3. m.type = "argsDone" => r.p = Marked(s, TRUE) /\ r.events = <<>>
      <4> HIDE DEF s, r
      <4> QED
        BY <1>14, <3>1 DEF ArgumentsOutcome
    <3> HIDE DEF s, r, j, e, tool, k
    <3> QED
      BY <1>8, <2>2, <3>1, <3>2, <3>3
  <2>3. CASE j >= 1 /\ Tells(k, step)
    <3>1. /\ tool.announced /\ m.type \in {"itemDone", "argsDone", "argsDelta"} /\ m.args # <<>>
          /\ m.type = "argsDelta" \/ ~tool.argumentsSeen
          /\ Upto(j) = Upto(k) \o m.args
      BY <1>2, <1>6, <2>3 DEF Tells
    <3>2. m.type = "itemDone" => r.p = Marked(s, TRUE) /\ r.events = <<e>>
      <4> HIDE DEF s, r
      <4> QED
        BY <1>13, <3>1 DEF ItemOutcome
    <3>3. m.type \in {"argsDone", "argsDelta"} => r.p = Marked(s, TRUE) /\ r.events = <<e>>
      <4> HIDE DEF s, r
      <4> QED
        BY <1>14, <3>1 DEF ArgumentsOutcome
    <3> HIDE DEF s, r, j, e, tool, k
    <3> QED
      BY <1>8, <2>3, <3>1, <3>2, <3>3
  <2> QED
    BY <1>1, <2>1, <2>2, <2>3
<1> HIDE DEF r, s, e
<1>16. r.p.done = p.done
  BY <1>8, <1>12, <1>15
<1>17. Knows(r.p, pr, [pg EXCEPT ![t] = j])
  BY <1>7, <1>15
<1>18. \/ r.events = <<>> /\ k >= 0 /\ Upto(j) = Upto(k)
       \/ \E x : r.events = <<x>> /\ x \in AllEvents /\ IsToolEvent(x, pr, t) /\ Upto(j) = Upto(k) \o x.args
  BY <1>9, <1>11, <1>15, <1>10
<1> QED
  BY <1>16, <1>17, <1>18 DEF PassesOn, r

-----------------------------------------------------------------------------
(* The messages that are not about a tool call.                            *)

PlainEvents == {e \in AllEvents : IsPlain(e)}
\* The ones that do not end an answer.
PassingEvents == {e \in PlainEvents : e.kind \notin {"error", "done"}}

\* Events without data are events.
LEMMA PlainEvent ==
  ASSUME NEW kind \in Kinds
  PROVE  /\ Event(kind) \in PlainEvents
         /\ kind \notin {"error", "done"} => Event(kind) \in PassingEvents
<1> DEFINE e == Event(kind)
<1>1. e = [kind |-> kind, id |-> NoId, itemID |-> NoId, args |-> <<>>, url |-> 0]
  BY DEF Event
<1>2. kind \in BlockKinds
  BY DEF BlockKinds
<1>3. NoId \in Idents /\ <<>> \in Seq(Nat) /\ 0 \in Nat
  BY FixedNames
<1>4. e \in AllEvents
  BY <1>1, <1>2, <1>3 DEF AllEvents
<1>5. e.kind = kind /\ e.id = NoId /\ e.itemID = NoId /\ e.args = <<>>
  BY <1>1
<1> QED
  BY <1>4, <1>5 DEF PlainEvents, PassingEvents, IsPlain

\* So is a picture.
LEMMA PictureEvent == ASSUME NEW url \in Nat PROVE Picture(url) \in PassingEvents
<1> DEFINE e == Picture(url)
<1>1. e = [kind |-> "image", id |-> NoId, itemID |-> NoId, args |-> <<>>, url |-> url]
  BY DEF Picture, Event
<1>2. "image" \in Kinds /\ "image" \in BlockKinds /\ "image" \notin {"error", "done"}
  BY DEF Kinds, BlockKinds
<1>3. NoId \in Idents /\ <<>> \in Seq(Nat)
  BY FixedNames
<1>4. e \in AllEvents
  BY <1>1, <1>2, <1>3 DEF AllEvents
<1>5. e.kind = "image" /\ e.id = NoId /\ e.itemID = NoId /\ e.args = <<>>
  BY <1>1
<1> QED
  BY <1>2, <1>4, <1>5 DEF PlainEvents, PassingEvents, IsPlain

\* Without its duplicates a list of events is a list of events.
LEMMA DeduplicateType ==
  ASSUME NEW X, NEW events \in Seq(X)
  PROVE  DeduplicateMedia(events) \in Seq(X)
<1> DEFINE part(i) == IF events[i].kind \in {"image", "video"} /\ \E j \in 1..(i - 1) : events[j] = events[i]
                      THEN <<>> ELSE <<events[i]>>
           parts == [i \in DOMAIN events |-> part(i)]
<1>1. \A i \in DOMAIN events : part(i) \in Seq(X)
  OBVIOUS
<1>2. DeduplicateMedia(events) = FlattenSeq(parts)
  BY DEF DeduplicateMedia
<1> HIDE DEF part
<1>3. parts \in Seq(Seq(X))
  BY <1>1
<1> QED
  BY <1>2, <1>3, FlatType

\* What a message that is not about a tool call does to the parser.
PassesPlain(r, p, ends) ==
  /\ r.p \in Parsers /\ r.p.tools = p.tools /\ r.p.keys = p.keys
  /\ ~ends => r.p.done = p.done /\ r.events \in Seq(PassingEvents)
  /\ r.events \in Seq(PlainEvents)
  /\ ends => r.events # <<>> /\ r.events[Len(r.events)].kind \in {"error", "done"}

\* The updates of messages that are not about a tool call stay in the type.
LEMMA ParserUpdates ==
  ASSUME NEW p \in Parsers
  PROVE  /\ [p EXCEPT !.done = TRUE] \in Parsers /\ [p EXCEPT !.done = TRUE].tools = p.tools
         /\ [p EXCEPT !.done = TRUE].keys = p.keys
         /\ \A i \in SUBSET (Nat \X Nat) : /\ [p EXCEPT !.images = i] \in Parsers
                                           /\ [p EXCEPT !.images = i].tools = p.tools
                                           /\ [p EXCEPT !.images = i].keys = p.keys
                                           /\ [p EXCEPT !.images = i].done = p.done
BY DEF Parsers

\* One event, or none, is a list of events.
LEMMA PlainSequences ==
  /\ <<>> \in Seq(PassingEvents) /\ <<>> \in Seq(PlainEvents)
  /\ \A e \in PassingEvents : e \in PlainEvents /\ <<e>> \in Seq(PassingEvents) /\ <<e>> \in Seq(PlainEvents)
  /\ \A e \in PlainEvents : <<e>> \in Seq(PlainEvents)
<1>1. \A e \in PassingEvents : e \in PlainEvents
  BY DEF PassingEvents
<1> QED
  BY <1>1

\* A message that does not end the answer.
LEMMA PlainParse ==
  ASSUME NEW p \in Parsers, ~p.done, NEW m \in Plain
  PROVE  PassesPlain(Parse(p, m), p, FALSE)
<1> DEFINE r == Parse(p, m)
<1>0. \A q, events : Parsed(q, events).p = q /\ Parsed(q, events).events = events
  BY DEF Parsed
<1>1. ASSUME NEW type \in {"textDelta", "reasoningDelta", "malformed"}, m = Msg(type) PROVE PassesPlain(r, p, FALSE)
  <2>1. m.type = type
    BY <1>1 DEF Msg
  <2>2. \/ r = Parsed(p, <<>>) \/ r = Parsed(p, <<Event("reasoning")>>) \/ r = Parsed(p, <<Event("text")>>)
    BY <1>1, <2>1 DEF Parse
  <2>3. Event("text") \in PassingEvents /\ Event("reasoning") \in PassingEvents
    BY PlainEvent DEF Kinds
  <2>4. r.p = p /\ r.events \in {<<>>, <<Event("reasoning")>>, <<Event("text")>>}
    BY <1>0, <2>2
  <2> HIDE DEF r
  <2> QED
    BY <2>3, <2>4, PlainSequences DEF PassesPlain
<1>2. ASSUME NEW type \in {"partialImage", "imageDone"}, m = Msg(type) PROVE PassesPlain(r, p, FALSE)
  <2> DEFINE images == {i \in p.images : i[1] # m.tool} \cup {<<m.tool, m.url>>}
  <2>1. m.type = type /\ m.tool = 0 /\ m.url = 1
    BY <1>2 DEF Msg
  <2>2. r = ImageItem(p, m)
    BY <1>2, <2>1 DEF Parse
  <2>3. r = Parsed(p, <<>>) \/ r = Parsed([p EXCEPT !.images = images], <<Picture(1)>>)
    BY <2>1, <2>2 DEF ImageItem
  <2>4. images \in SUBSET (Nat \X Nat)
    BY <2>1 DEF Parsers
  <2>5. Picture(1) \in PassingEvents
    BY PictureEvent
  <2> HIDE DEF r, images
  <2>6. (r.p = p /\ r.events = <<>>) \/ (r.p = [p EXCEPT !.images = images] /\ r.events = <<Picture(1)>>)
    BY <1>0, <2>3
  <2>7. r.p \in Parsers /\ r.p.tools = p.tools /\ r.p.keys = p.keys /\ r.p.done = p.done
    <3>1. CASE r.p = p
      BY <3>1
    <3>2. CASE r.p = [p EXCEPT !.images = images]
      <4> DEFINE z == [p EXCEPT !.images = images]
      <4>1. z \in Parsers /\ z.tools = p.tools /\ z.keys = p.keys /\ z.done = p.done
        BY <2>4, ParserUpdates, Zenon
      <4> HIDE DEF z
      <4>2. r.p = z
        BY <3>2 DEF z
      <4> QED
        BY <4>1, <4>2, Zenon
    <3> QED
      BY <2>6, <3>1, <3>2
  <2> QED
    BY <2>5, <2>6, <2>7, PlainSequences DEF PassesPlain
<1> QED
  BY <1>1, <1>2 DEF Plain

\* A message that ends the answer.
LEMMA EndingParse ==
  ASSUME NEW p \in Parsers, ~p.done, NEW m \in Ending
  PROVE  PassesPlain(Parse(p, m), p, TRUE)
<1> DEFINE r == Parse(p, m)
           q == [p EXCEPT !.done = TRUE]
<1>0. \A x, events : Parsed(x, events).p = x /\ Parsed(x, events).events = events
  BY DEF Parsed
<1>1. m.type \in {"completed", "failed", "DONE", "error"} /\ (m.type = "completed" => m.usage)
  <2>1. \A type : Msg(type).type = type
    BY DEF Msg
  <2>2. [Msg("completed") EXCEPT !.usage = TRUE].type = "completed" /\ [Msg("completed") EXCEPT !.usage = TRUE].usage
    BY DEF Msg
  <2>3. m = [Msg("completed") EXCEPT !.usage = TRUE] \/ m = Msg("failed") \/ m = Msg("DONE") \/ m = Msg("error")
    BY DEF Ending
  <2>4. CASE m = [Msg("completed") EXCEPT !.usage = TRUE]
    BY <2>2, <2>4
  <2>5. CASE m = Msg("failed") \/ m = Msg("DONE") \/ m = Msg("error")
    BY <2>1, <2>5
  <2> QED
    BY <2>3, <2>4, <2>5
<1>2. /\ m.type = "DONE" => r = Parsed(q, <<Event("done")>>)
      /\ m.type = "error" => r = Parsed(p, <<Event("error")>>)
      /\ m.type = "failed" => r = Parsed(q, <<Event("error")>>)
      /\ m.type = "completed" => r = Parsed(q, <<Event("usage")>> \o <<Event("done")>>)
  BY <1>1 DEF Parse, Reported
<1>3. /\ Event("done") \in PlainEvents /\ Event("error") \in PlainEvents /\ Event("usage") \in PlainEvents
      /\ Event("done").kind \in {"error", "done"} /\ Event("error").kind \in {"error", "done"}
  BY PlainEvent DEF Kinds, Event
<1> HIDE DEF r, q
<1>4. r.p \in {p, q} /\ r.events \in {<<Event("done")>>, <<Event("error")>>, <<Event("usage")>> \o <<Event("done")>>}
  <2> HIDE DEF r
  <2>1. r = Parsed(q, <<Event("done")>>) \/ r = Parsed(p, <<Event("error")>>) \/ r = Parsed(q, <<Event("error")>>)
        \/ r = Parsed(q, <<Event("usage")>> \o <<Event("done")>>)
    BY <1>1, <1>2
  <2>2. CASE r = Parsed(q, <<Event("done")>>)
    <3>1. r.p = q /\ r.events = <<Event("done")>>
      BY <1>0, <2>2, Zenon
    <3> QED
      BY <3>1
  <2>3. CASE r = Parsed(p, <<Event("error")>>)
    <3>1. r.p = p /\ r.events = <<Event("error")>>
      BY <1>0, <2>3, Zenon
    <3> QED
      BY <3>1
  <2>4. CASE r = Parsed(q, <<Event("error")>>)
    <3>1. r.p = q /\ r.events = <<Event("error")>>
      BY <1>0, <2>4, Zenon
    <3> QED
      BY <3>1
  <2>5. CASE r = Parsed(q, <<Event("usage")>> \o <<Event("done")>>)
    <3>1. r.p = q /\ r.events = <<Event("usage")>> \o <<Event("done")>>
      BY <1>0, <2>5, Zenon
    <3> QED
      BY <3>1
  <2> QED
    BY <2>1, <2>2, <2>3, <2>4, <2>5
<1>5. q \in Parsers /\ q.tools = p.tools /\ q.keys = p.keys
  BY ParserUpdates DEF q
<1>6. \A a, b \in PlainEvents : <<a>> \in Seq(PlainEvents) /\ <<a>> # <<>> /\ <<a>>[Len(<<a>>)] = a
                                 /\ <<a>> \o <<b>> \in Seq(PlainEvents) /\ <<a>> \o <<b>> # <<>>
                                 /\ (<<a>> \o <<b>>)[Len(<<a>> \o <<b>>)] = b
  OBVIOUS
<1>7. r.events \in Seq(PlainEvents) /\ r.events # <<>> /\ r.events[Len(r.events)] \in {Event("done"), Event("error")}
  <2> DEFINE d == Event("done")
             e == Event("error")
             u == Event("usage")
  <2>1. d \in PlainEvents /\ e \in PlainEvents /\ u \in PlainEvents
    BY <1>3
  <2>2. r.events = <<d>> \/ r.events = <<e>> \/ r.events = <<u>> \o <<d>>
    BY <1>4
  <2> HIDE DEF d, e, u
  <2>3. r.events \in Seq(PlainEvents) /\ r.events # <<>> /\ r.events[Len(r.events)] \in {d, e}
    <3>1. CASE r.events = <<d>>
      BY <1>6, <2>1, <3>1
    <3>2. CASE r.events = <<e>>
      BY <1>6, <2>1, <3>2
    <3>3. CASE r.events = <<u>> \o <<d>>
      BY <1>6, <2>1, <3>3
    <3> QED
      BY <2>2, <3>1, <3>2, <3>3
  <2> QED
    BY <2>3 DEF d, e
<1>8. r.events[Len(r.events)].kind \in {"error", "done"}
  BY <1>3, <1>7
<1> QED
  BY <1>4, <1>5, <1>7, <1>8 DEF PassesPlain, r

\* The fields of the messages of grok.com.
GrokMessage(m, error, token, media, final) ==
  /\ m.type = "grok" /\ m.url = 1 /\ m.usage = final
  /\ m.error = error /\ m.token = token /\ m.media = media /\ m.final = final

\* The messages of Grok Web.
LEMMA GrokParse ==
  ASSUME NEW p \in Parsers, ~p.done, NEW m \in GrokPlain \cup GrokEnding
  PROVE  PassesPlain(Parse(p, m), p, m \in GrokEnding)
<1> DEFINE r == Parse(p, m)
           q == [p EXCEPT !.done = TRUE]
           media == [i \in 1..Len(m.media) |-> IF m.media[i] = "video" THEN Event("video") ELSE Picture(m.url)]
           token == IF m.token = "" THEN <<>> ELSE <<Event(m.token)>>
           final == Reported(m) \o (IF m.final THEN <<Event("done")>> ELSE <<>>)
<1>0. \A x, events : Parsed(x, events).p = x /\ Parsed(x, events).events = events
  BY DEF Parsed
<1>1. \/ m \in GrokPlain /\ \E t \in {"text", "reasoning"} : GrokMessage(m, FALSE, t, <<>>, FALSE)
      \/ m \in GrokPlain /\ GrokMessage(m, FALSE, "", <<"video", "image", "image">>, FALSE)
      \/ GrokMessage(m, FALSE, "", <<>>, TRUE)
      \/ GrokMessage(m, TRUE, "", <<>>, FALSE)
  BY DEF GrokPlain, GrokEnding, Msg, GrokMessage
<1>2. m \in GrokEnding <=> (m.final = TRUE \/ m.error = TRUE)
  <2>1. m \in GrokEnding => m.final = TRUE \/ m.error = TRUE
    BY DEF GrokEnding, Msg
  <2>2. m \in GrokPlain => m.final = FALSE /\ m.error = FALSE
    BY DEF GrokPlain, Msg
  <2> QED
    BY <2>1, <2>2
<1>3. r = IF m.error THEN Parsed(p, <<Event("error")>>)
          ELSE Parsed([p EXCEPT !.done = @ \/ m.final], DeduplicateMedia(media \o token) \o final)
  <2>1. m.type = "grok"
    BY <1>1 DEF GrokMessage
  <2>2. r = GrokWebEvents(p, m)
    BY <2>1 DEF Parse
  <2> QED
    BY <2>2, Zenon DEF GrokWebEvents
<1>4. p.done = FALSE /\ [p EXCEPT !.done = FALSE] = p
  BY DEF Parsers
<1>5. \A kind \in {"text", "reasoning", "video"} : Event(kind) \in PassingEvents
  BY PlainEvent DEF Kinds
<1>6. /\ Event("done") \in PlainEvents /\ Event("error") \in PlainEvents /\ Event("usage") \in PlainEvents
      /\ Event("done").kind \in {"error", "done"} /\ Event("error").kind \in {"error", "done"}
  BY PlainEvent DEF Kinds, Event
<1>7. Picture(1) \in PassingEvents
  BY PictureEvent
<1> HIDE DEF r
<1>8. CASE m.error = TRUE
  <2>1. m \in GrokEnding /\ r = Parsed(p, <<Event("error")>>)
    BY <1>2, <1>3, <1>8
  <2>2. r.p = p /\ r.events = <<Event("error")>>
    BY <1>0, <2>1, Zenon
  <2> DEFINE e == Event("error")
  <2>3. e \in PlainEvents /\ e.kind \in {"error", "done"} /\ r.events = <<e>>
    BY <1>6, <2>2
  <2> HIDE DEF e
  <2>4. r.events \in Seq(PlainEvents) /\ r.events # <<>> /\ r.events[Len(r.events)].kind \in {"error", "done"}
    BY <2>3
  <2> QED
    BY <2>1, <2>2, <2>4 DEF PassesPlain, r
<1>9. CASE m.error = FALSE
  <2> DEFINE body == DeduplicateMedia(media \o token)
  <2>1. r = Parsed([p EXCEPT !.done = @ \/ m.final], body \o final)
    BY <1>3, <1>9
  <2>2. media \in Seq(PassingEvents)
    <3>1. m.url = 1 /\ Len(m.media) \in Nat
      BY <1>1 DEF GrokMessage
    <3>2. \A i \in 1..Len(m.media) : (IF m.media[i] = "video" THEN Event("video") ELSE Picture(m.url)) \in PassingEvents
      BY <1>5, <1>7, <3>1
    <3> QED
      BY <3>1, <3>2
  <2>3. token \in Seq(PassingEvents)
    <3>1. m.token \in {"text", "reasoning", ""}
      BY <1>1 DEF GrokMessage
    <3>2. CASE m.token = ""
      <4>1. token = <<>>
        BY <3>2
      <4> HIDE DEF token
      <4> QED
        BY <4>1
    <3>3. CASE m.token \in {"text", "reasoning"}
      <4>1. Event(m.token) \in PassingEvents
        BY <1>5, <3>3
      <4>2. m.token # ""
        BY <3>3
      <4>3. token = <<Event(m.token)>>
        BY <4>2
      <4> HIDE DEF token
      <4> QED
        BY <4>1, <4>3
    <3> QED
      BY <3>1, <3>2, <3>3
  <2>4. body \in Seq(PassingEvents)
    <3>1. media \o token \in Seq(PassingEvents)
      <4> HIDE DEF media, token
      <4> QED
        BY <2>2, <2>3
    <3> HIDE DEF media, token
    <3> QED
      BY <3>1, DeduplicateType
  <2> HIDE DEF media, token, body
  <2>5. CASE m.final = TRUE
    <3> DEFINE u == Event("usage")
               d == Event("done")
    <3>1. m.usage = TRUE
      BY <1>1, <1>9, <2>5 DEF GrokMessage
    <3>2. final = <<u>> \o <<d>>
      BY <2>5, <3>1 DEF Reported
    <3>3. u \in PlainEvents /\ d \in PlainEvents /\ d.kind \in {"error", "done"}
      BY <1>6
    <3>4. [p EXCEPT !.done = @ \/ m.final] = q
      BY <2>5
    <3>5. r.p = q /\ r.events = body \o final
      BY <1>0, <2>1, <3>4, Zenon
    <3>6. q \in Parsers /\ q.tools = p.tools /\ q.keys = p.keys
      BY ParserUpdates
    <3>7. body \in Seq(PlainEvents)
      BY <2>4 DEF PassingEvents
    <3> HIDE DEF u, d, q, final
    <3>8. /\ body \o (<<u>> \o <<d>>) \in Seq(PlainEvents)
          /\ body \o (<<u>> \o <<d>>) # <<>>
          /\ (body \o (<<u>> \o <<d>>))[Len(body \o (<<u>> \o <<d>>))] = d
      BY <3>3, <3>7
    <3>9. r.events \in Seq(PlainEvents) /\ r.events # <<>> /\ r.events[Len(r.events)].kind \in {"error", "done"}
      BY <3>2, <3>3, <3>5, <3>8
    <3>10. m \in GrokEnding
      BY <1>2, <2>5
    <3> QED
      BY <3>5, <3>6, <3>9, <3>10 DEF PassesPlain, r
  <2>6. CASE m.final = FALSE
    <3>1. m.usage = FALSE
      BY <1>1, <2>6 DEF GrokMessage
    <3>2. final = <<>> \o <<>>
      BY <2>6, <3>1 DEF Reported
    <3>3. [p EXCEPT !.done = @ \/ m.final] = p
      BY <1>4, <2>6
    <3>4. r.p = p /\ r.events = body \o final
      BY <1>0, <2>1, <3>3, Zenon
    <3>5. body \o (<<>> \o <<>>) = body
      BY <2>4
    <3>6. body \in Seq(PlainEvents)
      BY <2>4 DEF PassingEvents
    <3> HIDE DEF final
    <3>7. r.events \in Seq(PassingEvents) /\ r.events \in Seq(PlainEvents)
      BY <2>4, <3>2, <3>4, <3>5, <3>6
    <3>8. m \notin GrokEnding
      BY <1>2, <1>9, <2>6
    <3> QED
      BY <3>4, <3>7, <3>8 DEF PassesPlain, r
  <2>7. m.final = TRUE \/ m.final = FALSE
    BY <1>1 DEF GrokMessage
  <2> QED
    BY <2>5, <2>6, <2>7
<1>10. m.error = TRUE \/ m.error = FALSE
  BY <1>1 DEF GrokMessage
<1> QED
  BY <1>8, <1>9, <1>10
=============================================================================
