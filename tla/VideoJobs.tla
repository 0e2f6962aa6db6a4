------------------------------ MODULE VideoJobs ------------------------------
(***************************************************************************)
(* A video job of one instance: its row in PostgreSQL, the goroutine that  *)
(* polls the upstream and keeps the account's lease meanwhile, the job the *)
(* client of grok.com keeps in memory, and what a start of this or of      *)
(* another instance does to the row.                                       *)
(*                                                                         *)
(* Module Gateway makes the job and hands the lease over.                  *)
(***************************************************************************)
EXTENDS Integers, FiniteSets

CONSTANTS
  Accounts,
  NoAccount,
  Sso,             \* accounts of kind grok_sso; the others query the upstream for a status
  Proxied,         \* accounts with a proxy
  Unfinished,      \* statuses an upstream reports for a job that still runs
  MaxFaults,       \* failed saves, lookups and fetches of pictures
  MaxCrashes

ASSUME VideoAssumption ==
  /\ Sso \subseteq Accounts /\ Proxied \subseteq Accounts /\ NoAccount \notin Accounts
  /\ Unfinished \cap {"completed", "failed", "none"} = {}
  /\ MaxFaults \in Nat /\ MaxCrashes \in Nat

VARIABLES
  lease,     \* the lease in use: its account, what Release was told, and how often
  row,       \* the status stored for the job, "none" before it is stored
  job,       \* the status the poller holds
  next,      \* the status it is about to store
  grok,      \* the status of the job in the memory of the client of grok.com
  poller,    \* the polling goroutine
  expired,   \* its timeout has passed
  process,   \* the process of the instance: "up", "stopping" or "down"
  restarted, \* the row has lived through a start of its owner
  unsaved,   \* a save of the job has failed
  faults, crashes

videoVars == <<lease, row, job, next, grok, poller, expired, process, restarted, unsaved, faults, crashes>>

Completed == {"completed"}
Failed    == {"failed"}
Terminal  == Completed \cup Failed          \* videoStatusTerminal
NotYet    == Unfinished \cup {"queued", "in_progress"}
\* The statuses FailInterruptedVideos knows as unfinished.
Interruptible == {"queued", "in_progress", "processing", "running"}

NoLease == [account |-> NoAccount, feedback |-> "none", releases |-> 0]
\* Lease.Release
Released(feedback) == [lease EXCEPT !.feedback = feedback, !.releases = @ + 1]

Polling == poller # "none"
Stopped == expired \/ process # "up"        \* the poller's context is done

VideoInit ==
  /\ lease = NoLease /\ row = "none" /\ job = "none" /\ next = "none"
  /\ grok = "none" /\ poller = "none" /\ expired = FALSE /\ process = "up"
  /\ restarted = FALSE /\ unsaved = FALSE /\ faults = 0 /\ crashes = 0

\* startGrokVideo: the job is queued and a goroutine of the client runs it.
StartGrokVideo == grok' = "queued"

(* runGrokVideo, step by step for its poller: it begins, and ends completed or failed; it
   fails too when the service stops or its own timeout passes. *)
RunGrokVideo ==
  /\ process # "down"
  /\ \/ grok = "queued" /\ grok' = "in_progress"
     \/ grok = "in_progress" /\ grok' \in Terminal
  /\ UNCHANGED <<lease, row, job, next, poller, expired, process, restarted, unsaved, faults, crashes>>

\* The client forgets a job an hour after its end, long after its poller has timed out.
ForgetGrokVideo ==
  /\ grok \in Terminal /\ ~Polling /\ grok' = "none"
  /\ UNCHANGED <<lease, row, job, next, poller, expired, process, restarted, unsaved, faults, crashes>>

-----------------------------------------------------------------------------
\* SaveVideo: the row takes the status, whatever it was.
SaveVideo(status) == row' = status /\ UNCHANGED <<unsaved, faults>>
SaveVideoFails == faults < MaxFaults /\ faults' = faults + 1 /\ unsaved' = TRUE /\ UNCHANGED row

\* Mutant: the deferred release is forgotten.
EndPollingKeepsLease(feedback) ==
  /\ poller' = "none" /\ job' = "none" /\ next' = "none" /\ expired' = FALSE
  /\ UNCHANGED lease

\* The poller returns: its deferred calls cancel its context and release the lease.
EndPolling(feedback) ==
  /\ poller' = "none" /\ job' = "none" /\ next' = "none" /\ expired' = FALSE
  /\ lease' = Released(feedback)

\* Mutant: the poller gives up and leaves the row as it is.
FailVideoPollingSilently(feedback) ==
  /\ EndPolling(feedback)
  /\ UNCHANGED <<row, unsaved, faults, grok, process, restarted, crashes>>

\* failVideoPolling, then the poller returns.
FailVideoPolling(feedback) ==
  /\ SaveVideo("failed") \/ SaveVideoFails
  /\ EndPolling(feedback)
  /\ UNCHANGED <<grok, process, restarted, crashes>>

\* pollVideo begins: the proxy of the account is resolved, or the job is given up.
PollStarts ==
  /\ poller = "start" /\ poller' = "wait"
  /\ lease.account \in Proxied => ~Stopped
  /\ UNCHANGED <<lease, row, job, next, grok, expired, process, restarted, unsaved, faults, crashes>>
PollProxyFails ==
  /\ poller = "start" /\ lease.account \in Proxied
  /\ FailVideoPolling("failed")

\* The timeout of the poller passes.
PollDeadline ==
  /\ Polling /\ ~Stopped /\ expired' = TRUE
  /\ UNCHANGED <<lease, row, job, next, grok, poller, process, restarted, unsaved, faults, crashes>>

(* The context is done.  A timeout fails the job; a stopping service returns and leaves the row
   to the next start.  The lease has been used without fault, and is released so. *)
PollExpires ==
  /\ poller \in {"wait", "drain"} /\ expired
  /\ FailVideoPolling("failed")
PollStops ==
  /\ poller \in {"wait", "drain"} /\ ~expired /\ process # "up"
  /\ EndPolling("ok")
  /\ UNCHANGED <<row, grok, process, restarted, unsaved, faults, crashes>>

PollTimer ==
  /\ poller = "wait" /\ poller' = "query"
  /\ UNCHANGED <<lease, row, job, next, grok, expired, process, restarted, unsaved, faults, crashes>>

(* The status query, which for an SSO account only reads the memory of the client.  A query or a
   fetch of a picture that fails because the context is done does not set the timer again; any
   other failure, a 404, a 429, a 5xx or a body without a job waits for the next round; another
   4xx gives up. *)
PollAgain ==
  /\ poller = "query"
  /\ poller' \in {"wait"} \cup IF Stopped THEN {"drain"} ELSE {}
  /\ UNCHANGED <<lease, row, job, next, grok, expired, process, restarted, unsaved, faults, crashes>>
PollRejected ==
  /\ poller = "query" /\ ~Stopped /\ lease.account \notin Sso
  /\ FailVideoPolling("failed")
PollAnswered ==
  /\ poller = "query"
  /\ lease.account \notin Sso => ~Stopped
  /\ \E status \in NotYet \cup Terminal :
       /\ lease.account \in Sso => status = grok
       /\ next' = status
  /\ poller' = "save"
  /\ UNCHANGED <<lease, row, job, grok, expired, process, restarted, unsaved, faults, crashes>>

\* The answer is stored; a terminal one ends the poller.
PollSaves ==
  /\ poller = "save" /\ ~Stopped
  /\ SaveVideo(next)
  /\ IF next \in Terminal
     THEN EndPolling(IF next \in Failed THEN "failed" ELSE "ok")
     ELSE poller' = "wait" /\ job' = next /\ next' = "none" /\ UNCHANGED <<lease, expired>>
  /\ UNCHANGED <<grok, process, restarted, crashes>>
PollSaveFails ==
  /\ poller = "save"
  /\ Stopped \/ faults < MaxFaults
  /\ faults' = IF Stopped THEN faults ELSE faults + 1
  /\ poller' = "wait" /\ next' = "none"
  /\ UNCHANGED <<lease, row, job, grok, expired, process, restarted, unsaved, crashes>>

Poll == \/ PollStarts \/ PollProxyFails \/ PollDeadline \/ PollExpires \/ PollStops
        \/ PollTimer \/ PollAgain \/ PollRejected \/ PollAnswered \/ PollSaves \/ PollSaveFails

-----------------------------------------------------------------------------
\* The service is asked to stop: the context of its goroutines is done.
Stop ==
  /\ process = "up" /\ crashes < MaxCrashes /\ process' = "stopping"
  /\ UNCHANGED <<lease, row, job, next, grok, poller, expired, restarted, unsaved, faults, crashes>>

\* The process ends, by itself or not: what it had in memory is gone.
VideoDies ==
  /\ process' = "down" /\ crashes' = crashes + 1
  /\ grok' = "none" /\ poller' = "none" /\ job' = "none" /\ next' = "none" /\ expired' = FALSE
  /\ lease' = NoLease
  /\ UNCHANGED <<row, restarted, unsaved, faults>>

(* FailInterruptedVideos at the start of the instance called owner.  The row belongs to "me";
   rows that name no owner are from before the column and are not made any more. *)
FailInterruptedVideos(owner) ==
  row' = IF owner = "me" /\ row \in Interruptible THEN "failed" ELSE row

Restart ==
  /\ process = "down" /\ process' = "up"
  /\ FailInterruptedVideos("me")
  /\ restarted' = (restarted \/ row # "none")
  /\ UNCHANGED <<lease, job, next, grok, poller, expired, unsaved, faults, crashes>>
PeerStarts ==
  /\ FailInterruptedVideos("peer")
  /\ UNCHANGED <<lease, job, next, grok, poller, expired, process, restarted, unsaved, faults, crashes>>

-----------------------------------------------------------------------------
(* The row of a polled job is what its poller stored last: a start of another instance does not
   fail a job that is still running here. *)
RowFollowsPoller == Polling => row = job

(* A stored job that is not finished has a poller, or the process that had it is gone or going,
   or a save of it failed, or its status is one a start does not know as unfinished. *)
JobHasPoller ==
  row \in NotYet /\ process = "up" =>
    Polling \/ unsaved \/ (restarted /\ row \notin Interruptible)

(* "Interrupted video jobs owned by a restarted instance are marked failed instead of remaining
   indefinitely active" (README.md). *)
InterruptedJobsFail == restarted /\ process = "up" => row \in Terminal
=============================================================================
