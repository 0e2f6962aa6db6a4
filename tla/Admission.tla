------------------------------ MODULE Admission ------------------------------
(***************************************************************************)
(* The middlewares around the gateway of one instance, in their order: the *)
(* process-wide concurrency gate, the limits of one client API key kept in *)
(* Redis, the request log with its asynchronous sink, and the shutdown of  *)
(* the process, which closes that sink while requests may still run.       *)
(*                                                                         *)
(* The gateway itself is one step here that leaves usage or none; module   *)
(* Gateway models it.  Tokens are counted in requests that reported usage. *)
(***************************************************************************)
EXTENDS Integers, Sequences, FiniteSets, FiniteSetsExt

CONSTANTS
  Requests,         \* requests made with the client key
  Limits,           \* values max_concurrency takes while the process runs
  KeyLimit,         \* concurrency limit of the key
  RPM, DailyLimit,  \* its request limits
  MonthlyLimit,     \* its token limit, in requests that reported usage
  Workers,          \* workers of the log sink
  QueueCapacity,    \* places in its queue
  NoRequest,        \* a worker has nothing in hand
  MaxFaults         \* failed calls

ASSUME AdmissionAssumption ==
  /\ Limits \subseteq Nat \ {0} /\ \E l \in Limits : \A m \in Limits : m <= l
  /\ {KeyLimit, RPM, DailyLimit, MonthlyLimit, QueueCapacity} \subseteq Nat \ {0}
  /\ NoRequest \notin Requests /\ MaxFaults \in Nat
  /\ IsFiniteSet(Requests) /\ IsFiniteSet(Workers) /\ Workers # {}

VARIABLES
  limit,       \* max_concurrency of the active runtime settings
  active,      \* the counter of DynamicConcurrency
  at,          \* at[r]: where request r is, see Places
  seen,        \* seen[r]: the limit r read
  usage,       \* usage[r]: the completion tracker holds parsed usage
  window,      \* the counters of the minute and of the day, in Redis
  month,       \* the token counter of the month
  slots,       \* the concurrency counter of the key; 0: no such key
  outlived,    \* that counter expired under a request it had counted
  queue,       \* the channel of the log sink
  closed,      \* and whether Close has closed it
  hand,        \* hand[w]: the entry worker w is writing
  exited,      \* workers that have returned
  entry,       \* entry[r]: what became of the log entry of r
  phase,       \* how far the process has come to its end
  faults

gateVars == <<limit, active, seen>>
keyVars  == <<window, month, slots, outlived>>
sinkVars == <<queue, closed, hand, exited>>
vars == <<limit, active, at, seen, usage, window, month, slots, outlived, queue, closed,
          hand, exited, entry, phase, faults>>

Places == {"idle", "limit", "over", "auth", "slot", "serve", "log", "settle", "unslot",
           "exit", "done", "killed"}
\* Requests the gate has counted, the ones it let in, and the ones with a slot.
Counted == {r \in Requests : at[r] \in {"over", "auth", "slot", "serve", "log", "settle",
                                        "unslot", "exit"}}
Inside  == {r \in Counted : at[r] # "over"}
Holders == {r \in Requests : at[r] \in {"serve", "log", "settle", "unslot"}}

TypeOK ==
  /\ limit \in Limits /\ active \in Nat
  /\ at \in [Requests -> Places]
  /\ seen \in [Requests -> Limits \cup {0}]
  /\ usage \in [Requests -> BOOLEAN]
  /\ window \in [{"minute", "day"} -> Nat] /\ month \in Nat
  /\ slots \in 0..KeyLimit /\ outlived \in BOOLEAN
  /\ queue \in Seq(Requests) /\ Len(queue) <= QueueCapacity
  /\ closed \in BOOLEAN
  /\ hand \in [Workers -> Requests \cup {NoRequest}]
  /\ exited \subseteq Workers
  /\ entry \in [Requests -> {"none", "accepted", "written", "failed", "dropped", "refused"}]
  /\ phase \in {"serving", "draining", "drained", "flushing", "flushed", "late", "exited"}
  /\ faults \in 0..MaxFaults

Init ==
  /\ limit \in Limits /\ active = 0
  /\ at = [r \in Requests |-> "idle"]
  /\ seen = [r \in Requests |-> 0]
  /\ usage = [r \in Requests |-> FALSE]
  /\ window = [w \in {"minute", "day"} |-> 0] /\ month = 0
  /\ slots = 0 /\ outlived = FALSE
  /\ queue = <<>> /\ closed = FALSE
  /\ hand = [w \in Workers |-> NoRequest] /\ exited = {}
  /\ entry = [r \in Requests |-> "none"]
  /\ phase = "serving" /\ faults = 0

Fault == faults < MaxFaults /\ faults' = faults + 1
Running == phase # "exited"
GoTo(r, place) == at' = [at EXCEPT ![r] = place]
(***************************************************************************)
(* DynamicConcurrency: read the limit, count, compare.                     *)
(***************************************************************************)
ChangeLimit ==
  /\ phase = "serving"
  /\ \E l \in Limits \ {limit} : limit' = l
  /\ UNCHANGED <<active, at, seen, usage, keyVars, sinkVars, entry, phase, faults>>

ReadLimit(r) ==
  /\ at[r] = "idle" /\ phase = "serving"
  /\ GoTo(r, "limit")
  /\ seen' = [seen EXCEPT ![r] = limit]
  /\ UNCHANGED <<limit, active, usage, keyVars, sinkVars, entry, phase, faults>>

EnterGate(r) ==
  /\ at[r] = "limit" /\ Running
  /\ active' = active + 1
  /\ GoTo(r, IF active + 1 > seen[r] THEN "over" ELSE "auth")
  /\ seen' = [seen EXCEPT ![r] = 0]
  /\ UNCHANGED <<limit, usage, keyVars, sinkVars, entry, phase, faults>>

\* Mutant: the decrement is missing.
LeaveUncounted(r) == GoTo(r, "done") /\ UNCHANGED active

\* The refusal takes the request back, the deferred call the others.
LeaveGate(r) == GoTo(r, "done") /\ active' = active - 1

RefuseAtGate(r) ==
  /\ at[r] = "over" /\ Running
  /\ LeaveGate(r)
  /\ UNCHANGED <<limit, seen, usage, keyVars, sinkVars, entry, phase, faults>>

ExitGate(r) ==
  /\ at[r] = "exit" /\ Running
  /\ LeaveGate(r)
  /\ UNCHANGED <<limit, seen, usage, keyVars, sinkVars, entry, phase, faults>>
(***************************************************************************)
(* The client key: authentication and the fixed windows.  A count that is  *)
(* over its limit has been counted all the same, and ends the checks.      *)
(***************************************************************************)
AuthFails(r) ==
  /\ at[r] = "auth" /\ Running
  /\ GoTo(r, "exit")
  /\ UNCHANGED <<gateVars, usage, keyVars, sinkVars, entry, phase, faults>>

CheckWindows(r) ==
  /\ at[r] = "auth" /\ Running
  /\ LET minute == window["minute"] + 1
         day == window["day"] + 1
     IN  /\ window' = [minute |-> minute, day |-> IF minute <= RPM THEN day ELSE window["day"]]
         /\ GoTo(r, IF minute <= RPM /\ day <= DailyLimit /\ month < MonthlyLimit
                      THEN "slot" ELSE "exit")
  /\ UNCHANGED <<gateVars, usage, month, slots, outlived, sinkVars, entry, phase, faults>>

\* The error of a counter refuses the request, counted or not.
WindowsFail(r) ==
  /\ Fault
  /\ at[r] = "auth" /\ Running
  /\ GoTo(r, "exit")
  /\ window' \in {window, [window EXCEPT !["minute"] = @ + 1]}
  /\ UNCHANGED <<gateVars, usage, month, slots, outlived, sinkVars, entry, phase>>
(***************************************************************************)
(* The slots of the key: one counter, one TTL that every acquisition       *)
(* restarts, no owners.                                                    *)
(***************************************************************************)
AcquireSlot(r) ==
  /\ at[r] = "slot" /\ Running
  /\ IF slots < KeyLimit
       THEN slots' = slots + 1 /\ GoTo(r, "serve")
       ELSE UNCHANGED slots /\ GoTo(r, "exit")
  /\ UNCHANGED <<gateVars, usage, window, month, outlived, sinkVars, entry, phase, faults>>

\* Mutant: the deferred release is registered before the error is looked at.
SlotUnavailableReleases(r) ==
  /\ Fault
  /\ at[r] = "slot" /\ Running
  /\ GoTo(r, "unslot")
  /\ slots' \in {slots, IF slots < KeyLimit THEN slots + 1 ELSE slots}
  /\ UNCHANGED <<gateVars, usage, window, month, outlived, sinkVars, entry, phase>>

\* The reply is lost: the slot may be counted, and nobody will release it.
SlotUnavailable(r) ==
  /\ Fault
  /\ at[r] = "slot" /\ Running
  /\ GoTo(r, "exit")
  /\ slots' \in {slots, IF slots < KeyLimit THEN slots + 1 ELSE slots}
  /\ UNCHANGED <<gateVars, usage, window, month, outlived, sinkVars, entry, phase>>

\* One less, and the key is deleted instead of counting below one.
ReleaseSlot == slots' = IF slots <= 1 THEN 0 ELSE slots - 1

LeaveSlot(r) ==
  /\ at[r] = "unslot" /\ Running
  /\ ReleaseSlot
  /\ GoTo(r, "exit")
  /\ UNCHANGED <<gateVars, usage, window, month, outlived, sinkVars, entry, phase, faults>>

LeaveSlotFails(r) ==
  /\ Fault
  /\ at[r] = "unslot" /\ Running
  /\ GoTo(r, "exit")
  /\ UNCHANGED <<gateVars, usage, keyVars, sinkVars, entry, phase>>

\* Mutant: the counter is incremented without PEXPIRE.
SlotsStay == FALSE /\ UNCHANGED vars

\* concurrencySlotTTL after the last acquisition the counter disappears; a
\* request that retries, or whose client reads slowly, can outlive it.
SlotsExpire ==
  /\ slots > 0
  /\ slots' = 0
  /\ outlived' = (outlived \/ Holders # {})
  /\ UNCHANGED <<gateVars, at, usage, window, month, sinkVars, entry, phase, faults>>
(***************************************************************************)
(* The gateway, then the log entry, then the settlement of the tokens; a   *)
(* panic of the handler skips both, the deferred calls run.                *)
(***************************************************************************)
ServeRequest(r) ==
  /\ at[r] = "serve" /\ Running
  /\ GoTo(r, "log")
  /\ \E parsed \in BOOLEAN : usage' = [usage EXCEPT ![r] = parsed]
  /\ UNCHANGED <<gateVars, keyVars, sinkVars, entry, phase, faults>>

ServePanics(r) ==
  /\ Fault
  /\ at[r] = "serve" /\ Running
  /\ GoTo(r, "unslot")
  /\ UNCHANGED <<gateVars, usage, keyVars, sinkVars, entry, phase>>

\* AsyncSink.CreateRequestLog: refused after Close, dropped when full.
CreateRequestLog(r) ==
  /\ at[r] = "log" /\ Running
  /\ GoTo(r, IF usage[r] THEN "settle" ELSE "unslot")
  /\ IF closed
       THEN entry' = [entry EXCEPT ![r] = "refused"] /\ UNCHANGED queue
       ELSE IF Len(queue) < QueueCapacity
         THEN entry' = [entry EXCEPT ![r] = "accepted"] /\ queue' = Append(queue, r)
         ELSE entry' = [entry EXCEPT ![r] = "dropped"] /\ UNCHANGED queue
  /\ UNCHANGED <<gateVars, usage, keyVars, closed, hand, exited, phase, faults>>

Settle(r) ==
  /\ at[r] = "settle" /\ Running
  /\ month' = month + 1
  /\ GoTo(r, "unslot")
  /\ usage' = [usage EXCEPT ![r] = FALSE]
  /\ UNCHANGED <<gateVars, window, slots, outlived, sinkVars, entry, phase, faults>>

SettleFails(r) ==
  /\ Fault
  /\ at[r] = "settle" /\ Running
  /\ GoTo(r, "unslot")
  /\ usage' = [usage EXCEPT ![r] = FALSE]
  /\ UNCHANGED <<gateVars, keyVars, sinkVars, entry, phase>>
(***************************************************************************)
(* The workers of the sink: range over the channel, one write per entry,   *)
(* whose error is ignored.                                                 *)
(***************************************************************************)
TakeEntry(w) ==
  /\ Running /\ w \notin exited
  /\ hand[w] = NoRequest /\ queue # <<>>
  /\ hand' = [hand EXCEPT ![w] = Head(queue)]
  /\ queue' = Tail(queue)
  /\ UNCHANGED <<gateVars, at, usage, keyVars, closed, exited, entry, phase, faults>>

WriteEntry(w) ==
  /\ Running
  /\ hand[w] # NoRequest
  /\ entry' = [entry EXCEPT ![hand[w]] = "written"]
  /\ hand' = [hand EXCEPT ![w] = NoRequest]
  /\ UNCHANGED <<gateVars, at, usage, keyVars, queue, closed, exited, phase, faults>>

WriteFails(w) ==
  /\ Running /\ Fault
  /\ hand[w] # NoRequest
  /\ entry' = [entry EXCEPT ![hand[w]] = "failed"]
  /\ hand' = [hand EXCEPT ![w] = NoRequest]
  /\ UNCHANGED <<gateVars, at, usage, keyVars, queue, closed, exited, phase>>

\* Mutant: the worker looks at the flag instead of ranging over the channel.
DrainedIgnoringQueue(w) == closed /\ hand[w] = NoRequest

\* The loop over a closed channel ends when the channel is empty.
Drained(w) == closed /\ hand[w] = NoRequest /\ queue = <<>>

WorkerExits(w) ==
  /\ Running /\ w \notin exited /\ Drained(w)
  /\ exited' = exited \cup {w}
  /\ UNCHANGED <<gateVars, at, usage, keyVars, queue, closed, hand, entry, phase, faults>>
(***************************************************************************)
(* The end of Run: Shutdown stops accepting and waits for the requests, at *)
(* most 20 s; the deferred calls close the sink, at most 15 s, and then    *)
(* Redis and the database.                                                 *)
(***************************************************************************)
Finished(r) == at[r] \in {"idle", "done"}

Shutdown ==
  /\ phase = "serving"
  /\ phase' = "draining"
  /\ UNCHANGED <<gateVars, at, usage, keyVars, sinkVars, entry, faults>>

ShutdownReturns ==
  /\ phase = "draining"
  /\ \/ (\A r \in Requests : Finished(r)) /\ UNCHANGED faults
     \/ Fault
  /\ phase' = "drained"
  /\ UNCHANGED <<gateVars, at, usage, keyVars, sinkVars, entry>>

CloseSink ==
  /\ phase = "drained"
  /\ closed' = TRUE /\ phase' = "flushing"
  /\ UNCHANGED <<gateVars, at, usage, keyVars, queue, hand, exited, entry, faults>>

CloseReturns ==
  /\ phase = "flushing"
  /\ \/ exited = Workers /\ phase' = "flushed" /\ UNCHANGED faults
     \/ phase' = "late" /\ Fault
  /\ UNCHANGED <<gateVars, at, usage, keyVars, sinkVars, entry>>

\* What still runs ends with the process; its slots stay counted in Redis.
Exit ==
  /\ phase \in {"flushed", "late"}
  /\ phase' = "exited"
  /\ at' = [r \in Requests |-> IF Finished(r) THEN at[r] ELSE "killed"]
  /\ active' = 0
  /\ UNCHANGED <<limit, seen, usage, keyVars, sinkVars, entry, faults>>

RequestStep(r) ==
  \/ EnterGate(r) \/ RefuseAtGate(r) \/ ExitGate(r) \/ AuthFails(r) \/ CheckWindows(r)
  \/ AcquireSlot(r) \/ LeaveSlot(r) \/ ServeRequest(r) \/ CreateRequestLog(r) \/ Settle(r)

RequestFails(r) ==
  \/ WindowsFail(r) \/ SlotUnavailable(r) \/ LeaveSlotFails(r) \/ ServePanics(r)
  \/ SettleFails(r)

WorkerStep(w) == TakeEntry(w) \/ WriteEntry(w) \/ WorkerExits(w)
EndStep == ShutdownReturns \/ CloseSink \/ CloseReturns \/ Exit

Next ==
  \/ ChangeLimit \/ SlotsExpire \/ Shutdown \/ EndStep
  \/ \E r \in Requests : ReadLimit(r) \/ RequestStep(r) \/ RequestFails(r)
  \/ \E w \in Workers : WorkerStep(w) \/ WriteFails(w)

Spec == Init /\ [][Next]_vars

\* Handlers and workers go on, the upstream answers or times out, and a key
\* with a TTL expires.  Nobody has to send a request or to stop the process.
FairSpec ==
  /\ Spec
  /\ \A r \in Requests : WF_vars(RequestStep(r))
  /\ \A w \in Workers : WF_vars(WorkerStep(w))
  /\ WF_vars(EndStep)
  /\ WF_vars(SlotsExpire)
(***************************************************************************)
(* Properties.                                                             *)
(***************************************************************************)
\* The gate counts exactly the requests inside it and the ones it is turning
\* away, whatever limit each of them read, and never lets in more than the
\* largest limit that was ever in force.
GateBalanced == active = Cardinality(Counted) /\ Cardinality(Inside) <= Max(Limits)

\* Requests served for the key stay within its concurrency limit, through lost
\* replies and failed releases, as long as the counter does not expire under a
\* request that has outlived it.
KeyConcurrency == ~outlived => Cardinality(Holders) <= slots

\* When Close reports success, every entry the sink accepted has been handed to
\* the database, also one enqueued while Close was called.
FlushedMeansWritten ==
  phase = "flushed" =>
    /\ \A r \in Requests : entry[r] # "accepted"
    /\ queue = <<>>

\* Every request that enters leaves again or ends with the process, and a slot
\* that nobody will release (a lost reply, a failed release, a killed process)
\* does not stay: the counter of an idle key always ends.
EverythingSettles ==
  <>[](slots = 0 /\ \A r \in Requests : at[r] \in {"idle", "done", "killed"})

\* The state is well formed, no counter of the gate or the key below zero, and the gate exact.
GateExact == TypeOK /\ GateBalanced
=============================================================================
