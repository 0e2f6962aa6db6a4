---------------------------- MODULE OAuthRefresh ----------------------------
(***************************************************************************)
(* Refreshing the OAuth credential of one account (internal/upstream/      *)
(* oauth.go) from several places at once: the background pass RefreshDue   *)
(* of every instance, RefreshAccount on behalf of an administrator or of a *)
(* request that got a 401, and an import with the action refresh_probe     *)
(* (internal/api/accounts.go), which creates the account, refreshes it,    *)
(* probes it and quarantines it when that fails.                           *)
(*                                                                         *)
(* A Redis lock serialises the refreshes of the account.  The provider is  *)
(* external: it answers a refresh with a new credential and from then on   *)
(* refuses the old one.  A new credential is named after the process that  *)
(* obtained it; every process runs once.                                   *)
(*                                                                         *)
(* Time is a set of events: a credential ages, a cooldown elapses, a lock  *)
(* expires.  A cooldown in a row is Running or Elapsed.  What a refresh    *)
(* makes of the pools and of Redis is part of module AccountPool.          *)
(***************************************************************************)
EXTENDS Naturals, FiniteSets, AccountRows

CONSTANTS
  Due,            \* background passes, one account each
  Manual,         \* calls of RefreshAccount
  Imports,        \* imports with refresh_probe; at most one
  NoOne,          \* the owner of a free lock
  First,          \* the credential the account starts with
  Aging,          \* bound: the credentials that become due and expire
  MaxOverruns,    \* bound on the locked sections that outlive their lock
  Faults,         \* may statements and Redis fail, or contexts be cancelled?
  MaxCrashes      \* bound on the processes that die

Procs == Due \cup Manual \cup Imports
Elapsed == 1
Running == 2

ASSUME RefreshAssumption ==
  /\ Due \cap (Manual \cup Imports) = {} /\ Manual \cap Imports = {}
  /\ Creds = Procs \cup {First} /\ First \notin Procs /\ NoOne \notin Procs
  /\ \A i, j \in Imports : i = j
  /\ Aging \subseteq Creds
  /\ Faults \in BOOLEAN /\ MaxOverruns \in Nat /\ MaxCrashes \in Nat

VARIABLES
  row,        \* the account
  lock,       \* Redis: oauth:refresh, the owner
  valid,      \* the provider: the credential it accepts
  age,        \* "fresh", "due" or "expired", for every credential
  pc,
  cred,       \* per process: the credential it works with
  listed,     \* per process: the status RefreshDue found
  copy,       \* per process: the row it has read and will write back
  update,     \* per process: the OAuthRefreshUpdate it is saving
  good,       \* per process: did the refresh, and later the probe, succeed?
  replaced,   \* credentials whose replacement has been stored (history)
  reverted,   \* has a write put such a credential back? (history)
  overran,    \* processes whose lock expired while they worked (history)
  crashes

locals == <<cred, listed, copy, update, good>>
history == <<replaced, reverted, overran>>
vars   == <<row, lock, valid, age, pc, locals, history, crashes>>

RefreshSteps == {"list", "creds", "lock", "latest", "exchange", "saveRead", "saveWrite", "unlock"}
ImportSteps  == {"create", "probe", "probing", "final", "finalWrite"}
Locked       == {"latest", "exchange", "saveRead", "saveWrite", "unlock"}
Steps        == RefreshSteps \cup ImportSteps \cup {"clearRead", "clearWrite", "done", "dead"}

Update == [status : Status, until : {0, Running}, cred : Creds \cup {NoOne}]

TypeOK ==
  /\ row \in Row /\ row.until \in {0, Elapsed, Running}
  /\ lock \in Procs \cup {NoOne}
  /\ valid \in Creds
  /\ age \in [Creds -> {"fresh", "due", "expired"}]
  /\ pc \in [Procs -> Steps]
  /\ cred \in [Procs -> Creds]
  /\ listed \in [Procs -> Status]
  /\ copy \in [Procs -> Row]
  /\ update \in [Procs -> Update]
  /\ good \in [Procs -> BOOLEAN]
  /\ replaced \in SUBSET Creds
  /\ reverted \in BOOLEAN
  /\ overran \in SUBSET Procs
  /\ crashes \in 0..MaxCrashes

InitialRow == [exists |-> Imports = {}, status |-> "active", until |-> 0,
               cred |-> First, quota |-> 0]
NoUpdate   == [status |-> "active", until |-> 0, cred |-> NoOne]

Init ==
  /\ row = InitialRow
  /\ lock = NoOne
  /\ valid = First
  /\ age = [c \in Creds |-> "fresh"]
  /\ pc = [p \in Procs |-> IF p \in Due THEN "list" ELSE IF p \in Manual THEN "creds" ELSE "create"]
  /\ cred = [p \in Procs |-> First]
  /\ listed = [p \in Procs |-> "active"]
  /\ copy = [p \in Procs |-> InitialRow]
  /\ update = [p \in Procs |-> NoUpdate]
  /\ good = [p \in Procs |-> FALSE]
  /\ replaced = {}
  /\ reverted = FALSE
  /\ overran = {}
  /\ crashes = 0

Goto(p, step) == pc' = [pc EXCEPT ![p] = step]

\* The status a successful refresh leaves: an import keeps the account held.
SuccessStatus(p) == IF p \in Imports THEN "error" ELSE "active"

----------------------------------------------------------------------------
(* RefreshDue: which accounts of the listing are refreshed.                *)

ListDue(p) ==
  /\ pc[p] = "list"
  /\ listed' = [listed EXCEPT ![p] = row.status]
  /\ Goto(p, IF ~row.exists \/ row.status \in {"disabled", "error"} \/ row.until = Running
               THEN "done" ELSE "creds")
  /\ UNCHANGED <<row, lock, valid, age, cred, copy, update, good, history, crashes>>

\* Store.Credentials.  A background pass leaves a fresh credential alone, and only
\* ends a cooldown it has found elapsed.
ReadCredentials(p) ==
  /\ pc[p] = "creds"
  /\ cred' = [cred EXCEPT ![p] = row.cred]
  /\ Goto(p, IF ~row.exists THEN "done"
             ELSE IF p \notin Due \/ age[row.cred] # "fresh" THEN "lock"
             ELSE IF listed[p] = "cooldown" THEN "clearRead" ELSE "done")
  /\ UNCHANGED <<row, lock, valid, age, listed, copy, update, good, history, crashes>>

----------------------------------------------------------------------------
(* refreshAccount.                                                         *)

AcquireLock(p) ==
  /\ pc[p] = "lock" /\ lock = NoOne
  /\ lock' = p
  /\ Goto(p, "latest")
  /\ UNCHANGED <<row, valid, age, locals, history, crashes>>

Save(p, u) == update' = [update EXCEPT ![p] = u] /\ Goto(p, "saveRead")

\* Mutant: the credential read before the lock is exchanged.
LatestUnchecked(p) ==
  /\ pc[p] = "latest"
  /\ Goto(p, "exchange")
  /\ UNCHANGED <<row, lock, valid, age, locals, history, crashes>>

\* The credential is read again under the lock.  When somebody else has replaced it
\* the refresh is over, except that an import still holds the account.
ReadLatest(p) ==
  /\ pc[p] = "latest"
  /\ IF row.cred = cred[p]
       THEN Goto(p, "exchange") /\ UNCHANGED <<update, good>>
       ELSE /\ good' = [good EXCEPT ![p] = TRUE]
            /\ IF p \in Imports
                 THEN Save(p, [status |-> "error", until |-> 0, cred |-> NoOne])
                 ELSE Goto(p, "unlock") /\ UNCHANGED update
  /\ UNCHANGED <<row, lock, valid, age, cred, listed, copy, history, crashes>>

\* recordRefreshFailure: a held account stays held, an account whose credential has
\* run out is expired, any other one cools down.
FailureUpdateOfAny(p) ==
  [status |-> IF age[cred[p]] = "expired" THEN "expired" ELSE "cooldown",
   until  |-> IF age[cred[p]] = "expired" THEN 0 ELSE Running, cred |-> NoOne]

\* The other mutant: the default of FailureCooldown is missing.
FailureUpdateElapsed(p) ==
  [status |-> IF p \in Imports THEN "error" ELSE "cooldown", until |-> Elapsed, cred |-> NoOne]

FailureUpdate(p) ==
  IF p \in Imports                  THEN [status |-> "error", until |-> 0, cred |-> NoOne]
  ELSE IF age[cred[p]] = "expired"  THEN [status |-> "expired", until |-> 0, cred |-> NoOne]
  ELSE                              [status |-> "cooldown", until |-> Running, cred |-> NoOne]

\* OAuthService.Refresh: answered with a new credential, refused or not delivered,
\* or answered but the answer is lost.
ExchangeAnswered(p) ==
  /\ pc[p] = "exchange" /\ cred[p] = valid
  /\ valid' = p
  /\ good' = [good EXCEPT ![p] = TRUE]
  /\ Save(p, [status |-> SuccessStatus(p), until |-> 0, cred |-> p])
  /\ UNCHANGED <<row, lock, age, cred, listed, copy, history, crashes>>

ExchangeFails(p) ==
  /\ pc[p] = "exchange"
  /\ \/ UNCHANGED valid
     \/ cred[p] = valid /\ valid' = p
  /\ Save(p, FailureUpdate(p))
  /\ UNCHANGED <<row, lock, age, cred, listed, copy, good, history, crashes>>

----------------------------------------------------------------------------
(* SaveOAuthRefresh: ManagementService.UpdateAccount reads the row and     *)
(* writes all of it back.                                                  *)

SaveOAuthRefresh(r, u) ==
  [r EXCEPT !.status = u.status, !.until = u.until,
            !.cred = IF u.cred = NoOne THEN @ ELSE u.cred]

\* UPDATE accounts of the whole row, the credential included.
WriteRow(new) ==
  /\ row' = new
  /\ replaced' = IF new.cred # row.cred THEN replaced \cup {row.cred} ELSE replaced
  /\ UNCHANGED overran
  /\ reverted' = (reverted \/ (new.cred \in replaced /\ new.cred # row.cred))

ReadRow(p, at, next) ==
  /\ pc[p] = at
  /\ copy' = [copy EXCEPT ![p] = row]
  /\ Goto(p, next)
  /\ UNCHANGED <<row, lock, valid, age, cred, listed, update, good, history, crashes>>

SaveRead(p) == ReadRow(p, "saveRead", "saveWrite")

SaveWrite(p) ==
  /\ pc[p] = "saveWrite"
  /\ WriteRow(SaveOAuthRefresh(copy[p], update[p]))
  /\ Goto(p, "unlock")
  /\ UNCHANGED <<lock, valid, age, locals, crashes>>

\* A failure, or the end of the context, under the lock: the refresh counts as failed
\* and nothing is recorded.
LockedStepFails(p) ==
  /\ Faults /\ pc[p] \in {"latest", "saveRead", "saveWrite"}
  /\ good' = [good EXCEPT ![p] = FALSE]
  /\ Goto(p, "unlock")
  /\ UNCHANGED <<row, lock, valid, age, cred, listed, copy, update, history, crashes>>

\* The same before the lock is taken.
Abandon(p) ==
  /\ Faults /\ pc[p] \in {"creds", "lock"}
  /\ Goto(p, IF p \in Imports THEN "final" ELSE "done")
  /\ UNCHANGED <<row, lock, valid, age, locals, history, crashes>>

Released(p, ok) ==
  /\ good' = [good EXCEPT ![p] = @ /\ ok]
  /\ Goto(p, IF p \notin Imports THEN "done" ELSE IF good'[p] THEN "probe" ELSE "final")
  /\ UNCHANGED <<row, valid, age, cred, listed, copy, update, history, crashes>>

\* Mutant: DEL instead of compare-and-delete.
UnlockBlindly(p) ==
  /\ pc[p] = "unlock"
  /\ lock' = NoOne
  /\ Released(p, TRUE)

\* CompareDelete.  Losing the lock makes the refresh an error although its result is
\* stored.
Unlock(p) ==
  /\ pc[p] = "unlock"
  /\ lock' = IF lock = p THEN NoOne ELSE lock
  /\ Released(p, lock = p)

UnlockFails(p) ==
  /\ Faults /\ pc[p] = "unlock"
  /\ UNCHANGED lock
  /\ Released(p, FALSE)

\* A background pass that found an elapsed cooldown saves the status "active",
\* without the lock.
ClearRead(p) == ReadRow(p, "clearRead", "clearWrite")

ClearWrite(p) ==
  /\ pc[p] = "clearWrite"
  /\ WriteRow(SaveOAuthRefresh(copy[p], NoUpdate))
  /\ Goto(p, "done")
  /\ UNCHANGED <<lock, valid, age, locals, crashes>>

ClearFails(p) ==
  /\ Faults /\ pc[p] \in {"clearRead", "clearWrite"}
  /\ Goto(p, "done")
  /\ UNCHANGED <<row, lock, valid, age, locals, history, crashes>>

RefreshStep(p) ==
  \/ ListDue(p) \/ ReadCredentials(p) \/ AcquireLock(p) \/ ReadLatest(p)
  \/ ExchangeAnswered(p) \/ ExchangeFails(p)
  \/ SaveRead(p) \/ SaveWrite(p) \/ Unlock(p) \/ ClearRead(p) \/ ClearWrite(p)

----------------------------------------------------------------------------
(* importAccounts and runImportPostAction with refresh_probe.              *)

CreateHeld(p) ==
  /\ pc[p] = "create"
  /\ row' = [row EXCEPT !.exists = TRUE, !.status = "error"]
  /\ Goto(p, "creds")
  /\ UNCHANGED <<lock, valid, age, locals, history, crashes>>

\* After a reload the pool's state of the account is a copy of the row.
ProbeAcquire(p) == ReadRow(p, "probe", "probing")

\* The probe's outcome, in the row as health feedback writes it.
ProbeSucceeds(p) ==
  /\ pc[p] = "probing"
  /\ row' = UpdateAccountRuntime(row, [copy[p] EXCEPT !.status = "active", !.until = 0], Elapsed)
  /\ Goto(p, "final")
  /\ UNCHANGED <<lock, valid, age, locals, history, crashes>>

\* It failed with feedback, or without any: the pool was not reloaded, there was no
\* lease, the feedback was not stored.
ProbeFails(p) ==
  /\ pc[p] = "probing"
  /\ \/ \E s \in {"cooldown", "disabled"} :
          row' = UpdateAccountRuntime(row, [copy[p] EXCEPT !.status = s,
                                              !.until = IF s = "cooldown" THEN Running ELSE 0], Elapsed)
     \/ UNCHANGED row
  /\ good' = [good EXCEPT ![p] = FALSE]
  /\ Goto(p, "final")
  /\ UNCHANGED <<lock, valid, age, cred, listed, copy, update, history, crashes>>

\* finalizeImportPostAction: a failed import is put back into "error".
FinalRead(p) == ReadRow(p, "final", IF good[p] THEN "done" ELSE "finalWrite")

FinalWrite(p) ==
  /\ pc[p] = "finalWrite"
  /\ WriteRow(PrepareAccountUpdate(copy[p], "quarantine", First))
  /\ Goto(p, "done")
  /\ UNCHANGED <<lock, valid, age, locals, crashes>>

FinalFails(p) ==
  /\ Faults /\ pc[p] \in {"final", "finalWrite"}
  /\ Goto(p, "done")
  /\ UNCHANGED <<row, lock, valid, age, locals, history, crashes>>

ImportStep(p) ==
  \/ CreateHeld(p) \/ ProbeAcquire(p) \/ ProbeSucceeds(p) \/ ProbeFails(p)
  \/ FinalRead(p) \/ FinalWrite(p)

----------------------------------------------------------------------------
(* Time and crashes.                                                       *)

\* Only what the provider has issued ages.
Ages == \E c \in Aging \cap ({First, valid, row.cred} \cup replaced) :
  /\ age[c] # "expired"
  /\ age' = [age EXCEPT ![c] = IF @ = "fresh" THEN "due" ELSE "expired"]
  /\ UNCHANGED <<row, lock, valid, pc, locals, history, crashes>>

CooldownElapses ==
  /\ row.until = Running
  /\ row' = [row EXCEPT !.until = Elapsed]
  /\ UNCHANGED <<lock, valid, age, pc, locals, history, crashes>>

\* Mutant: SETNX without a TTL.
LockNeverExpires == FALSE

\* The lock of a process that died, or of one that is slower than its TTL.
LockExpires ==
  /\ lock # NoOne
  /\ pc[lock] \in Locked => Cardinality(overran) < MaxOverruns
  /\ lock' = NoOne
  /\ overran' = IF pc[lock] \in Locked THEN overran \cup {lock} ELSE overran
  /\ UNCHANGED <<row, valid, age, pc, locals, replaced, reverted, crashes>>

Crash(p) ==
  /\ crashes < MaxCrashes /\ pc[p] \notin {"done", "dead"}
  /\ crashes' = crashes + 1
  /\ Goto(p, "dead")
  /\ UNCHANGED <<row, lock, valid, age, locals, history>>

Fault(p) ==
  LockedStepFails(p) \/ Abandon(p) \/ UnlockFails(p) \/ ClearFails(p) \/ FinalFails(p) \/ Crash(p)

Next ==
  \/ \E p \in Procs : RefreshStep(p) \/ Fault(p)
  \/ \E p \in Imports : ImportStep(p)
  \/ Ages \/ CooldownElapses \/ LockExpires

Spec == Init /\ [][Next]_vars

\* Started goroutines run, SETNX is retried every 50 ms, the provider's client times
\* out, and Redis expires the lock of a dead process.
Fairness ==
  /\ \A p \in Procs : WF_vars(RefreshStep(p)) /\ WF_vars(p \in Imports /\ ImportStep(p))
  /\ WF_vars(LockExpires)

FairSpec == Spec /\ Fairness

----------------------------------------------------------------------------
\* A refresh sends the provider the credential that is current: never one whose
\* replacement has been stored, nor one that another refresh has sent or is about to
\* replace.  This holds until a locked section outlives its lock or a write puts a
\* replaced credential back into the row (CredentialNeverReverts).
RotationSerialized ==
  overran = {} /\ ~reverted => \A p \in Procs : pc[p] = "exchange" =>
    /\ cred[p] \notin replaced
    /\ \A q \in Procs \ {p} : pc[q] \in {"exchange", "saveRead", "saveWrite"} => cred[q] # cred[p]

\* "RefreshAccount refreshes one account while serializing refresh-token rotation
\* across manual requests, background workers, and service instances": no write of
\* a background pass puts a replaced credential back.
CredentialNeverReverts == overran = {} => ~reverted

\* A process that outlives its lock upsets only itself: when it comes back and
\* unlocks, the processes that came after it still exclude each other.
OverrunIsContained ==
  \A p, q \in {r \in Procs : pc[r] \in Locked} \ overran : p = q

\* "The account remains outside normal scheduling until both refresh and probe
\* complete successfully": whatever fails in between, and although background
\* passes run, an account imported with refresh_probe is neither active nor cooling,
\* unless somebody asks for a refresh of it.
HeldUntilProbed ==
  row.exists /\ Imports # {} /\ (\A p \in Imports : pc[p] # "done" \/ ~good[p])
    /\ (\A p \in Manual : pc[p] = "creds")
    => row.status \notin {"active", "cooldown"}

\* Every refresh and every import ends, although the process that holds the lock may
\* die, and although the others poll for it.
EveryRefreshEnds == \A p \in Procs : <>(pc[p] \in {"done", "dead"})

\* An import whose refresh and probe succeeded leaves the account active.
ImportActivates == \A p \in Imports : pc[p] = "done" /\ good[p] => row.status = "active"
=============================================================================
