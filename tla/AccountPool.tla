---------------------------- MODULE AccountPool ----------------------------
(***************************************************************************)
(* The account pool of every instance (internal/accounts/pool.go and       *)
(* probe.go) together with what the instances share: the Redis coordinator *)
(* (module Coordination), the accounts table (module AccountRows) and the  *)
(* administrative operations that rewrite it (internal/api/accounts.go).   *)
(*                                                                         *)
(* One action is one critical section of a pool's mutex, one Redis call or *)
(* one SQL statement: whatever the code does between two of them can       *)
(* interleave with every other request, administrator and instance.        *)
(* A request is one Acquire (or AcquireForProbe), the upstream exchange    *)
(* and one Release; Lease.Release runs its body once (sync.Once).          *)
(*                                                                         *)
(* Redis is a hard requirement of the program (app.Run fails without it),  *)
(* so a pool always has a coordinator.  Under a coordinator Acquire        *)
(* overwrites its local affinity entry from Redis under the same lock that *)
(* reads it, so the map Pool.affinities decides nothing and is left out.   *)
(***************************************************************************)
EXTENDS Coordination, AccountRows

CONSTANTS
  Instances, Accounts, Requests, Admins,
  Home,           \* the instance that serves a request or an administrator
  Probes,         \* the requests that are administrative probes
  Keys, NoKey,    \* conversations; NoKey is an empty Selection.AffinityKey
  KeyOf,          \* the conversation of a request
  Excludes,       \* the Selection.ExcludeIDs a caller may pass
  Limit,          \* ConcurrencyLimit of an account
  Tier,           \* tierRank of an account
  PreferBest,     \* ModelSpec.PreferBest
  InitialCred,    \* the credential every account starts with
  LeaseTTL, AffinityTTL, ForbiddenCooldown, RateLimitCooldown, QuotaReset,
  TransientDelays,\* what transientBackoff returns for 1, 2, ... failures
  Feedbacks,      \* the upstream outcomes the requests report
  AdminOps,       \* the administrative operations that occur
  Strategies,     \* the scheduling strategies an administrator may set
  Nobody, Sync,   \* holders of a reload token other than requests and admins
  MaxFailures,    \* bound on failing calls and on crashes, together
  MaxTime         \* bound on the clock

MaxBindAttempts == 3

StrategyNames == {"affinity", "priority", "round_robin"}
AdminOpNames  == {"activate", "disable", "edit", "refresh", "quarantine", "delete"}
FeedbackKinds == {"ok", "limited", "denied", "failed", "canceled", "other"}
QuotaReports  == {"nil", "healthy", "reset", "stale"}
Feedback      == [kind : FeedbackKinds, after : Nat, quota : QuotaReports]

ASSUME PoolAssumption ==
  /\ Home \in [Requests \cup Admins -> Instances]
  /\ Probes \subseteq Requests
  /\ NoKey \notin Keys /\ KeyOf \in [Requests -> Keys \cup {NoKey}]
  /\ NoAccount \notin Accounts
  /\ Excludes \subseteq SUBSET Accounts
  /\ Limit \in [Accounts -> Nat \ {0}] /\ Tier \in [Accounts -> Nat]
  /\ PreferBest \in BOOLEAN
  /\ InitialCred \in Creds /\ Admins \subseteq Creds /\ InitialCred \notin Admins
  /\ LeaseTTL \in Nat \ {0} /\ AffinityTTL \in Nat \ {0}
  /\ ForbiddenCooldown \in Nat \ {0} /\ RateLimitCooldown \in Nat \ {0}
  /\ QuotaReset \in Nat \ {0} /\ TransientDelays \subseteq Nat \ {0}
  /\ Feedbacks \subseteq Feedback
  /\ AdminOps \subseteq AdminOpNames
  /\ Strategies \subseteq StrategyNames
  /\ Nobody # Sync /\ {Nobody, Sync} \cap (Requests \cup Admins) = {}
  /\ Requests \cap Admins = {}
  /\ MaxFailures \in Nat /\ MaxTime \in Nat \ {0}

ASSUME RequestsFinite == IsFiniteSet(Requests)

VARIABLES
  now,        \* the clock the instances, Redis and PostgreSQL share
  db,         \* the accounts table
  slots,      \* Redis: the lease set of every account
  cooling,    \* Redis: the cooldown deadline of every account
  bound,      \* Redis: the affinity key of every conversation
  loaded,     \* Pool.loaded
  strategy,   \* Pool.policy.Strategy
  states,     \* Pool.states
  reload,     \* who holds Pool.reloadToken, and the snapshot it has listed
  pc, acct,   \* per request: next step, and the account it has reserved
  exp,        \* per request: deadline its lease was granted with (history)
  req,        \* per request: the locals of Acquire, the lease, the feedback
  adm,        \* per administrator: the operation in progress
  blocked,    \* deadline published for an account since its last
              \* administrative activation (history)
  failures    \* number of failed calls and of crashes so far

redis   == <<slots, cooling, bound>>
pools   == <<loaded, strategy, states, reload>>
request == <<pc, acct, exp, req>>
vars    == <<now, db, redis, pools, request, adm, blocked, failures>>

AccountOrNone == Accounts \cup {NoAccount}

\* Between AcquireLeaseSlot and ReleaseLeaseSlot a request owns a Redis slot.
BindSteps  == {"bindSetNX", "bindGet", "bindExpire"}
OwnerSteps == {"credentials", "clearOld", "held", "undoOwned", "dropSlot",
               "relCool", "relAff", "relSave", "relReload", "relSlot"} \cup BindSteps
\* Between inflight++ and inflight-- it has a reservation in its own pool.
ReservedSteps == {"checkCooldown", "acquireLease", "undoFail", "undoRetry", "undoCooling",
                  "undoOwned", "credentials", "clearOld", "held"} \cup BindSteps
Steps == {"idle", "getAffinity", "select", "clearUnavailable", "done"}
           \cup OwnerSteps \cup ReservedSteps

RuntimeState == [present : BOOLEAN, status : Status, until : Nat, cred : Creds,
                 quota : Nat, till : Nat, inflight : Nat]
ReleaseWork  == [cool : Nat, inval : BOOLEAN, save : BOOLEAN, publish : BOOLEAN, row : Row]
RequestState == [use : BOOLEAN, coord : AccountOrNone, excluded : SUBSET Accounts,
                 full : SUBSET Accounts, preserve : BOOLEAN, status : Status,
                 cred : Creds, used : Creds, until : Nat, tries : 0..MaxBindAttempts,
                 seen : AccountOrNone, work : ReleaseWork]
AdminSteps   == {"idle", "write", "delete", "remove", "clear", "reload", "done"}
AdminState   == [pc : AdminSteps, op : AdminOpNames, acct : AccountOrNone, row : Row]
TokenHolders == Requests \cup Admins \cup {Nobody, Sync}

InitialRow == [exists |-> TRUE, status |-> "active", until |-> 0,
               cred |-> InitialCred, quota |-> 0]
NoState    == [present |-> FALSE, status |-> "active", until |-> 0,
               cred |-> InitialCred, quota |-> 0, till |-> 0, inflight |-> 0]
NoWork     == [cool |-> 0, inval |-> FALSE, save |-> FALSE, publish |-> FALSE,
               row |-> InitialRow]
IdleReq    == [use |-> FALSE, coord |-> NoAccount, excluded |-> {}, full |-> {},
               preserve |-> FALSE, status |-> "active", cred |-> InitialCred,
               used |-> InitialCred, until |-> 0, tries |-> 0,
               seen |-> NoAccount, work |-> NoWork]
IdleAdmin  == [pc |-> "idle", op |-> "edit", acct |-> NoAccount, row |-> InitialRow]
NoSnapshot == [a \in Accounts |-> InitialRow]
TokenFree  == [by |-> Nobody, snap |-> NoSnapshot]

\* Well-formedness of every variable: the only invariant about types.
TypeOK ==
  /\ now \in Nat
  /\ db \in [Accounts -> Row]
  /\ slots \in [Accounts -> [Requests -> Nat]]
  /\ cooling \in [Accounts -> Nat]
  /\ bound \in [Keys -> [acct : AccountOrNone, exp : Nat]]
  /\ loaded \in [Instances -> BOOLEAN]
  /\ strategy \in [Instances -> StrategyNames]
  /\ states \in [Instances -> [Accounts -> RuntimeState]]
  /\ reload \in [Instances -> [by : TokenHolders, snap : [Accounts -> Row]]]
  /\ pc \in [Requests -> Steps]
  /\ acct \in [Requests -> AccountOrNone]
  /\ exp \in [Requests -> Nat]
  /\ req \in [Requests -> RequestState]
  /\ adm \in [Admins -> AdminState]
  /\ blocked \in [Accounts -> Nat]
  /\ failures \in Nat

\* All accounts are active; every instance has yet to run its startup Reload.
Init ==
  /\ now = 1
  /\ db = [a \in Accounts |-> InitialRow]
  /\ slots = [a \in Accounts |-> [r \in Requests |-> 0]]
  /\ cooling = [a \in Accounts |-> 0]
  /\ bound = [k \in Keys |-> NoBinding]
  /\ loaded = [i \in Instances |-> FALSE]
  /\ strategy = [i \in Instances |-> "affinity"]
  /\ states = [i \in Instances |-> [a \in Accounts |-> NoState]]
  /\ reload = [i \in Instances |-> TokenFree]
  /\ pc = [r \in Requests |-> "idle"]
  /\ acct = [r \in Requests |-> NoAccount]
  /\ exp = [r \in Requests |-> 0]
  /\ req = [r \in Requests |-> IdleReq]
  /\ adm = [p \in Admins |-> IdleAdmin]
  /\ blocked = [a \in Accounts |-> 0]
  /\ failures = 0


----------------------------------------------------------------------------
(* Steps of a request.                                                     *)

Fails == failures < MaxFailures /\ failures' = failures + 1

Goto(r, step) == pc' = [pc EXCEPT ![r] = step]

\* Acquire or Release has returned: its locals are gone.
Finish(r) ==
  /\ Goto(r, "done")
  /\ acct' = [acct EXCEPT ![r] = NoAccount]
  /\ exp' = [exp EXCEPT ![r] = 0]
  /\ req' = [req EXCEPT ![r] = IdleReq]

\* Acquire up to the affinity read: the server accepts requests only after the
\* startup Reload, so ensureLoaded has nothing to do.
Start(r) ==
  /\ pc[r] = "idle" /\ r \notin Probes /\ loaded[Home[r]]
  /\ \E ex \in Excludes :
       LET use == strategy[Home[r]] = "affinity" /\ KeyOf[r] # NoKey
       IN  /\ req' = [req EXCEPT ![r].use = use, ![r].excluded = ex]
           /\ Goto(r, IF use THEN "getAffinity" ELSE "select")
  /\ UNCHANGED <<now, db, redis, pools, acct, exp, adm, blocked, failures>>

ReadAffinity(r) ==
  /\ pc[r] = "getAffinity"
  /\ req' = [req EXCEPT ![r].coord = GetAffinity(bound[KeyOf[r]], now)]
  /\ Goto(r, "select")
  /\ UNCHANGED <<now, db, redis, pools, acct, exp, adm, blocked, failures>>

\* durablyEligibleLocked forgets an elapsed cooldown of a state it looks at.
Promote(st, t) ==
  IF st.present /\ st.status = "cooldown" /\ st.till <= t
    THEN [st EXCEPT !.status = "active", !.until = 0]
    ELSE st

DurablyEligible(st, t) ==
  st.present /\ st.status \notin Terminal /\ st.till <= t /\ st.quota <= t

\* The states one pass over the pool looks at: the affinity account, and
\* in selectLocked every account that is not excluded.
Scanned(i, seen, t) ==
  [states EXCEPT ![i] = [a \in Accounts |->
      IF a \in seen THEN Promote(states[i][a], t) ELSE states[i][a]]]

Candidates(i, excluded, t) ==
  {a \in Accounts \ excluded : DurablyEligible(states[i][a], t)
                                 /\ states[i][a].inflight < Limit[a]}

BestTier(C) ==
  IF PreferBest THEN {a \in C : \A b \in C : Tier[a] >= Tier[b]} ELSE C

\* selectLocked.  The affinity account wins if it is a candidate; otherwise the
\* score or the round-robin cursor picks one, which is any of them here.
Choices(r) ==
  LET C == BestTier(Candidates(Home[r], req[r].excluded, now))
  IN  IF strategy[Home[r]] = "affinity" /\ req[r].coord \in C
        THEN {req[r].coord} ELSE C

AffinityStale(r) ==
  req[r].coord # NoAccount /\ ~DurablyEligible(states[Home[r]][req[r].coord], now)

\* Mutant: a refusal by Redis is not remembered as lack of capacity.
AtLocalCapacity(r, a) == states[Home[r]][a].inflight >= Limit[a]

AtCapacity(r, a) ==
  states[Home[r]][a].inflight >= Limit[a] \/ a \in req[r].full

\* The bound account cannot serve: Acquire clears the binding and tries again.
FindStaleAffinity(r) ==
  /\ pc[r] = "select" /\ AffinityStale(r)
  /\ states' = Scanned(Home[r], {req[r].coord}, now)
  /\ Goto(r, "clearUnavailable")
  /\ UNCHANGED <<now, db, redis, loaded, strategy, reload, acct, exp, req,
                 adm, blocked, failures>>

Reserve(r) ==
  /\ pc[r] = "select" /\ ~AffinityStale(r)
  /\ \E a \in Choices(r) :
       LET i == Home[r]
           seen == (Accounts \ req[r].excluded) \cup {req[r].coord}
           scanned == Scanned(i, seen, now)
       IN  /\ states' = [scanned EXCEPT ![i][a].inflight = @ + 1]
           /\ acct' = [acct EXCEPT ![r] = a]
           /\ req' = [req EXCEPT
                ![r].status = scanned[i][a].status,
                ![r].cred = scanned[i][a].cred,
                ![r].preserve = /\ req[r].coord \notin {NoAccount, a}
                                /\ AtCapacity(r, req[r].coord)]
  /\ Goto(r, "checkCooldown")
  /\ UNCHANGED <<now, db, redis, loaded, strategy, reload, exp, adm, blocked, failures>>

\* ErrNoAccount.
NoCandidate(r) ==
  /\ pc[r] = "select" /\ ~AffinityStale(r) /\ Choices(r) = {}
  /\ states' = Scanned(Home[r], (Accounts \ req[r].excluded) \cup {req[r].coord}, now)
  /\ Finish(r)
  /\ UNCHANGED <<now, db, redis, loaded, strategy, reload, adm, blocked, failures>>

\* RedisCoordinator.ClearAffinity of the binding Acquire has seen.
DeleteBinding(r) ==
  /\ bound' = [bound EXCEPT ![KeyOf[r]] = CompareDelete(@, req[r].coord, now)]
  /\ UNCHANGED <<slots, cooling>>

\* Mutant: the local copy of the binding is not reset, so the loop finds it again.
ClearUnavailableOnly(r) ==
  /\ pc[r] = "clearUnavailable"
  /\ DeleteBinding(r)
  /\ Goto(r, "select")
  /\ UNCHANGED <<now, db, pools, acct, exp, req, adm, blocked, failures>>

ClearUnavailable(r) ==
  /\ pc[r] = "clearUnavailable"
  /\ DeleteBinding(r)
  /\ req' = [req EXCEPT ![r].coord = NoAccount]
  /\ Goto(r, "select")
  /\ UNCHANGED <<now, db, pools, acct, exp, adm, blocked, failures>>

\* The coordinated cooldown is read before the lease is taken: a cooling account
\* is given back and excluded.
CheckCooldown(r) ==
  /\ pc[r] = "checkCooldown"
  /\ LET a == acct[r] IN
     IF CoolingDown(cooling[a], now)
       THEN /\ req' = [req EXCEPT ![r].until = cooling[a],
                                  ![r].excluded = @ \cup {a}]
            /\ Goto(r, IF a = req[r].coord THEN "undoCooling" ELSE "undoRetry")
       ELSE UNCHANGED req /\ Goto(r, "acquireLease")
  /\ UNCHANGED <<now, db, redis, pools, acct, exp, adm, blocked, failures>>

TakeSlot(r) ==
  /\ slots' = [slots EXCEPT ![acct[r]] =
                 AcquireLeaseSlot(@, r, Limit[acct[r]], LeaseTTL, now)]
  /\ UNCHANGED <<cooling, bound>>

\* The owner is a fresh random value for every call, and a request takes at most
\* one lease, so the request itself stands for it.
AcquireLease(r) ==
  /\ pc[r] = "acquireLease"
  /\ LeaseFits(slots[acct[r]], r, Limit[acct[r]], now)
  /\ TakeSlot(r)
  /\ exp' = [exp EXCEPT ![r] = now + LeaseTTL]
  /\ Goto(r, "credentials")
  /\ UNCHANGED <<now, db, pools, acct, req, adm, blocked, failures>>

\* No slot: an ordinary request excludes the account, a probe gives up
\* (ErrAccountBusy).
LeaseRefused(r) ==
  /\ pc[r] = "acquireLease"
  /\ ~LeaseFits(slots[acct[r]], r, Limit[acct[r]], now)
  /\ TakeSlot(r)
  /\ IF r \in Probes
       THEN UNCHANGED req /\ Goto(r, "undoFail")
       ELSE /\ req' = [req EXCEPT ![r].excluded = @ \cup {acct[r]},
                                  ![r].full = @ \cup {acct[r]}]
            /\ Goto(r, "undoRetry")
  /\ UNCHANGED <<now, db, pools, acct, exp, adm, blocked, failures>>

\* Mutants: no guard against zero; the reservation is forgotten.
DecrementUnguarded(st) == [st EXCEPT !.inflight = IF st.present THEN @ - 1 ELSE @]
DecrementForgotten(st) == st

Decrement(st) ==
  [st EXCEPT !.inflight = IF st.present /\ @ > 0 THEN @ - 1 ELSE @]

\* rollbackReservation, on every path that gives a reservation back.
Rollback(r) ==
  /\ pc[r] \in {"undoFail", "undoRetry", "undoCooling", "undoOwned"}
  /\ LET i == Home[r]
         a == acct[r]
         st == states[i][a]
     IN  states' = [states EXCEPT ![i][a] =
                      IF st.present
                        THEN [Decrement(st) EXCEPT !.till = Later(@, req[r].until)]
                        ELSE st]
  /\ \/ pc[r] = "undoFail" /\ Finish(r)
     \/ /\ pc[r] \in {"undoRetry", "undoCooling"}
        /\ Goto(r, IF pc[r] = "undoCooling" THEN "clearUnavailable" ELSE "select")
        /\ acct' = [acct EXCEPT ![r] = NoAccount]
        /\ req' = [req EXCEPT ![r].until = 0]
        /\ UNCHANGED exp
     \/ pc[r] = "undoOwned" /\ Goto(r, "dropSlot") /\ UNCHANGED <<acct, exp, req>>
  /\ UNCHANGED <<now, db, redis, loaded, strategy, reload, adm, blocked, failures>>

\* After the lease: drop a binding that was passed over for another reason than
\* capacity, then bind the conversation, then hand the lease to the caller.
AfterCredentials(r) ==
  IF req[r].coord \notin {NoAccount, acct[r]} /\ ~req[r].preserve THEN "clearOld"
  ELSE IF req[r].use THEN "bindSetNX" ELSE "held"

\* Mutant: the error path gives back the reservation but not the lease.
ReadCredentialsLeaks(r) ==
  /\ pc[r] = "credentials"
  /\ req' = [req EXCEPT ![r].used = db[acct[r]].cred]
  /\ Goto(r, IF db[acct[r]].exists THEN AfterCredentials(r) ELSE "undoFail")
  /\ UNCHANGED <<now, db, redis, pools, acct, exp, adm, blocked, failures>>

\* Store.Credentials reads the current row, which may be newer than the
\* snapshot the account was selected from, or gone.
ReadCredentials(r) ==
  /\ pc[r] = "credentials"
  /\ IF db[acct[r]].exists
       THEN /\ req' = [req EXCEPT ![r].used = db[acct[r]].cred]
            /\ Goto(r, AfterCredentials(r))
       ELSE UNCHANGED req /\ Goto(r, "undoOwned")
  /\ UNCHANGED <<now, db, redis, pools, acct, exp, adm, blocked, failures>>

ClearOldBinding(r) ==
  /\ pc[r] = "clearOld"
  /\ DeleteBinding(r)
  /\ req' = [req EXCEPT ![r].coord = NoAccount]
  /\ Goto(r, "bindSetNX")
  /\ UNCHANGED <<now, db, pools, acct, exp, adm, blocked, failures>>

\* RedisCoordinator.BindAffinity: SETNX, else GET, else compare-and-expire; a
\* key that disappears or changes in between costs an attempt.
CreateBinding(r) ==
  /\ bound' = [bound EXCEPT ![KeyOf[r]] = SetNX(@, acct[r], AffinityTTL, now)]
  /\ UNCHANGED <<slots, cooling>>

BindSetNX(r) ==
  /\ pc[r] = "bindSetNX"
  /\ CreateBinding(r)
  /\ Goto(r, IF GetAffinity(bound[KeyOf[r]], now) = NoAccount THEN "held" ELSE "bindGet")
  /\ UNCHANGED <<now, db, pools, acct, exp, req, adm, blocked, failures>>

NextAttempt(r) ==
  /\ req' = [req EXCEPT ![r].tries = @ + 1, ![r].seen = NoAccount]
  /\ Goto(r, IF req[r].tries + 1 < MaxBindAttempts THEN "bindSetNX" ELSE "undoOwned")

BindGet(r) ==
  /\ pc[r] = "bindGet"
  /\ LET value == GetAffinity(bound[KeyOf[r]], now) IN
     IF value = NoAccount
       THEN NextAttempt(r)
       ELSE req' = [req EXCEPT ![r].seen = value] /\ Goto(r, "bindExpire")
  /\ UNCHANGED <<now, db, redis, pools, acct, exp, adm, blocked, failures>>

RefreshBinding(r) ==
  /\ bound' = [bound EXCEPT ![KeyOf[r]] = CompareExpire(@, req[r].seen, AffinityTTL, now)]
  /\ UNCHANGED <<slots, cooling>>

BindExpire(r) ==
  /\ pc[r] = "bindExpire"
  /\ RefreshBinding(r)
  /\ IF GetAffinity(bound[KeyOf[r]], now) = req[r].seen
       THEN Goto(r, "held") /\ UNCHANGED req
       ELSE NextAttempt(r)
  /\ UNCHANGED <<now, db, pools, acct, exp, adm, blocked, failures>>

\* AcquireForProbe: a named account, whatever its status or cooldown.
ProbeReserve(r) ==
  /\ pc[r] = "idle" /\ r \in Probes /\ loaded[Home[r]]
  /\ \E a \in Accounts :
       LET st == states[Home[r]][a] IN
       /\ st.present /\ st.inflight < Limit[a]
       /\ states' = [states EXCEPT ![Home[r]][a].inflight = @ + 1]
       /\ acct' = [acct EXCEPT ![r] = a]
       /\ req' = [req EXCEPT ![r].status = st.status, ![r].cred = st.cred]
  /\ Goto(r, "acquireLease")
  /\ UNCHANGED <<now, db, redis, loaded, strategy, reload, exp, adm, blocked, failures>>

\* ErrAccountBusy, or ErrNoAccount.
ProbeRefused(r) ==
  /\ pc[r] = "idle" /\ r \in Probes /\ loaded[Home[r]]
  /\ \E a \in Accounts : LET st == states[Home[r]][a] IN
                         ~st.present \/ st.inflight >= Limit[a]
  /\ Finish(r)
  /\ UNCHANGED <<now, db, redis, pools, adm, blocked, failures>>

----------------------------------------------------------------------------
(* Lease.Release: one critical section that turns the upstream outcome     *)
(* into state, and the calls that publish it.                              *)

AfterAffinity(w) == IF w.save THEN "relSave" ELSE "relSlot"
AfterCool(w, use) == IF w.inval /\ use THEN "relAff" ELSE AfterAffinity(w)
AfterSection(w, use) == IF w.cool # 0 THEN "relCool" ELSE AfterCool(w, use)

\* Leave the critical section with the state st and the work w still to do.
ReleaseTo(r, st, w) ==
  /\ states' = [states EXCEPT ![Home[r]][acct[r]] = st]
  /\ req' = [req EXCEPT ![r].work = w]
  /\ Goto(r, AfterSection(w, req[r].use))
  /\ UNCHANGED <<now, db, redis, loaded, strategy, reload, acct, exp, adm, blocked, failures>>

StateOf(r) == states[Home[r]][acct[r]]

\* The account has left the pool.
ReleaseGone(r) ==
  /\ pc[r] = "held" /\ ~StateOf(r).present
  /\ ReleaseTo(r, StateOf(r), [NoWork EXCEPT !.inval = TRUE])

\* Its credential was replaced since the lease: the outcome is not applied, but
\* a block of the account as it is now is published.
ReleaseReplaced(r) ==
  /\ pc[r] = "held" /\ StateOf(r).present /\ StateOf(r).cred # req[r].cred
  /\ LET st == StateOf(r)
         unavailable == st.status # "active" \/ st.till > now \/ st.quota > now
         until == Later(st.till, st.quota)
         published == IF st.status \in Terminal /\ until <= now
                        THEN now + ForbiddenCooldown ELSE until
     IN  ReleaseTo(r, Decrement(st),
           [NoWork EXCEPT !.inval = unavailable,
                          !.cool = IF unavailable /\ published > now THEN published ELSE 0])

\* The quota snapshot the response carried, as the time it blocks until.
ReportedQuota(st, fb) ==
  CASE fb.quota = "nil"   -> st.quota
    [] fb.quota = "reset" -> now + QuotaReset
    [] OTHER              -> 0

\* exhaustedQuotaReset: an exhausted snapshot whose reset is unusable blocks for
\* the fallback window if it was observed just now.
QuotaExhausted(st, fb) == ReportedQuota(st, fb) > now \/ fb.quota = "stale"
QuotaResetAt(st, fb) ==
  IF ReportedQuota(st, fb) > now THEN ReportedQuota(st, fb) ELSE now + RateLimitCooldown

TerminalChanged(r) == StateOf(r).status # req[r].status /\ StateOf(r).status \in Terminal
ConcurrentCooldown(st) == st.till > now /\ st.status = "cooldown"

\* The outcome is about the credential the pool still has.
Reports(r, fb) ==
  /\ pc[r] = "held" /\ StateOf(r).present /\ StateOf(r).cred = req[r].cred
  /\ fb \in Feedbacks

RowOf(st) == [exists |-> TRUE, status |-> st.status, until |-> st.until,
              cred |-> st.cred, quota |-> st.quota]

\* Store the new state; persist it when the case, a quota report or the
\* last-used interval of 30 s asks for it, publish in the first two cases.
Applied(r, fb, st, changed, w) ==
  \E lastUsed \in BOOLEAN :
    LET new == [Decrement(st) EXCEPT !.quota = ReportedQuota(StateOf(r), fb)]
        publish == changed \/ fb.quota # "nil"
    IN  ReleaseTo(r, new, [w EXCEPT !.save = publish \/ lastUsed,
                                    !.publish = publish, !.row = RowOf(new)])

Block(until) == [NoWork EXCEPT !.inval = TRUE, !.cool = until]

ReleaseTerminal(r) == \E fb \in Feedbacks :
  /\ Reports(r, fb) /\ TerminalChanged(r)
  /\ Applied(r, fb, StateOf(r), FALSE, Block(now + ForbiddenCooldown))

\* A cooldown until the given time, in the pool and in the account.
Cool(st, until) == [st EXCEPT !.till = until, !.status = "cooldown", !.until = until]

ReleaseRateLimited(r) == \E fb \in Feedbacks :
  /\ Reports(r, fb) /\ ~TerminalChanged(r) /\ fb.kind = "limited"
  /\ LET st == StateOf(r)
         wait == now + (IF fb.after > 0 THEN fb.after ELSE RateLimitCooldown)
         quota == IF QuotaExhausted(st, fb) THEN QuotaResetAt(st, fb) ELSE 0
         until == Later(Later(wait, quota), st.till)
     IN  Applied(r, fb, Cool(st, until), TRUE, Block(until))

ReleaseDenied(r) == \E fb \in Feedbacks :
  /\ Reports(r, fb) /\ ~TerminalChanged(r) /\ fb.kind = "denied"
  /\ Applied(r, fb, [StateOf(r) EXCEPT !.till = 0, !.status = "disabled", !.until = 0],
             TRUE, Block(now + ForbiddenCooldown))

\* The remaining outcomes of the switch.
Otherwise(r, fb, exhausted) ==
  /\ Reports(r, fb) /\ ~TerminalChanged(r) /\ fb.kind \notin {"limited", "denied"}
  /\ QuotaExhausted(StateOf(r), fb) = exhausted

ReleaseExhausted(r) == \E fb \in Feedbacks :
  /\ Otherwise(r, fb, TRUE)
  /\ LET until == Later(StateOf(r).till, QuotaResetAt(StateOf(r), fb))
     IN  Applied(r, fb, Cool(StateOf(r), until), TRUE, Block(until))

\* A success that began before a failure leaves the failure's cooldown alone.
ReleaseOldSuccess(r) == \E fb \in Feedbacks :
  /\ Otherwise(r, fb, FALSE) /\ fb.kind = "ok" /\ ConcurrentCooldown(StateOf(r))
  /\ Applied(r, fb, StateOf(r), FALSE, Block(StateOf(r).till))

\* Success.  Whether the account was "recovering" also depends on its health
\* score, failure count and last error, which the model leaves out.
ReleaseSuccess(r) == \E fb \in Feedbacks, unhealthy \in BOOLEAN :
  /\ Otherwise(r, fb, FALSE) /\ fb.kind = "ok" /\ ~ConcurrentCooldown(StateOf(r))
  /\ LET st == StateOf(r) IN
     Applied(r, fb, [st EXCEPT !.till = 0, !.status = "active", !.until = 0],
             unhealthy \/ st.status # "active" \/ st.until # 0, NoWork)

\* 499, and client errors reported without an error value: no health effect.
ReleaseIgnored(r) == \E fb \in Feedbacks :
  /\ Otherwise(r, fb, FALSE) /\ fb.kind \in {"canceled", "other"}
  /\ Applied(r, fb, StateOf(r), FALSE, NoWork)

\* Transient failure: the backoff replaces the local deadline, even a later one.
ReleaseTransient(r) == \E fb \in Feedbacks, delay \in TransientDelays :
  /\ Otherwise(r, fb, FALSE) /\ fb.kind = "failed"
  /\ Applied(r, fb, Cool(StateOf(r), now + delay), TRUE, Block(now + delay))

ReleaseSection(r) ==
  \/ ReleaseGone(r)        \/ ReleaseReplaced(r)  \/ ReleaseTerminal(r)
  \/ ReleaseRateLimited(r) \/ ReleaseDenied(r)    \/ ReleaseExhausted(r)
  \/ ReleaseOldSuccess(r)  \/ ReleaseSuccess(r)   \/ ReleaseIgnored(r)
  \/ ReleaseTransient(r)

PublishCooldown(r) ==
  LET a == acct[r]
      until == req[r].work.cool
  IN  /\ cooling' = [cooling EXCEPT ![a] = SetCooldown(@, until, now)]
      /\ blocked' = [blocked EXCEPT ![a] = IF until > now THEN Later(@, until) ELSE @]
      /\ UNCHANGED <<slots, bound>>

ReleaseCooldown(r) ==
  /\ pc[r] = "relCool"
  /\ PublishCooldown(r)
  /\ Goto(r, AfterCool(req[r].work, req[r].use))
  /\ UNCHANGED <<now, db, pools, acct, exp, req, adm, failures>>

UnbindOwn(r) ==
  /\ bound' = [bound EXCEPT ![KeyOf[r]] = CompareDelete(@, acct[r], now)]
  /\ UNCHANGED <<slots, cooling>>

ReleaseAffinity(r) ==
  /\ pc[r] = "relAff"
  /\ UnbindOwn(r)
  /\ Goto(r, AfterAffinity(req[r].work))
  /\ UNCHANGED <<now, db, pools, acct, exp, req, adm, blocked, failures>>

\* UpdateAccountRuntime; a deleted row is an error, which skips the reload.
WriteRow(r) ==
  db' = [db EXCEPT ![acct[r]] =
           IF @.exists THEN UpdateAccountRuntime(@, req[r].work.row, now) ELSE @]

ReleaseSave(r) ==
  /\ pc[r] = "relSave"
  /\ WriteRow(r)
  /\ Goto(r, IF db[acct[r]].exists /\ req[r].work.publish THEN "relReload" ELSE "relSlot")
  /\ UNCHANGED <<now, redis, pools, acct, exp, req, adm, blocked, failures>>

GiveSlotBack(r) ==
  /\ slots' = [slots EXCEPT ![acct[r]] = ReleaseLeaseSlot(@, r)]
  /\ UNCHANGED <<cooling, bound>>

\* The last call of Release, and of an Acquire that failed after its lease.
ReleaseSlot(r) ==
  /\ pc[r] \in {"relSlot", "dropSlot"}
  /\ GiveSlotBack(r)
  /\ Finish(r)
  /\ UNCHANGED <<now, db, pools, adm, blocked, failures>>

----------------------------------------------------------------------------
(* Failing calls.  An error from Redis or PostgreSQL says nothing about    *)
(* whether the command was executed: the reply may be what was lost.       *)

\* Affinity reads and deletes: Acquire returns the error.
AffinityFails(r) ==
  /\ Fails /\ pc[r] \in {"getAffinity", "clearUnavailable"}
  /\ \/ pc[r] = "clearUnavailable" /\ DeleteBinding(r)
     \/ UNCHANGED redis
  /\ Finish(r)
  /\ UNCHANGED <<now, db, pools, adm, blocked>>

\* Before the lease: only the local reservation is given back.
ReservedCallFails(r) ==
  /\ Fails /\ pc[r] \in {"checkCooldown", "acquireLease"}
  /\ \/ pc[r] = "acquireLease" /\ TakeSlot(r)
     \/ UNCHANGED redis
  /\ Goto(r, "undoFail")
  /\ UNCHANGED <<now, db, pools, acct, exp, req, adm, blocked>>

\* After the lease: the reservation and the slot are given back.
OwnedCallFails(r) ==
  /\ Fails /\ pc[r] \in {"credentials", "clearOld"} \cup BindSteps
  /\ \/ pc[r] = "clearOld" /\ DeleteBinding(r)
     \/ pc[r] = "bindSetNX" /\ CreateBinding(r)
     \/ pc[r] = "bindExpire" /\ RefreshBinding(r)
     \/ UNCHANGED redis
  /\ Goto(r, "undoOwned")
  /\ UNCHANGED <<now, db, pools, acct, exp, req, adm, blocked>>

\* Release joins the errors of its calls and goes on to the next one.
ReleaseCooldownFails(r) ==
  /\ Fails /\ pc[r] = "relCool"
  /\ PublishCooldown(r) \/ UNCHANGED <<redis, blocked>>
  /\ Goto(r, AfterCool(req[r].work, req[r].use))
  /\ UNCHANGED <<now, db, pools, acct, exp, req, adm>>

ReleaseAffinityFails(r) ==
  /\ Fails /\ pc[r] = "relAff"
  /\ UnbindOwn(r) \/ UNCHANGED redis
  /\ Goto(r, AfterAffinity(req[r].work))
  /\ UNCHANGED <<now, db, pools, acct, exp, req, adm, blocked>>

ReleaseSaveFails(r) ==
  /\ Fails /\ pc[r] = "relSave"
  /\ WriteRow(r) \/ UNCHANGED db
  /\ Goto(r, "relSlot")
  /\ UNCHANGED <<now, redis, pools, acct, exp, req, adm, blocked>>

\* The slot stays in Redis until its deadline.
ReleaseSlotFails(r) ==
  /\ Fails /\ pc[r] \in {"relSlot", "dropSlot"}
  /\ GiveSlotBack(r) \/ UNCHANGED redis
  /\ Finish(r)
  /\ UNCHANGED <<now, db, pools, adm, blocked>>

CallFails(r) ==
  \/ AffinityFails(r)        \/ ReservedCallFails(r) \/ OwnedCallFails(r)
  \/ ReleaseCooldownFails(r) \/ ReleaseAffinityFails(r)
  \/ ReleaseSaveFails(r)     \/ ReleaseSlotFails(r)

----------------------------------------------------------------------------
(* Pool.Reload: list the table under the reload token, then reconcile the  *)
(* listing under the mutex.  Between the two the listing ages.             *)

WantsReload(i) ==
  {Sync} \cup {r \in Requests : Home[r] = i /\ pc[r] = "relReload"}
         \cup {p \in Admins : Home[p] = i /\ adm[p].pc = "reload"}

\* Startup, the 30 s synchronizer and configuration events reload as Sync.
ListAccounts(i, who) ==
  /\ reload[i].by = Nobody
  /\ reload' = [reload EXCEPT ![i] = [by |-> who, snap |-> db]]
  /\ UNCHANGED <<now, db, redis, loaded, strategy, states, request, adm, blocked, failures>>

\* What one listed row makes of the runtime state: a new state starts with no
\* inflight work, a NULL cooldown ends the local one, a later cooldown extends it.
Reconcile(st, row) ==
  [present |-> TRUE, status |-> row.status, until |-> row.until,
   cred |-> row.cred, quota |-> row.quota,
   till |-> IF row.until = 0 THEN 0 ELSE Later(st.till, row.until),
   inflight |-> st.inflight]

\* Mutant: accounts missing from the listing stay in the pool.
ReconciledKeepsMissing(i) ==
  [a \in Accounts |-> IF reload[i].snap[a].exists
                        THEN Reconcile(states[i][a], reload[i].snap[a])
                        ELSE states[i][a]]

Reconciled(i) ==
  [a \in Accounts |-> IF reload[i].snap[a].exists
                        THEN Reconcile(states[i][a], reload[i].snap[a])
                        ELSE NoState]

\* Reload has returned to a request or an administrator, which continues.
Resume(who) ==
  /\ pc' = [r \in Requests |-> IF r = who THEN "relSlot" ELSE pc[r]]
  /\ adm' = [p \in Admins |-> IF p = who THEN [adm[p] EXCEPT !.pc = "done"] ELSE adm[p]]

ReloadReturns(i) ==
  /\ reload' = [reload EXCEPT ![i] = TokenFree]
  /\ Resume(reload[i].by)

ApplyReload(i) ==
  /\ reload[i].by # Nobody
  /\ states' = [states EXCEPT ![i] = Reconciled(i)]
  /\ loaded' = [loaded EXCEPT ![i] = TRUE]
  /\ ReloadReturns(i)
  /\ UNCHANGED <<now, db, redis, strategy, acct, exp, req, blocked, failures>>

\* The listing failed: nothing is reconciled and, in Release, nobody is notified.
ReloadFails(i) ==
  /\ Fails /\ reload[i].by # Nobody
  /\ ReloadReturns(i)
  /\ UNCHANGED <<now, db, redis, loaded, strategy, states, acct, exp, req, blocked>>

\* A probe or an administrative call, whose context has a deadline, stops waiting
\* for the token.
ReloadTimesOut(i) ==
  /\ Fails /\ reload[i].by # Nobody
  /\ \E who \in (WantsReload(i) \cap (Probes \cup Admins)) \ {reload[i].by} : Resume(who)
  /\ UNCHANGED <<now, db, redis, pools, acct, exp, req, blocked>>

----------------------------------------------------------------------------
(* Administrative operations and OAuth refreshes: ManagementService        *)
(* .UpdateAccount reads the row and writes all of it back.                 *)

AdminDone(p) == adm' = [adm EXCEPT ![p] = [IdleAdmin EXCEPT !.pc = "done"]]
AdminGoto(p, step) == adm' = [adm EXCEPT ![p].pc = step]

AdminRead(p) ==
  /\ adm[p].pc = "idle"
  /\ \E op \in AdminOps, a \in Accounts :
       /\ db[a].exists
       /\ adm' = [adm EXCEPT ![p] =
            [pc |-> IF op = "delete" THEN "delete" ELSE "write", op |-> op, acct |-> a,
             row |-> IF op = "delete" THEN InitialRow ELSE db[a]]]
  /\ UNCHANGED <<now, db, redis, pools, request, blocked, failures>>

AfterWrite(op) ==
  CASE op \in {"activate", "refresh"} -> "clear"
    [] op = "quarantine"              -> "remove"
    [] OTHER                          -> "reload"

\* The statement an operation executes; it matches no row once the row is gone.
AdminStatement(p) ==
  LET a == adm[p].acct IN
  db' = [db EXCEPT ![a] =
           IF ~@.exists THEN @
           ELSE IF adm[p].pc = "delete" THEN [@ EXCEPT !.exists = FALSE]
           ELSE PrepareAccountUpdate(adm[p].row, adm[p].op, p)]

AdminWrite(p) ==
  /\ adm[p].pc = "write"
  /\ AdminStatement(p)
  /\ IF db[adm[p].acct].exists
       THEN adm' = [adm EXCEPT ![p].pc = AfterWrite(adm[p].op), ![p].row = InitialRow]
       ELSE AdminDone(p)
  /\ UNCHANGED <<now, redis, pools, request, blocked, failures>>

AdminDelete(p) ==
  /\ adm[p].pc = "delete"
  /\ AdminStatement(p)
  /\ IF db[adm[p].acct].exists THEN AdminGoto(p, "remove") ELSE AdminDone(p)
  /\ UNCHANGED <<now, redis, pools, request, blocked, failures>>

\* Mutant: the deletion evicts the account but does not reload.
RemoveAccountOnly(p) ==
  /\ adm[p].pc = "remove"
  /\ states' = [states EXCEPT ![Home[p]][adm[p].acct] = NoState]
  /\ AdminGoto(p, "done")
  /\ UNCHANGED <<now, db, redis, loaded, strategy, reload, request, blocked, failures>>

\* Pool.RemoveAccounts, without the reload token.
RemoveAccount(p) ==
  /\ adm[p].pc = "remove"
  /\ states' = [states EXCEPT ![Home[p]][adm[p].acct] = NoState]
  /\ AdminGoto(p, IF adm[p].op = "quarantine" THEN "clear" ELSE "reload")
  /\ UNCHANGED <<now, db, redis, loaded, strategy, reload, request, blocked, failures>>

\* Pool.ClearCooldown, after the transition has been persisted.
DeleteCooldown(a) ==
  /\ cooling' = [cooling EXCEPT ![a] = 0]
  /\ blocked' = [blocked EXCEPT ![a] = 0]
  /\ UNCHANGED <<slots, bound>>

ClearCooldown(p) ==
  /\ adm[p].pc = "clear"
  /\ DeleteCooldown(adm[p].acct)
  /\ AdminGoto(p, "reload")
  /\ UNCHANGED <<now, db, pools, request, failures>>

\* An error ends the operation, executed or not, except that a refresh and a
\* quarantine only log a cooldown they could not clear.
AdminFails(p) ==
  /\ Fails
  /\ \/ /\ adm[p].pc \in {"write", "delete"}
        /\ AdminStatement(p) \/ UNCHANGED db
        /\ AdminDone(p)
        /\ UNCHANGED <<redis, blocked>>
     \/ /\ adm[p].pc = "clear"
        /\ DeleteCooldown(adm[p].acct) \/ UNCHANGED <<redis, blocked>>
        /\ IF adm[p].op = "activate" THEN AdminDone(p) ELSE AdminGoto(p, "reload")
        /\ UNCHANGED db
  /\ UNCHANGED <<now, pools, request>>

AdminStep(p) ==
  \/ AdminRead(p) \/ AdminWrite(p) \/ AdminDelete(p)
  \/ RemoveAccount(p) \/ ClearCooldown(p) \/ AdminFails(p)

SetStrategy(i) ==
  /\ loaded[i]
  /\ \E s \in Strategies \ {strategy[i]} : strategy' = [strategy EXCEPT ![i] = s]
  /\ UNCHANGED <<now, db, redis, loaded, states, reload, request, adm, blocked, failures>>

\* The process dies and starts again: memory is lost, Redis and the table stay.
Crash(i) ==
  LET hit == {r \in Requests : Home[r] = i /\ pc[r] # "idle"} IN
  /\ Fails
  /\ loaded' = [loaded EXCEPT ![i] = FALSE]
  /\ states' = [states EXCEPT ![i] = [a \in Accounts |-> NoState]]
  /\ reload' = [reload EXCEPT ![i] = TokenFree]
  /\ pc' = [r \in Requests |-> IF r \in hit THEN "done" ELSE pc[r]]
  /\ acct' = [r \in Requests |-> IF r \in hit THEN NoAccount ELSE acct[r]]
  /\ exp' = [r \in Requests |-> IF r \in hit THEN 0 ELSE exp[r]]
  /\ req' = [r \in Requests |-> IF r \in hit THEN IdleReq ELSE req[r]]
  /\ adm' = [p \in Admins |-> IF Home[p] = i /\ adm[p].pc # "idle"
                                THEN [IdleAdmin EXCEPT !.pc = "done"] ELSE adm[p]]
  /\ UNCHANGED <<now, db, redis, strategy, blocked>>

Tick ==
  /\ now < MaxTime
  /\ now' = now + 1
  /\ UNCHANGED <<db, redis, pools, request, adm, blocked, failures>>

----------------------------------------------------------------------------
\* Acquire, from its first read to the lease or an error.
AcquireStep(r) ==
  \/ Start(r) \/ ReadAffinity(r) \/ FindStaleAffinity(r) \/ Reserve(r) \/ NoCandidate(r)
  \/ ClearUnavailable(r) \/ CheckCooldown(r) \/ AcquireLease(r) \/ LeaseRefused(r)
  \/ Rollback(r) \/ ReadCredentials(r) \/ ClearOldBinding(r)
  \/ BindSetNX(r) \/ BindGet(r) \/ BindExpire(r)
  \/ ProbeReserve(r) \/ ProbeRefused(r)

\* Release, from the end of the upstream exchange to the end of the request.
ReleaseStep(r) ==
  \/ ReleaseSection(r) \/ ReleaseCooldown(r) \/ ReleaseAffinity(r)
  \/ ReleaseSave(r) \/ ReleaseSlot(r)

Next ==
  \/ \E r \in Requests : AcquireStep(r) \/ ReleaseStep(r) \/ CallFails(r)
  \/ \E i \in Instances : \/ \E who \in WantsReload(i) : ListAccounts(i, who)
                          \/ ApplyReload(i) \/ ReloadFails(i) \/ ReloadTimesOut(i)
                          \/ SetStrategy(i) \/ Crash(i)
  \/ \E p \in Admins : AdminStep(p)
  \/ Tick

Spec == Init /\ [][Next]_vars

\* A started goroutine runs and an upstream exchange ends; waiting for the reload
\* token is first come, first served (receivers of a Go channel queue), not every
\* listing fails, and the synchronizer's ticker keeps asking for one.
Fairness ==
  /\ \A r \in Requests :
       /\ WF_vars(AcquireStep(r) \/ ReleaseStep(r))
       /\ SF_vars(r \in WantsReload(Home[r]) /\ ListAccounts(Home[r], r))
  /\ \A p \in Admins :
       /\ WF_vars(adm[p].pc # "idle" /\ AdminStep(p))
       /\ SF_vars(p \in WantsReload(Home[p]) /\ ListAccounts(Home[p], p))
  /\ \A i \in Instances : SF_vars(ListAccounts(i, Sync)) /\ SF_vars(ApplyReload(i))

FairSpec == Spec /\ Fairness

----------------------------------------------------------------------------
(* What makes the pool correct.                                            *)

Holders(a) == {r \in Requests : pc[r] \in OwnerSteps /\ acct[r] = a}
Reservations(i, a) ==
  {r \in Requests : Home[r] = i /\ pc[r] \in ReservedSteps /\ acct[r] = a}

\* Across all instances, crashes, lost replies and reloads, no more requests work
\* on an account under an unexpired lease than its ConcurrencyLimit allows.
Capacity ==
  \A a \in Accounts : Cardinality({r \in Holders(a) : exp[r] > now}) <= Limit[a]

\* The pools, Redis and every retry path together implement one semaphore with
\* expiring permits per account: a request works under a permit from its lease to
\* the end of its Release.
Semaphore == INSTANCE LeaseSemaphore WITH
  permit <- [r \in Requests |-> IF pc[r] \in OwnerSteps
                                 THEN [acct |-> acct[r], exp |-> exp[r]]
                                 ELSE [acct |-> NoAccount, exp |-> 0]]
ImplementsSemaphore == Semaphore!Spec

\* A pool never counts more inflight work than it has reservations, so no capacity
\* is lost for good; as long as no account leaves a pool the count is exact.
InflightAccounted ==
  \A i \in Instances, a \in Accounts :
    LET st == states[i][a]
        n  == Cardinality(Reservations(i, a))
    IN  /\ st.inflight <= n
        /\ AdminOps \cap {"delete", "quarantine"} = {} => st.inflight = n

\* While no call has failed and no instance has crashed, only a request between
\* its lease and the end of its Release occupies a Redis slot: no return path of
\* Acquire or Release forgets one.
NoSlotLeak ==
  failures = 0 =>
    \A a \in Accounts, r \in Requests : slots[a][r] # 0 => r \in Holders(a)

\* Health feedback, however late it arrives and whatever the pool that writes it
\* believes, never shortens a persisted cooldown that is still running, and ends it
\* only by taking the account out of scheduling.
FeedbackKeepsCooldown ==
  [][\A a \in Accounts :
       db[a].exists /\ db[a].status = "cooldown" /\ db[a].until > now /\ UNCHANGED adm
         => \/ db'[a].status \in Terminal
            \/ db'[a].status = "cooldown" /\ db'[a].until >= db[a].until]_vars

\* A terminal account changes only by an administrative or refresh transition.
TerminalSticks ==
  [][\A a \in Accounts :
       db[a].status \in Terminal /\ UNCHANGED adm => db'[a] = db[a]]_vars

\* Feedback changes a row only while the row still has the credential that the
\* request sent upstream.
FeedbackMatchesCredential ==
  [][\A r \in Requests :
       pc[r] = "relSave" /\ pc'[r] # "relSave" /\ db'[acct[r]] # db[acct[r]]
         => db[acct[r]].cred = req[r].used]_vars

\* The statement that saves feedback respects the row it finds, whatever has happened to the
\* account since the request began.
FeedbackRespectsRow == TerminalSticks /\ FeedbackMatchesCredential

\* No ordinary request goes on to lease an account before the deadline that any
\* instance has published for it, unless an administrator has activated it since.
NoAdmissionWhileBlocked ==
  [][\A r \in Requests :
       pc[r] = "checkCooldown" /\ pc'[r] = "acquireLease" => blocked[acct[r]] <= now]_vars

\* Once the instance that deleted an account has reloaded, no reload that listed
\* the table earlier brings the account back into its pool.
DeletedStaysRemoved ==
  failures = 0 => \A p \in Admins :
    adm[p].pc = "done" /\ adm[p].op = "delete" /\ adm[p].acct # NoAccount
      => ~states[Home[p]][adm[p].acct].present

\* A live binding of a conversation is never replaced in one step, and only a
\* request that has seen it, or works on its account, deletes it.
BindingStable ==
  [][\A k \in Keys :
       LET old == GetAffinity(bound[k], now) IN
       old # NoAccount /\ bound'[k].acct # old
         => /\ bound'[k] = NoBinding
            /\ \E r \in Requests : /\ KeyOf[r] = k /\ pc'[r] # pc[r]
                                   /\ old \in {req[r].coord, acct[r]}]_vars

\* A request that passes over the bound account because it is full, here or in
\* Redis, keeps the binding: it deletes one only for an account its caller
\* excluded or a tier preference ruled out.
FullAccountKeepsBinding ==
  Strategies = {"affinity"} /\ ~PreferBest =>
    \A r \in Requests :
      pc[r] = "clearOld" => req[r].coord \in req[r].excluded \ req[r].full

\* Every request ends: the selection loop of Acquire, the three binding attempts
\* and the wait for the reload token in Release all terminate.
EveryRequestEnds == \A r \in Requests : <>(pc[r] = "done")

\* When requests and administrators are quiet, every pool comes to agree with the
\* table about which accounts exist, their status and their credential.
PoolsConverge ==
  <>[](\A i \in Instances, a \in Accounts :
         /\ loaded[i]
         /\ states[i][a].present = db[a].exists
         /\ db[a].exists => /\ states[i][a].status = db[a].status
                            /\ states[i][a].cred = db[a].cred)

\* Feedback "does not overwrite an administrator's scheduling edits": a write that
\* reports no failure does not put an activated account back into a cooldown.
ActivationKept ==
  [][\A r \in Requests :
       pc[r] = "relSave" /\ pc'[r] # "relSave" /\ ~req[r].work.publish
         /\ db[acct[r]].status = "active"
         => db'[acct[r]].status = "active"]_vars

============================================================================
