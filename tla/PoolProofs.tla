------------------------------ MODULE PoolProofs ------------------------------
(***************************************************************************)
(* What makes the account pool correct, for any number of instances,       *)
(* accounts, requests and administrators:                                  *)
(*                                                                         *)
(*   its types, the capacity of an account and the refinement of           *)
(*   LeaseSemaphore, the counts of inflight work, the return of Redis      *)
(*   slots, deletions, the bindings of conversations, and what feedback    *)
(*   may do to a row and to a published cooldown, and for which credential *)
(*   it does it.                                                           *)
(*                                                                         *)
(* TypeOK is not inductive.  That a counter stays in Nat, or that the      *)
(* account of a request is an account wherever a step indexes with it,     *)
(* depends on where the request is: TypeInv adds, as Place, what the       *)
(* current step says about the account and the locals of a request, and,   *)
(* as TokensOK, that a request named by a reload token waits for it.       *)
(*                                                                         *)
(* Every other invariant rests on TypeInv.  Capacity is not inductive      *)
(* either: it speaks of requests, while the Lua script decides on the      *)
(* members of a Redis set.  SlotInv connects the two: a request under an   *)
(* unexpired lease is a member with its own deadline, the live members     *)
(* never exceed the limit, and only owners, failed calls and ended         *)
(* requests have a member at all.  The sections below each name their own  *)
(* invariant.                                                              *)
(***************************************************************************)
EXTENDS AccountPool, FiniteSetTheorems, TLAPS

\* Lease sets, shared cooldowns and affinity bindings.
RedisOK ==
  /\ slots \in [Accounts -> [Requests -> Nat]]
  /\ cooling \in [Accounts -> Nat]
  /\ bound \in [Keys -> [acct : AccountOrNone, exp : Nat]]

\* What all instances share, with the clock and the history variables.
SharedOK ==
  /\ now \in Nat
  /\ db \in [Accounts -> Row]
  /\ RedisOK
  /\ blocked \in [Accounts -> Nat]
  /\ failures \in Nat

\* The memory of the instances.
PoolsOK ==
  /\ loaded \in [Instances -> BOOLEAN]
  /\ strategy \in [Instances -> StrategyNames]
  /\ states \in [Instances -> [Accounts -> RuntimeState]]
  /\ reload \in [Instances -> [by : TokenHolders, snap : [Accounts -> Row]]]

\* What the step of a request says about its account and its locals.
Place(r, step, a, x) ==
  /\ step \in OwnerSteps \cup ReservedSteps => a \in Accounts
  /\ step \in {"getAffinity", "clearOld"} \cup BindSteps => x.use = TRUE
  /\ x.coord # NoAccount => x.use = TRUE /\ step # "idle"
  /\ x.use = TRUE => KeyOf[r] \in Keys
  /\ x.tries = MaxBindAttempts => step \in {"undoOwned", "dropSlot"}

\* The requests, each in a well-formed place.
RequestsOK ==
  /\ pc \in [Requests -> Steps]
  /\ acct \in [Requests -> AccountOrNone]
  /\ exp \in [Requests -> Nat]
  /\ req \in [Requests -> RequestState]
  /\ \A r \in Requests : Place(r, pc[r], acct[r], req[r])

\* The administrators; one that is about to write knows its account.
AdminsOK ==
  /\ adm \in [Admins -> AdminState]
  /\ \A p \in Admins :
       adm[p].pc \in {"write", "delete", "remove", "clear"} => adm[p].acct \in Accounts

\* A request that holds the reload token of an instance runs there and waits for it.
TokensOK ==
  \A i \in Instances, r \in Requests :
    reload[i].by = r => Home[r] = i /\ pc[r] = "relReload"

\* The inductive invariant.
TypeInv == SharedOK /\ PoolsOK /\ RequestsOK /\ AdminsOK /\ TokensOK

USE DEF MaxBindAttempts

----------------------------------------------------------------------------
(* The operators the actions are built from.                               *)

\* The initial values of rows, runtime states, requests, administrators and tokens are
\* well formed.
LEMMA ConstantTypes ==
  /\ InitialRow \in Row
  /\ NoState \in RuntimeState
  /\ NoWork \in ReleaseWork
  /\ IdleReq \in RequestState
  /\ IdleAdmin \in AdminState
  /\ TokenFree \in [by : TokenHolders, snap : [Accounts -> Row]]
<1>1. InitialRow \in Row /\ NoState \in RuntimeState /\ NoWork \in ReleaseWork
  BY PoolAssumption DEF InitialRow, Row, Status, NoState, RuntimeState, NoWork, ReleaseWork
<1>2. IdleReq \in RequestState
  BY <1>1, PoolAssumption DEF IdleReq, RequestState, AccountOrNone, Status
<1>3. IdleAdmin \in AdminState
  BY <1>1 DEF IdleAdmin, AdminState, AdminSteps, AdminOpNames, AccountOrNone
<1>4. TokenFree \in [by : TokenHolders, snap : [Accounts -> Row]]
  BY <1>1 DEF TokenFree, TokenHolders, NoSnapshot
<1>5. QED BY <1>1, <1>2, <1>3, <1>4

\* The later of two times is a time.
LEMMA LaterType == ASSUME NEW x \in Nat, NEW y \in Nat PROVE Later(x, y) \in Nat
  BY DEF Later

\* GetAffinity answers with an account or with none.
LEMMA AffinityType ==
  ASSUME NEW b \in [acct : AccountOrNone, exp : Nat], NEW t \in Nat
  PROVE  GetAffinity(b, t) \in AccountOrNone
  BY DEF GetAffinity, AccountOrNone

\* The three scripts that write a binding leave a binding.
LEMMA BindingTypes ==
  ASSUME NEW b \in [acct : AccountOrNone, exp : Nat], NEW t \in Nat,
         NEW a \in AccountOrNone, NEW ttl \in Nat
  PROVE  /\ CompareDelete(b, a, t) \in [acct : AccountOrNone, exp : Nat]
         /\ SetNX(b, a, ttl, t) \in [acct : AccountOrNone, exp : Nat]
         /\ CompareExpire(b, a, ttl, t) \in [acct : AccountOrNone, exp : Nat]
  BY DEF CompareDelete, SetNX, CompareExpire, NoBinding, AccountOrNone

\* The two lease scripts leave a set of members with deadlines.
LEMMA LeaseTypes ==
  ASSUME NEW z \in [Requests -> Nat], NEW o \in Requests, NEW limit \in Nat,
         NEW ttl \in Nat, NEW t \in Nat
  PROVE  /\ AcquireLeaseSlot(z, o, limit, ttl, t) \in [Requests -> Nat]
         /\ ReleaseLeaseSlot(z, o) \in [Requests -> Nat]
  BY DEF AcquireLeaseSlot, ReleaseLeaseSlot, PurgeExpired

\* UpdateAccountRuntime turns a row into a row.
LEMMA RowUpdateTypes ==
  ASSUME NEW row \in Row, NEW in \in Row, NEW t \in Nat
  PROVE  UpdateAccountRuntime(row, in, t) \in Row
  BY DEF UpdateAccountRuntime, Row

\* prepareAccountUpdate turns a row into a row.
LEMMA RowPrepareTypes ==
  ASSUME NEW row \in Row, NEW op, NEW fresh \in Creds
  PROVE  PrepareAccountUpdate(row, op, fresh) \in Row
  BY DEF PrepareAccountUpdate, Row, Status

\* Promoting a runtime state, giving back its in-flight unit and reading its row keep types.
LEMMA StateTypes ==
  ASSUME NEW st \in RuntimeState, NEW t \in Nat
  PROVE  /\ Promote(st, t) \in RuntimeState
         /\ Decrement(st) \in RuntimeState
         /\ RowOf(st) \in Row
<1>1. Promote(st, t) \in RuntimeState
  BY DEF Promote, RuntimeState, Status
<1>2. Decrement(st) \in RuntimeState
  <2>1. (IF st.present /\ st.inflight > 0 THEN st.inflight - 1 ELSE st.inflight) \in Nat
    BY DEF RuntimeState
  <2>2. QED BY <2>1 DEF Decrement, RuntimeState
<1>3. RowOf(st) \in Row
  BY DEF RowOf, Row, RuntimeState
<1>4. QED BY <1>1, <1>2, <1>3

\* Reload merges a runtime state and a row into a runtime state.
LEMMA ReconcileType ==
  ASSUME NEW st \in RuntimeState, NEW row \in Row
  PROVE  Reconcile(st, row) \in RuntimeState
  BY LaterType DEF Reconcile, Row, RuntimeState

\* A cooldown leaves a runtime state.
LEMMA CoolType ==
  ASSUME NEW st \in RuntimeState, NEW t \in Nat
  PROVE  Cool(st, t) \in RuntimeState
  BY DEF Cool, RuntimeState, Status

\* The scan of selectLocked, which promotes expired cooldowns, leaves a pool.
LEMMA ScannedType ==
  ASSUME SharedOK, PoolsOK, NEW i \in Instances, NEW seen
  PROVE  Scanned(i, seen, now) \in [Instances -> [Accounts -> RuntimeState]]
  BY StateTypes DEF Scanned, SharedOK, PoolsOK

----------------------------------------------------------------------------
(* Type correctness, action by action.                                     *)

\* The initial state is well formed.
LEMMA InitType == Init => TypeInv
<1> SUFFICES ASSUME Init PROVE TypeInv
  OBVIOUS
<1>1. SharedOK
  BY ConstantTypes DEF Init, SharedOK, RedisOK, NoBinding, AccountOrNone
<1>2. PoolsOK
  BY ConstantTypes DEF Init, PoolsOK, StrategyNames
<1>3. RequestsOK
  BY ConstantTypes, PoolAssumption
  DEF Init, RequestsOK, Place, IdleReq, AccountOrNone, Steps, OwnerSteps, ReservedSteps, BindSteps
<1>4. AdminsOK
  BY ConstantTypes DEF Init, AdminsOK, IdleAdmin
<1>5. TokensOK
  BY PoolAssumption DEF Init, TokensOK, TokenFree
<1>6. QED BY <1>1, <1>2, <1>3, <1>4, <1>5 DEF TypeInv

\* What the invariant says about one request.
LEMMA RequestFacts ==
  ASSUME TypeInv, NEW r \in Requests
  PROVE  /\ Home[r] \in Instances
         /\ pc[r] \in Steps /\ acct[r] \in AccountOrNone /\ exp[r] \in Nat
         /\ req[r] \in RequestState
         /\ Place(r, pc[r], acct[r], req[r])
         /\ now \in Nat
         /\ states[Home[r]] \in [Accounts -> RuntimeState]
  BY PoolAssumption DEF TypeInv, SharedOK, PoolsOK, RequestsOK

\* A step of a request that ends in a well-formed place.
LEMMA RequestMoves ==
  ASSUME RequestsOK, TokensOK, NEW r \in Requests, pc[r] # "relReload",
         NEW step \in Steps, NEW a \in AccountOrNone, NEW e \in Nat,
         NEW x \in RequestState, Place(r, step, a, x),
         pc' = [pc EXCEPT ![r] = step], acct' = [acct EXCEPT ![r] = a],
         exp' = [exp EXCEPT ![r] = e], req' = [req EXCEPT ![r] = x],
         UNCHANGED reload
  PROVE  RequestsOK' /\ TokensOK'
<1>1. RequestsOK'
  BY DEF RequestsOK
<1>2. TokensOK'
  BY DEF RequestsOK, TokensOK
<1>3. QED BY <1>1, <1>2

\* The same for a step that keeps the account, and for one that keeps the locals.
LEMMA RequestGoes ==
  ASSUME RequestsOK, TokensOK, NEW r \in Requests, pc[r] # "relReload",
         NEW step \in Steps, NEW x \in RequestState, Place(r, step, acct[r], x),
         Goto(r, step), req' = [req EXCEPT ![r] = x], UNCHANGED <<acct, exp, reload>>
  PROVE  RequestsOK' /\ TokensOK'
<1>1. /\ acct[r] \in AccountOrNone /\ exp[r] \in Nat
      /\ acct' = [acct EXCEPT ![r] = acct[r]] /\ exp' = [exp EXCEPT ![r] = exp[r]]
  BY DEF RequestsOK
<1>2. QED BY <1>1, RequestMoves DEF Goto

\* The same for a step that changes neither the account nor the locals.
LEMMA RequestJumps ==
  ASSUME RequestsOK, TokensOK, NEW r \in Requests, pc[r] # "relReload",
         NEW step \in Steps, Place(r, step, acct[r], req[r]),
         Goto(r, step), UNCHANGED <<acct, exp, req, reload>>
  PROVE  RequestsOK' /\ TokensOK'
<1>1. req[r] \in RequestState /\ req' = [req EXCEPT ![r] = req[r]]
  BY DEF RequestsOK
<1>2. QED BY <1>1, RequestGoes

\* A request that ends forgets its account and its locals.
LEMMA Finishes ==
  ASSUME RequestsOK, TokensOK, NEW r \in Requests, pc[r] # "relReload",
         Finish(r), UNCHANGED reload
  PROVE  RequestsOK' /\ TokensOK'
<1>1. Place(r, "done", NoAccount, IdleReq)
  BY PoolAssumption DEF Place, IdleReq, OwnerSteps, ReservedSteps, BindSteps
<1>2. "done" \in Steps /\ NoAccount \in AccountOrNone
  BY DEF Steps, AccountOrNone
<1>3. QED
  BY <1>1, <1>2, RequestMoves, ConstantTypes DEF Finish, Goto

\* A place changes little from step to step.
LEMMA NextPlace ==
  ASSUME NEW r, NEW s, NEW a, NEW x, Place(r, s, a, x), s \notin {"undoOwned", "dropSlot"},
         NEW t, NEW b, NEW y, t # "idle",
         y.use = x.use, y.coord \in {x.coord, NoAccount}, y.tries = x.tries,
         t \in OwnerSteps \cup ReservedSteps => b \in Accounts,
         t \in {"getAffinity", "clearOld"} \cup BindSteps => y.use = TRUE
  PROVE  Place(r, t, b, y)
  BY DEF Place

\* Steps that leave everything but a request, its pool or Redis alone.
LEMMA OnlyRequest ==
  ASSUME TypeInv, RequestsOK', TokensOK',
         UNCHANGED <<now, db, redis, pools, adm, blocked>>,
         UNCHANGED failures \/ Fails
  PROVE  TypeInv'
  BY DEF Fails, TypeInv, SharedOK, RedisOK, PoolsOK, AdminsOK, redis, pools

\* The same for a step of a request and its pool.
LEMMA OnlyPool ==
  ASSUME TypeInv, RequestsOK', TokensOK',
         states' \in [Instances -> [Accounts -> RuntimeState]],
         UNCHANGED <<now, db, redis, loaded, strategy, reload, adm, blocked>>,
         UNCHANGED failures \/ Fails
  PROVE  TypeInv'
  BY DEF Fails, TypeInv, SharedOK, RedisOK, PoolsOK, AdminsOK, redis

\* The same for a step of a request and Redis.
LEMMA OnlyRedis ==
  ASSUME TypeInv, RequestsOK', TokensOK', RedisOK',
         UNCHANGED <<now, db, pools, adm, blocked>>,
         UNCHANGED failures \/ Fails
  PROVE  TypeInv'
  BY DEF Fails, TypeInv, SharedOK, PoolsOK, AdminsOK, pools

\* The Redis calls keep Redis well formed.
LEMMA RedisCalls ==
  ASSUME TypeInv, NEW r \in Requests,
         \/ TakeSlot(r) \/ GiveSlotBack(r) \/ DeleteBinding(r)
         \/ CreateBinding(r) \/ RefreshBinding(r) \/ UnbindOwn(r)
         \/ UNCHANGED redis
  PROVE  RedisOK'
<1>1. RedisOK /\ now \in Nat /\ acct[r] \in AccountOrNone
      /\ req[r].coord \in AccountOrNone /\ req[r].seen \in AccountOrNone
  BY RequestFacts DEF TypeInv, SharedOK, RequestState
<1>2. LeaseTTL \in Nat /\ AffinityTTL \in Nat /\ Limit \in [Accounts -> Nat]
  BY PoolAssumption
<1>3. CASE TakeSlot(r)
  BY <1>1, <1>2, <1>3, LeaseTypes DEF TakeSlot, RedisOK
<1>4. CASE GiveSlotBack(r)
  BY <1>1, <1>4 DEF GiveSlotBack, RedisOK, ReleaseLeaseSlot
<1>5. CASE DeleteBinding(r)
  BY <1>1, <1>2, <1>5, BindingTypes DEF DeleteBinding, RedisOK
<1>6. CASE CreateBinding(r)
  BY <1>1, <1>2, <1>6, BindingTypes DEF CreateBinding, RedisOK
<1>7. CASE RefreshBinding(r)
  BY <1>1, <1>2, <1>7, BindingTypes DEF RefreshBinding, RedisOK
<1>8. CASE UnbindOwn(r)
  BY <1>1, <1>2, <1>8, BindingTypes DEF UnbindOwn, RedisOK
<1>9. CASE UNCHANGED redis
  BY <1>1, <1>9 DEF redis, RedisOK
<1>10. QED BY <1>3, <1>4, <1>5, <1>6, <1>7, <1>8, <1>9

\* Acquire is entered.
LEMMA StartType == ASSUME TypeInv, NEW r \in Requests, Start(r) PROVE TypeInv'
<1> DEFINE use == strategy[Home[r]] = "affinity" /\ KeyOf[r] # NoKey
           step == IF use THEN "getAffinity" ELSE "select"
<1>1. PICK ex \in Excludes :
        req' = [req EXCEPT ![r].use = use, ![r].excluded = ex] /\ Goto(r, step)
  BY DEF Start
<1> DEFINE x == [req[r] EXCEPT !.use = use, !.excluded = ex]
<1>2. pc[r] = "idle" /\ req[r] \in RequestState /\ Place(r, "idle", acct[r], req[r])
  BY RequestFacts DEF Start
<1>3. use \in BOOLEAN /\ (use => KeyOf[r] \in Keys) /\ ex \in SUBSET Accounts
  BY PoolAssumption
<1>4. step \in Steps /\ step \notin {"clearOld"} \cup OwnerSteps \cup ReservedSteps
  BY DEF Steps, OwnerSteps, ReservedSteps, BindSteps
<1>5. req' = [req EXCEPT ![r] = x]
  BY <1>1
<1> HIDE DEF use, step
<1>6. x \in RequestState
  BY <1>2, <1>3 DEF RequestState
<1>7. x.use = use /\ x.coord = req[r].coord /\ x.tries = req[r].tries
  BY <1>2 DEF RequestState
<1> HIDE DEF x
<1>8. Place(r, step, acct[r], x)
  <2>1. req[r].coord = NoAccount /\ req[r].tries # MaxBindAttempts
    BY <1>2 DEF Place
  <2>2. step \in {"getAffinity", "clearOld"} \cup BindSteps => use
    BY <1>4 DEF step, OwnerSteps
  <2>3. QED BY <1>3, <1>4, <1>7, <2>1, <2>2 DEF Place
<1>9. RequestsOK' /\ TokensOK'
  BY <1>1, <1>2, <1>4, <1>5, <1>6, <1>8, RequestGoes DEF TypeInv, Start, pools
<1>10. QED BY <1>9, OnlyRequest DEF Start

\* The affinity read of Acquire.
LEMMA ReadAffinityType == ASSUME TypeInv, NEW r \in Requests, ReadAffinity(r) PROVE TypeInv'
<1> DEFINE x == [req[r] EXCEPT !.coord = GetAffinity(bound[KeyOf[r]], now)]
<1>1. /\ pc[r] = "getAffinity" /\ req[r] \in RequestState
      /\ Place(r, "getAffinity", acct[r], req[r]) /\ now \in Nat
  BY RequestFacts DEF ReadAffinity
<1>2. req[r].use = TRUE /\ KeyOf[r] \in Keys
  BY <1>1 DEF Place
<1>3. GetAffinity(bound[KeyOf[r]], now) \in AccountOrNone
  BY <1>1, <1>2, AffinityType DEF TypeInv, SharedOK, RedisOK
<1>4. x \in RequestState /\ x.use = TRUE /\ x.tries = req[r].tries
  BY <1>1, <1>2, <1>3 DEF RequestState
<1>5. req' = [req EXCEPT ![r] = x]
  BY DEF ReadAffinity
<1> HIDE DEF x
<1>6. Place(r, "select", acct[r], x)
  BY <1>1, <1>2, <1>4 DEF Place, OwnerSteps, ReservedSteps, BindSteps
<1>7. RequestsOK' /\ TokensOK'
  BY <1>1, <1>4, <1>5, <1>6, RequestGoes DEF TypeInv, ReadAffinity, pools, Steps
<1>8. QED BY <1>7, OnlyRequest DEF ReadAffinity

\* The scan that finds the bound account unusable.
LEMMA FindStaleAffinityType ==
  ASSUME TypeInv, NEW r \in Requests, FindStaleAffinity(r) PROVE TypeInv'
<1>1. Place(r, "clearUnavailable", acct[r], req[r])
  BY RequestFacts DEF FindStaleAffinity, Place, OwnerSteps, ReservedSteps, BindSteps
<1>2. RequestsOK' /\ TokensOK'
  BY <1>1, RequestJumps DEF TypeInv, FindStaleAffinity, Steps
<1>3. states' \in [Instances -> [Accounts -> RuntimeState]]
  BY RequestFacts, ScannedType DEF TypeInv, FindStaleAffinity
<1>4. QED BY <1>2, <1>3, OnlyPool DEF FindStaleAffinity

\* Selection and the local reservation.
LEMMA ReserveType == ASSUME TypeInv, NEW r \in Requests, Reserve(r) PROVE TypeInv'
<1> DEFINE i == Home[r]
           seen == (Accounts \ req[r].excluded) \cup {req[r].coord}
           scanned == Scanned(i, seen, now)
<1>1. PICK a \in Choices(r) :
        /\ states' = [scanned EXCEPT ![i][a].inflight = @ + 1]
        /\ acct' = [acct EXCEPT ![r] = a]
        /\ req' = [req EXCEPT
                ![r].status = scanned[i][a].status,
                ![r].cred = scanned[i][a].cred,
                ![r].preserve = /\ req[r].coord \notin {NoAccount, a}
                                /\ AtCapacity(r, req[r].coord)]
  BY DEF Reserve
<1>2. /\ pc[r] = "select" /\ req[r] \in RequestState /\ exp[r] \in Nat
      /\ Place(r, "select", acct[r], req[r]) /\ i \in Instances
  BY RequestFacts DEF Reserve
<1>3. a \in Accounts
  BY <1>1 DEF Choices, BestTier, Candidates
<1>4. scanned \in [Instances -> [Accounts -> RuntimeState]]
  BY <1>2, ScannedType DEF TypeInv
<1> HIDE DEF i, scanned
<1>5. scanned[i][a] \in RuntimeState
  BY <1>2, <1>3, <1>4
<1>6. states' \in [Instances -> [Accounts -> RuntimeState]]
  <2>1. [scanned[i][a] EXCEPT !.inflight = @ + 1] \in RuntimeState
    BY <1>5 DEF RuntimeState
  <2>2. QED BY <2>1, <1>1, <1>2, <1>3, <1>4
<1> DEFINE preserve == req[r].coord \notin {NoAccount, a} /\ AtCapacity(r, req[r].coord)
           x == [req[r] EXCEPT !.status = scanned[i][a].status, !.cred = scanned[i][a].cred,
                               !.preserve = preserve]
<1>7. req' = [req EXCEPT ![r] = x]
  BY <1>1
<1>8. preserve \in BOOLEAN
  OBVIOUS
<1> HIDE DEF preserve
<1>9. x \in RequestState /\ x.use = req[r].use /\ x.coord = req[r].coord /\ x.tries = req[r].tries
  BY <1>2, <1>5, <1>8 DEF RequestState, RuntimeState
<1> HIDE DEF x
<1>10. Place(r, "checkCooldown", a, x)
  BY <1>2, <1>3, <1>9, NextPlace DEF BindSteps
<1>11. RequestsOK' /\ TokensOK'
  <2>1. exp' = [exp EXCEPT ![r] = exp[r]]
    BY DEF TypeInv, RequestsOK, Reserve
  <2>2. QED
    BY <1>1, <1>2, <1>3, <1>7, <1>9, <1>10, <2>1, RequestMoves
    DEF TypeInv, Reserve, Goto, Steps, ReservedSteps, AccountOrNone
<1>12. QED BY <1>6, <1>11, OnlyPool DEF Reserve

\* Acquire finds nobody and returns ErrNoAccount.
LEMMA NoCandidateType == ASSUME TypeInv, NEW r \in Requests, NoCandidate(r) PROVE TypeInv'
<1>1. RequestsOK' /\ TokensOK'
  BY Finishes DEF TypeInv, NoCandidate
<1>2. states' \in [Instances -> [Accounts -> RuntimeState]]
  BY RequestFacts, ScannedType DEF TypeInv, NoCandidate
<1>3. QED BY <1>1, <1>2, OnlyPool DEF NoCandidate

\* The stale binding is removed from Redis and from the pool.
LEMMA ClearUnavailableType ==
  ASSUME TypeInv, NEW r \in Requests, ClearUnavailable(r) PROVE TypeInv'
<1> DEFINE x == [req[r] EXCEPT !.coord = NoAccount]
<1>1. /\ pc[r] = "clearUnavailable" /\ req[r] \in RequestState
      /\ Place(r, "clearUnavailable", acct[r], req[r])
  BY RequestFacts DEF ClearUnavailable
<1>2. req' = [req EXCEPT ![r] = x]
  BY DEF ClearUnavailable
<1>3. x \in RequestState /\ x.use = req[r].use /\ x.coord = NoAccount /\ x.tries = req[r].tries
  BY <1>1 DEF RequestState, AccountOrNone
<1> HIDE DEF x
<1>4. Place(r, "select", acct[r], x)
  BY <1>1, <1>3, NextPlace DEF OwnerSteps, ReservedSteps, BindSteps
<1>5. RequestsOK' /\ TokensOK'
  BY <1>1, <1>2, <1>3, <1>4, RequestGoes DEF TypeInv, ClearUnavailable, pools, Steps
<1>6. RedisOK'
  BY RedisCalls DEF ClearUnavailable
<1>7. QED BY <1>5, <1>6, OnlyRedis DEF ClearUnavailable

\* The shared cooldown check after the reservation.
LEMMA CheckCooldownType ==
  ASSUME TypeInv, NEW r \in Requests, CheckCooldown(r) PROVE TypeInv'
<1>1. /\ pc[r] = "checkCooldown" /\ req[r] \in RequestState
      /\ Place(r, "checkCooldown", acct[r], req[r]) /\ acct[r] \in Accounts
  BY RequestFacts DEF CheckCooldown, Place, ReservedSteps
<1>2. RequestsOK' /\ TokensOK'
  <2>1. CASE CoolingDown(cooling[acct[r]], now)
    <3> DEFINE x == [req[r] EXCEPT !.until = cooling[acct[r]],
                                   !.excluded = req[r].excluded \cup {acct[r]}]
               step == IF acct[r] = req[r].coord THEN "undoCooling" ELSE "undoRetry"
    <3>1. req' = [req EXCEPT ![r] = x] /\ Goto(r, step)
      BY <2>1 DEF CheckCooldown
    <3>2. cooling[acct[r]] \in Nat
      BY <1>1 DEF TypeInv, SharedOK, RedisOK
    <3>3. x \in RequestState /\ x.use = req[r].use /\ x.coord = req[r].coord
          /\ x.tries = req[r].tries
      BY <1>1, <3>2 DEF RequestState
    <3>4. step \in {"undoCooling", "undoRetry"}
      OBVIOUS
    <3> HIDE DEF x, step
    <3>5. Place(r, step, acct[r], x)
      BY <1>1, <3>3, <3>4, NextPlace DEF BindSteps
    <3>6. QED
      BY <1>1, <3>1, <3>3, <3>4, <3>5, RequestGoes
      DEF TypeInv, CheckCooldown, pools, Steps, ReservedSteps
  <2>2. CASE ~CoolingDown(cooling[acct[r]], now)
    <3>1. Place(r, "acquireLease", acct[r], req[r])
      BY <1>1, NextPlace DEF BindSteps
    <3>2. QED
      BY <1>1, <2>2, <3>1, RequestJumps DEF TypeInv, CheckCooldown, pools, Steps, ReservedSteps
  <2>3. QED BY <2>1, <2>2
<1>3. QED BY <1>2, OnlyRequest DEF CheckCooldown

\* The lease script grants a slot.
LEMMA AcquireLeaseType ==
  ASSUME TypeInv, NEW r \in Requests, AcquireLease(r) PROVE TypeInv'
<1>1. /\ pc[r] = "acquireLease" /\ req[r] \in RequestState /\ now \in Nat
      /\ Place(r, "acquireLease", acct[r], req[r]) /\ acct[r] \in Accounts
  BY RequestFacts DEF AcquireLease, Place, ReservedSteps
<1>2. Place(r, "credentials", acct[r], req[r])
  BY <1>1, NextPlace DEF BindSteps
<1>3. RequestsOK' /\ TokensOK'
  <2>1. now + LeaseTTL \in Nat
    BY <1>1, PoolAssumption
  <2>2. /\ acct' = [acct EXCEPT ![r] = acct[r]] /\ req' = [req EXCEPT ![r] = req[r]]
        /\ "credentials" \in Steps /\ acct[r] \in AccountOrNone
    BY <1>1 DEF TypeInv, RequestsOK, AcquireLease, Steps, OwnerSteps, AccountOrNone
  <2>3. QED
    BY <1>1, <1>2, <2>1, <2>2, RequestMoves DEF TypeInv, AcquireLease, Goto, pools
<1>4. RedisOK'
  BY RedisCalls DEF AcquireLease
<1>5. QED BY <1>3, <1>4, OnlyRedis DEF AcquireLease

\* The lease script refuses; the reservation is rolled back.
LEMMA LeaseRefusedType ==
  ASSUME TypeInv, NEW r \in Requests, LeaseRefused(r) PROVE TypeInv'
<1>1. /\ pc[r] = "acquireLease" /\ req[r] \in RequestState
      /\ Place(r, "acquireLease", acct[r], req[r]) /\ acct[r] \in Accounts
  BY RequestFacts DEF LeaseRefused, Place, ReservedSteps
<1>2. RequestsOK' /\ TokensOK'
  <2>1. CASE r \in Probes
    <3>1. Place(r, "undoFail", acct[r], req[r])
      BY <1>1, NextPlace DEF BindSteps
    <3>2. QED
      BY <1>1, <2>1, <3>1, RequestJumps DEF TypeInv, LeaseRefused, pools, Steps, ReservedSteps
  <2>2. CASE r \notin Probes
    <3> DEFINE x == [req[r] EXCEPT !.excluded = req[r].excluded \cup {acct[r]},
                                   !.full = req[r].full \cup {acct[r]}]
    <3>1. req' = [req EXCEPT ![r] = x]
      BY <2>2 DEF LeaseRefused
    <3>2. x \in RequestState /\ x.use = req[r].use /\ x.coord = req[r].coord
          /\ x.tries = req[r].tries
      BY <1>1 DEF RequestState
    <3> HIDE DEF x
    <3>3. Place(r, "undoRetry", acct[r], x)
      BY <1>1, <3>2, NextPlace DEF BindSteps
    <3>4. QED
      BY <1>1, <2>2, <3>1, <3>2, <3>3, RequestGoes
      DEF TypeInv, LeaseRefused, pools, Steps, ReservedSteps
  <2>3. QED BY <2>1, <2>2
<1>3. RedisOK'
  BY RedisCalls DEF LeaseRefused
<1>4. QED BY <1>2, <1>3, OnlyRedis DEF LeaseRefused

\* rollbackReservation, with or without a slot to give back.
LEMMA RollbackType == ASSUME TypeInv, NEW r \in Requests, Rollback(r) PROVE TypeInv'
<1>1. /\ pc[r] \in {"undoFail", "undoRetry", "undoCooling", "undoOwned"}
      /\ req[r] \in RequestState /\ exp[r] \in Nat /\ Home[r] \in Instances
      /\ Place(r, pc[r], acct[r], req[r]) /\ acct[r] \in Accounts
  BY RequestFacts DEF Rollback, Place, ReservedSteps
<1>2. states' \in [Instances -> [Accounts -> RuntimeState]]
  <2> DEFINE st == states[Home[r]][acct[r]]
             new == IF st.present
                      THEN [Decrement(st) EXCEPT !.till = Later(@, req[r].until)] ELSE st
  <2>1. st \in RuntimeState /\ Decrement(st) \in RuntimeState
    BY <1>1, StateTypes DEF TypeInv, PoolsOK, SharedOK
  <2>2. Later(Decrement(st).till, req[r].until) \in Nat
    BY <1>1, <2>1, LaterType DEF RuntimeState, RequestState
  <2>3. new \in RuntimeState
    <3> HIDE DEF st
    <3>1. QED BY <2>1, <2>2 DEF RuntimeState
  <2>4. states' = [states EXCEPT ![Home[r]][acct[r]] = new]
    BY DEF Rollback
  <2>5. QED BY <1>1, <2>3, <2>4 DEF TypeInv, PoolsOK
<1>3. RequestsOK' /\ TokensOK'
  <2>1. CASE pc[r] = "undoFail"
    BY <2>1, Finishes DEF TypeInv, Rollback
  <2>2. CASE pc[r] \in {"undoRetry", "undoCooling"}
    <3> DEFINE x == [req[r] EXCEPT !.until = 0]
               step == IF pc[r] = "undoCooling" THEN "clearUnavailable" ELSE "select"
    <3>1. /\ req' = [req EXCEPT ![r] = x] /\ pc' = [pc EXCEPT ![r] = step]
          /\ acct' = [acct EXCEPT ![r] = NoAccount] /\ UNCHANGED exp
      BY <2>2 DEF Rollback, Goto
    <3>2. x \in RequestState /\ x.use = req[r].use /\ x.coord = req[r].coord
          /\ x.tries = req[r].tries
      BY <1>1 DEF RequestState
    <3>3. step \in {"clearUnavailable", "select"}
      OBVIOUS
    <3> HIDE DEF x, step
    <3>4. Place(r, step, NoAccount, x)
      BY <1>1, <2>2, <3>2, <3>3, NextPlace DEF OwnerSteps, ReservedSteps, BindSteps
    <3>5. exp' = [exp EXCEPT ![r] = exp[r]]
      BY <3>1 DEF TypeInv, RequestsOK
    <3>6. step \in Steps /\ NoAccount \in AccountOrNone
      BY <3>3 DEF Steps, AccountOrNone
    <3>7. QED
      BY <1>1, <2>2, <3>1, <3>2, <3>4, <3>5, <3>6, RequestMoves DEF TypeInv, Rollback
  <2>3. CASE pc[r] = "undoOwned"
    <3>1. Place(r, "dropSlot", acct[r], req[r])
      BY <1>1, <2>3 DEF Place, BindSteps
    <3>2. QED
      BY <1>1, <2>3, <3>1, RequestJumps DEF TypeInv, Rollback, Steps, OwnerSteps
  <2>4. QED BY <1>1, <2>1, <2>2, <2>3
<1>4. QED BY <1>2, <1>3, OnlyPool DEF Rollback

\* The credentials of the reserved account are read.
LEMMA ReadCredentialsType ==
  ASSUME TypeInv, NEW r \in Requests, ReadCredentials(r) PROVE TypeInv'
<1>1. /\ pc[r] = "credentials" /\ req[r] \in RequestState
      /\ Place(r, "credentials", acct[r], req[r]) /\ acct[r] \in Accounts
  BY RequestFacts DEF ReadCredentials, Place, ReservedSteps
<1>2. RequestsOK' /\ TokensOK'
  <2>1. CASE db[acct[r]].exists
    <3> DEFINE x == [req[r] EXCEPT !.used = db[acct[r]].cred]
               step == AfterCredentials(r)
    <3>1. req' = [req EXCEPT ![r] = x] /\ Goto(r, step)
      BY <2>1 DEF ReadCredentials
    <3>2. db[acct[r]].cred \in Creds
      BY <1>1 DEF TypeInv, SharedOK, Row
    <3>3. x \in RequestState /\ x.use = req[r].use /\ x.coord = req[r].coord
          /\ x.tries = req[r].tries
      BY <1>1, <3>2 DEF RequestState
    <3>4. /\ step \in {"clearOld", "bindSetNX", "held"}
          /\ step = "clearOld" => req[r].coord # NoAccount
          /\ step = "bindSetNX" => req[r].use = TRUE
      <4>1. req[r].use \in BOOLEAN
        BY <1>1 DEF RequestState
      <4>2. QED BY <4>1 DEF AfterCredentials
    <3> HIDE DEF x, step
    <3>5. Place(r, step, acct[r], x)
      <4>1. step \in {"getAffinity", "clearOld"} \cup BindSteps => x.use = TRUE
        BY <1>1, <3>3, <3>4 DEF Place, BindSteps
      <4>2. QED BY <1>1, <3>3, <3>4, <4>1, NextPlace
    <3>6. QED
      BY <1>1, <3>1, <3>3, <3>4, <3>5, RequestGoes
      DEF TypeInv, ReadCredentials, pools, Steps, OwnerSteps, BindSteps
  <2>2. CASE ~db[acct[r]].exists
    <3>1. Place(r, "undoOwned", acct[r], req[r])
      BY <1>1, NextPlace DEF BindSteps
    <3>2. QED
      BY <1>1, <2>2, <3>1, RequestJumps DEF TypeInv, ReadCredentials, pools, Steps, OwnerSteps
  <2>3. QED BY <2>1, <2>2
<1>3. QED BY <1>2, OnlyRequest DEF ReadCredentials

\* The binding to another account is removed before the new one is made.
LEMMA ClearOldBindingType ==
  ASSUME TypeInv, NEW r \in Requests, ClearOldBinding(r) PROVE TypeInv'
<1> DEFINE x == [req[r] EXCEPT !.coord = NoAccount]
<1>1. /\ pc[r] = "clearOld" /\ req[r] \in RequestState
      /\ Place(r, "clearOld", acct[r], req[r])
      /\ acct[r] \in Accounts /\ req[r].use = TRUE
  BY RequestFacts DEF ClearOldBinding, Place, OwnerSteps
<1>2. req' = [req EXCEPT ![r] = x]
  BY DEF ClearOldBinding
<1>3. x \in RequestState /\ x.use = req[r].use /\ x.coord = NoAccount /\ x.tries = req[r].tries
  BY <1>1 DEF RequestState, AccountOrNone
<1> HIDE DEF x
<1>4. Place(r, "bindSetNX", acct[r], x)
  BY <1>1, <1>3, NextPlace
<1>5. RequestsOK' /\ TokensOK'
  BY <1>1, <1>2, <1>3, <1>4, RequestGoes
  DEF TypeInv, ClearOldBinding, pools, Steps, OwnerSteps, BindSteps
<1>6. RedisOK'
  BY RedisCalls DEF ClearOldBinding
<1>7. QED BY <1>5, <1>6, OnlyRedis DEF ClearOldBinding

\* What holds at every step of BindAffinity.
LEMMA BindFacts ==
  ASSUME TypeInv, NEW r \in Requests, pc[r] \in BindSteps
  PROVE  /\ req[r] \in RequestState /\ req[r].use = TRUE /\ KeyOf[r] \in Keys
         /\ acct[r] \in Accounts /\ Place(r, pc[r], acct[r], req[r])
         /\ req[r].tries \in 0..(MaxBindAttempts - 1) /\ pc[r] # "relReload"
         /\ GetAffinity(bound[KeyOf[r]], now) \in AccountOrNone
<1>1. req[r] \in RequestState /\ Place(r, pc[r], acct[r], req[r]) /\ now \in Nat
  BY RequestFacts
<1>2. acct[r] \in Accounts /\ req[r].use = TRUE /\ KeyOf[r] \in Keys
  BY <1>1 DEF Place, OwnerSteps
<1>3. req[r].tries \in 0..(MaxBindAttempts - 1) /\ pc[r] # "relReload"
  BY <1>1 DEF Place, RequestState, BindSteps
<1>4. GetAffinity(bound[KeyOf[r]], now) \in AccountOrNone
  BY <1>1, <1>2, AffinityType DEF TypeInv, SharedOK, RedisOK
<1>5. QED BY <1>1, <1>2, <1>3, <1>4

\* SETNX of BindAffinity.
LEMMA BindSetNXType == ASSUME TypeInv, NEW r \in Requests, BindSetNX(r) PROVE TypeInv'
<1> DEFINE step == IF GetAffinity(bound[KeyOf[r]], now) = NoAccount THEN "held" ELSE "bindGet"
<1>1. pc[r] = "bindSetNX" /\ pc[r] \in BindSteps
  BY DEF BindSetNX, BindSteps
<1>2. step \in Steps /\ Place(r, step, acct[r], req[r])
  BY <1>1, BindFacts, NextPlace DEF Steps, OwnerSteps, BindSteps
<1>3. RequestsOK' /\ TokensOK'
  BY <1>1, <1>2, RequestJumps DEF TypeInv, BindSetNX, pools
<1>4. RedisOK'
  BY RedisCalls DEF BindSetNX
<1>5. QED BY <1>3, <1>4, OnlyRedis DEF BindSetNX

\* BindAffinity starts over, or gives up after its last attempt.
LEMMA NextAttemptType ==
  ASSUME TypeInv, NEW r \in Requests, pc[r] \in BindSteps, NextAttempt(r),
         UNCHANGED <<acct, exp, reload>>
  PROVE  RequestsOK' /\ TokensOK'
<1> DEFINE x == [req[r] EXCEPT !.tries = @ + 1, !.seen = NoAccount]
           step == IF req[r].tries + 1 < MaxBindAttempts THEN "bindSetNX" ELSE "undoOwned"
<1>1. req' = [req EXCEPT ![r] = x] /\ Goto(r, step)
  BY DEF NextAttempt
<1>2. /\ x \in RequestState /\ x.use = req[r].use /\ x.coord = req[r].coord
      /\ x.tries = req[r].tries + 1
  <2>1. req[r] \in RequestState /\ req[r].tries \in 0..(MaxBindAttempts - 1)
    BY BindFacts
  <2>2. req[r].tries + 1 \in 0..MaxBindAttempts
    BY <2>1
  <2>3. NoAccount \in AccountOrNone
    BY DEF AccountOrNone
  <2>4. QED BY <2>1, <2>2, <2>3 DEF RequestState
<1>3. /\ step \in {"bindSetNX", "undoOwned"}
      /\ x.tries = MaxBindAttempts => step = "undoOwned"
  BY <1>2, BindFacts
<1> HIDE DEF x, step
<1>4. Place(r, step, acct[r], x)
  BY <1>2, <1>3, BindFacts DEF Place
<1>5. step \in Steps
  BY <1>3 DEF Steps, OwnerSteps, BindSteps
<1>6. QED BY <1>1, <1>2, <1>4, <1>5, BindFacts, RequestGoes DEF TypeInv

\* GET of BindAffinity.
LEMMA BindGetType == ASSUME TypeInv, NEW r \in Requests, BindGet(r) PROVE TypeInv'
<1> DEFINE value == GetAffinity(bound[KeyOf[r]], now)
           x == [req[r] EXCEPT !.seen = value]
<1>1. pc[r] \in BindSteps
  BY DEF BindGet, BindSteps
<1>2. RequestsOK' /\ TokensOK'
  <2>1. CASE value = NoAccount
    BY <1>1, <2>1, NextAttemptType DEF BindGet, pools
  <2>2. CASE value # NoAccount
    <3>1. req' = [req EXCEPT ![r] = x] /\ Goto(r, "bindExpire")
      BY <2>2 DEF BindGet
    <3>2. x \in RequestState /\ x.use = req[r].use /\ x.coord = req[r].coord
          /\ x.tries = req[r].tries
      BY <1>1, BindFacts DEF RequestState
    <3> HIDE DEF x
    <3>3. pc[r] \notin {"undoOwned", "dropSlot"}
      BY DEF BindGet
    <3>4. Place(r, "bindExpire", acct[r], x)
      BY <1>1, <3>2, <3>3, BindFacts, NextPlace
    <3>5. QED
      BY <1>1, <3>1, <3>2, <3>4, BindFacts, RequestGoes
      DEF TypeInv, BindGet, pools, Steps, OwnerSteps, BindSteps
  <2>3. QED BY <2>1, <2>2
<1>3. QED BY <1>2, OnlyRequest DEF BindGet

\* The compare-and-expire of BindAffinity.
LEMMA BindExpireType == ASSUME TypeInv, NEW r \in Requests, BindExpire(r) PROVE TypeInv'
<1>1. pc[r] \in BindSteps
  BY DEF BindExpire, BindSteps
<1>2. RequestsOK' /\ TokensOK'
  <2>1. CASE GetAffinity(bound[KeyOf[r]], now) = req[r].seen
    <3>1. pc[r] \notin {"undoOwned", "dropSlot"} /\ "held" \in Steps
      BY DEF BindExpire, Steps, OwnerSteps
    <3>2. Place(r, "held", acct[r], req[r])
      BY <1>1, <3>1, BindFacts, NextPlace DEF BindSteps
    <3>3. QED
      BY <1>1, <2>1, <3>1, <3>2, BindFacts, RequestJumps DEF TypeInv, BindExpire, pools
  <2>2. CASE GetAffinity(bound[KeyOf[r]], now) # req[r].seen
    BY <1>1, <2>2, NextAttemptType DEF BindExpire, pools
  <2>3. QED BY <2>1, <2>2
<1>3. RedisOK'
  BY RedisCalls DEF BindExpire
<1>4. QED BY <1>2, <1>3, OnlyRedis DEF BindExpire

\* AcquireForProbe reserves its account.
LEMMA ProbeReserveType == ASSUME TypeInv, NEW r \in Requests, ProbeReserve(r) PROVE TypeInv'
<1> DEFINE i == Home[r]
<1>1. PICK a \in Accounts :
        /\ states' = [states EXCEPT ![i][a].inflight = @ + 1]
        /\ acct' = [acct EXCEPT ![r] = a]
        /\ req' = [req EXCEPT ![r].status = states[i][a].status,
                              ![r].cred = states[i][a].cred]
  BY DEF ProbeReserve
<1>2. /\ pc[r] = "idle" /\ req[r] \in RequestState /\ exp[r] \in Nat
      /\ Place(r, "idle", acct[r], req[r]) /\ i \in Instances
      /\ states[i][a] \in RuntimeState
  BY RequestFacts DEF ProbeReserve
<1> DEFINE x == [req[r] EXCEPT !.status = states[i][a].status, !.cred = states[i][a].cred]
<1>3. req' = [req EXCEPT ![r] = x]
  BY <1>1
<1> HIDE DEF i
<1>4. states' \in [Instances -> [Accounts -> RuntimeState]]
  <2>1. [states[i][a] EXCEPT !.inflight = @ + 1] \in RuntimeState
    BY <1>2 DEF RuntimeState
  <2>2. QED BY <2>1, <1>1, <1>2 DEF TypeInv, PoolsOK
<1>5. x \in RequestState /\ x.use = req[r].use /\ x.coord = req[r].coord
      /\ x.tries = req[r].tries
  BY <1>2 DEF RequestState, RuntimeState
<1> HIDE DEF x
<1>6. Place(r, "acquireLease", a, x)
  BY <1>2, <1>5, NextPlace DEF BindSteps
<1>7. RequestsOK' /\ TokensOK'
  <2>1. exp' = [exp EXCEPT ![r] = exp[r]]
    BY DEF TypeInv, RequestsOK, ProbeReserve
  <2>2. QED
    BY <1>1, <1>2, <1>3, <1>5, <1>6, <2>1, RequestMoves
    DEF TypeInv, ProbeReserve, Goto, Steps, ReservedSteps, AccountOrNone
<1>8. QED BY <1>4, <1>7, OnlyPool DEF ProbeReserve

\* AcquireForProbe finds no account.
LEMMA ProbeRefusedType == ASSUME TypeInv, NEW r \in Requests, ProbeRefused(r) PROVE TypeInv'
<1>1. RequestsOK' /\ TokensOK'
  BY Finishes DEF TypeInv, ProbeRefused, pools
<1>2. QED BY <1>1, OnlyRequest DEF ProbeRefused

----------------------------------------------------------------------------
(* Lease.Release.                                                          *)

\* What holds of a request that has its lease.
LEMMA HeldFacts ==
  ASSUME TypeInv, NEW r \in Requests, pc[r] = "held"
  PROVE  /\ StateOf(r) \in RuntimeState /\ acct[r] \in Accounts /\ Home[r] \in Instances
         /\ req[r] \in RequestState /\ Place(r, "held", acct[r], req[r]) /\ now \in Nat
<1>1. /\ req[r] \in RequestState /\ Place(r, "held", acct[r], req[r]) /\ now \in Nat
      /\ Home[r] \in Instances /\ states[Home[r]] \in [Accounts -> RuntimeState]
  BY RequestFacts
<1>2. acct[r] \in Accounts
  BY <1>1 DEF Place, OwnerSteps
<1>3. QED BY <1>1, <1>2 DEF StateOf

\* The critical section of Release ends with a new runtime state and work to do.
LEMMA ReleaseToType ==
  ASSUME TypeInv, NEW r \in Requests, pc[r] = "held",
         NEW st \in RuntimeState, NEW w \in ReleaseWork, ReleaseTo(r, st, w)
  PROVE  TypeInv'
<1> DEFINE x == [req[r] EXCEPT !.work = w]
           step == AfterSection(w, req[r].use)
<1>1. states' \in [Instances -> [Accounts -> RuntimeState]]
  BY HeldFacts DEF ReleaseTo, TypeInv, PoolsOK
<1>2. req' = [req EXCEPT ![r] = x] /\ Goto(r, step)
  BY DEF ReleaseTo
<1>3. x \in RequestState /\ x.use = req[r].use /\ x.coord = req[r].coord
      /\ x.tries = req[r].tries
  BY HeldFacts DEF RequestState
<1>4. step \in {"relCool", "relAff", "relSave", "relSlot"}
  BY DEF AfterSection, AfterCool, AfterAffinity
<1> HIDE DEF x, step
<1>5. Place(r, step, acct[r], x)
  BY <1>3, <1>4, HeldFacts, NextPlace DEF BindSteps
<1>6. step \in Steps
  BY <1>4 DEF Steps, OwnerSteps
<1>7. RequestsOK' /\ TokensOK'
  BY <1>2, <1>3, <1>5, <1>6, RequestGoes DEF TypeInv, ReleaseTo
<1>8. QED BY <1>1, <1>7, OnlyPool DEF ReleaseTo

\* The work that publishes a cooldown is well formed.
LEMMA BlockType == ASSUME NEW until \in Nat PROVE Block(until) \in ReleaseWork
  BY ConstantTypes DEF Block, ReleaseWork

\* The quota fields that a response reports are times.
LEMMA QuotaTypes ==
  ASSUME NEW st \in RuntimeState, NEW fb \in Feedback, now \in Nat
  PROVE  ReportedQuota(st, fb) \in Nat /\ QuotaResetAt(st, fb) \in Nat
<1>1. st.quota \in Nat /\ QuotaReset \in Nat /\ RateLimitCooldown \in Nat
  BY PoolAssumption DEF RuntimeState
<1>2. ReportedQuota(st, fb) \in Nat
  BY <1>1 DEF ReportedQuota
<1>3. QED BY <1>1, <1>2 DEF QuotaResetAt

\* A feedback that is applied leaves everything well formed.
LEMMA AppliedType ==
  ASSUME TypeInv, NEW r \in Requests, pc[r] = "held", NEW fb \in Feedback,
         NEW st \in RuntimeState, NEW changed \in BOOLEAN, NEW w \in ReleaseWork,
         Applied(r, fb, st, changed, w)
  PROVE  TypeInv'
<1> DEFINE new == [Decrement(st) EXCEPT !.quota = ReportedQuota(StateOf(r), fb)]
           publish == changed \/ fb.quota # "nil"
<1>1. PICK lastUsed \in BOOLEAN :
        ReleaseTo(r, new, [w EXCEPT !.save = publish \/ lastUsed,
                                    !.publish = publish, !.row = RowOf(new)])
  BY DEF Applied
<1>2. new \in RuntimeState
  <2>1. Decrement(st) \in RuntimeState
    BY HeldFacts, StateTypes
  <2>2. ReportedQuota(StateOf(r), fb) \in Nat
    BY HeldFacts, QuotaTypes
  <2>3. QED BY <2>1, <2>2 DEF RuntimeState
<1>3. RowOf(new) \in Row
  BY <1>2, HeldFacts, StateTypes
<1>4. publish \in BOOLEAN /\ (publish \/ lastUsed) \in BOOLEAN
  OBVIOUS
<1> HIDE DEF new, publish
<1>5. [w EXCEPT !.save = publish \/ lastUsed, !.publish = publish, !.row = RowOf(new)]
        \in ReleaseWork
  BY <1>3, <1>4 DEF ReleaseWork
<1>6. QED BY <1>1, <1>2, <1>5, ReleaseToType

\* Every outcome of the critical section of Release.
LEMMA ReleaseSectionType ==
  ASSUME TypeInv, NEW r \in Requests, ReleaseSection(r) PROVE TypeInv'
<1>0. pc[r] = "held"
  BY DEF ReleaseSection, ReleaseGone, ReleaseReplaced, ReleaseTerminal, ReleaseRateLimited,
         ReleaseDenied, ReleaseExhausted, ReleaseOldSuccess, ReleaseSuccess, ReleaseIgnored,
         ReleaseTransient, Otherwise, Reports
<1> DEFINE st == StateOf(r)
<1>1. st \in RuntimeState /\ now \in Nat /\ st.till \in Nat /\ st.quota \in Nat
  BY <1>0, HeldFacts DEF RuntimeState
<1>2. /\ ForbiddenCooldown \in Nat /\ RateLimitCooldown \in Nat
      /\ TransientDelays \subseteq Nat /\ Feedbacks \subseteq Feedback
  BY PoolAssumption
<1>3. now + ForbiddenCooldown \in Nat
  BY <1>1, <1>2
<1> HIDE DEF st
<1>4. CASE ReleaseGone(r)
  <2>1. [NoWork EXCEPT !.inval = TRUE] \in ReleaseWork
    BY ConstantTypes DEF ReleaseWork
  <2>2. QED BY <1>0, <1>1, <1>4, <2>1, ReleaseToType DEF ReleaseGone, st
<1>5. CASE ReleaseReplaced(r)
  <2> DEFINE unavailable == st.status # "active" \/ st.till > now \/ st.quota > now
             until == Later(st.till, st.quota)
             published == IF st.status \in Terminal /\ until <= now
                            THEN now + ForbiddenCooldown ELSE until
             cool == IF unavailable /\ published > now THEN published ELSE 0
             w == [NoWork EXCEPT !.inval = unavailable, !.cool = cool]
  <2>1. ReleaseTo(r, Decrement(st), w)
    BY <1>5 DEF ReleaseReplaced, st
  <2>2. until \in Nat
    BY <1>1, LaterType
  <2> HIDE DEF until
  <2>3. unavailable \in BOOLEAN /\ cool \in Nat
    BY <1>3, <2>2
  <2> HIDE DEF unavailable, cool
  <2>4. w \in ReleaseWork
    BY <2>3, ConstantTypes DEF ReleaseWork
  <2>5. Decrement(st) \in RuntimeState
    BY <1>1, StateTypes
  <2> HIDE DEF w
  <2>6. QED BY <1>0, <2>1, <2>4, <2>5, ReleaseToType
<1>6. CASE ReleaseTerminal(r)
  BY <1>0, <1>1, <1>2, <1>3, <1>6, BlockType, AppliedType DEF ReleaseTerminal, st
<1>7. CASE ReleaseRateLimited(r)
  <2>1. PICK fb \in Feedbacks :
          LET wait == now + (IF fb.after > 0 THEN fb.after ELSE RateLimitCooldown)
              quota == IF QuotaExhausted(st, fb) THEN QuotaResetAt(st, fb) ELSE 0
              until == Later(Later(wait, quota), st.till)
          IN  Applied(r, fb, Cool(st, until), TRUE, Block(until))
    BY <1>7 DEF ReleaseRateLimited, st
  <2> DEFINE wait == now + (IF fb.after > 0 THEN fb.after ELSE RateLimitCooldown)
             quota == IF QuotaExhausted(st, fb) THEN QuotaResetAt(st, fb) ELSE 0
             until == Later(Later(wait, quota), st.till)
  <2>2. fb \in Feedback
    BY <1>2
  <2>3. wait \in Nat
    BY <1>1, <1>2, <2>2 DEF Feedback
  <2>4. quota \in Nat
    BY <1>1, <2>2, QuotaTypes
  <2> HIDE DEF wait, quota
  <2>5. until \in Nat
    BY <1>1, <2>3, <2>4, LaterType
  <2>6. Applied(r, fb, Cool(st, until), TRUE, Block(until))
    BY <2>1 DEF wait, quota
  <2> HIDE DEF until
  <2>7. QED BY <1>0, <1>1, <2>2, <2>5, <2>6, CoolType, BlockType, AppliedType
<1>8. CASE ReleaseDenied(r)
  <2> DEFINE new == [st EXCEPT !.till = 0, !.status = "disabled", !.until = 0]
  <2>1. new \in RuntimeState
    BY <1>1 DEF RuntimeState, Status
  <2>2. PICK fb \in Feedbacks : Applied(r, fb, new, TRUE, Block(now + ForbiddenCooldown))
    BY <1>8 DEF ReleaseDenied, st
  <2> HIDE DEF new
  <2>3. QED BY <1>0, <1>2, <1>3, <2>1, <2>2, BlockType, AppliedType
<1>9. CASE ReleaseExhausted(r)
  <2>1. PICK fb \in Feedbacks :
          LET until == Later(st.till, QuotaResetAt(st, fb))
          IN  Applied(r, fb, Cool(st, until), TRUE, Block(until))
    BY <1>9 DEF ReleaseExhausted, st
  <2> DEFINE until == Later(st.till, QuotaResetAt(st, fb))
  <2>2. fb \in Feedback
    BY <1>2
  <2>3. until \in Nat
    BY <1>1, <2>2, LaterType, QuotaTypes
  <2>4. Applied(r, fb, Cool(st, until), TRUE, Block(until))
    BY <2>1
  <2> HIDE DEF until
  <2>5. QED BY <1>0, <1>1, <2>2, <2>3, <2>4, CoolType, BlockType, AppliedType
<1>10. CASE ReleaseOldSuccess(r)
  <2>1. PICK fb \in Feedbacks : Applied(r, fb, st, FALSE, Block(st.till))
    BY <1>10 DEF ReleaseOldSuccess, st
  <2>2. QED BY <1>0, <1>1, <1>2, <2>1, BlockType, AppliedType
<1>11. CASE ReleaseSuccess(r)
  <2> DEFINE new == [st EXCEPT !.till = 0, !.status = "active", !.until = 0]
  <2>1. new \in RuntimeState
    BY <1>1 DEF RuntimeState, Status
  <2>2. PICK fb \in Feedbacks, unhealthy \in BOOLEAN :
          Applied(r, fb, new, unhealthy \/ st.status # "active" \/ st.until # 0, NoWork)
    BY <1>11 DEF ReleaseSuccess, st
  <2>3. (unhealthy \/ st.status # "active" \/ st.until # 0) \in BOOLEAN
    OBVIOUS
  <2> HIDE DEF new
  <2>4. QED BY <1>0, <1>2, <2>1, <2>2, <2>3, ConstantTypes, AppliedType
<1>12. CASE ReleaseIgnored(r)
  <2>1. PICK fb \in Feedbacks : Applied(r, fb, st, FALSE, NoWork)
    BY <1>12 DEF ReleaseIgnored, st
  <2>2. QED BY <1>0, <1>1, <1>2, <2>1, ConstantTypes, AppliedType
<1>13. CASE ReleaseTransient(r)
  <2>1. PICK fb \in Feedbacks, delay \in TransientDelays :
          Applied(r, fb, Cool(st, now + delay), TRUE, Block(now + delay))
    BY <1>13 DEF ReleaseTransient, st
  <2>2. now + delay \in Nat
    BY <1>1, <1>2
  <2>3. QED BY <1>0, <1>1, <1>2, <2>1, <2>2, CoolType, BlockType, AppliedType
<1>14. QED
  BY <1>4, <1>5, <1>6, <1>7, <1>8, <1>9, <1>10, <1>11, <1>12, <1>13 DEF ReleaseSection

\* The calls of Release that follow the critical section: where they go next.
LEMMA ReleaseGoesOn ==
  ASSUME TypeInv, NEW r \in Requests, pc[r] \in {"relCool", "relAff", "relSave"},
         NEW step \in {"relAff", "relSave", "relReload", "relSlot"}, Goto(r, step),
         UNCHANGED <<acct, exp, req, reload>>
  PROVE  RequestsOK' /\ TokensOK'
<1>1. Place(r, pc[r], acct[r], req[r])
  BY RequestFacts
<1>2. acct[r] \in Accounts
  BY <1>1 DEF Place, OwnerSteps
<1>3. Place(r, step, acct[r], req[r])
  BY <1>1, <1>2, NextPlace DEF BindSteps
<1>4. step \in Steps
  BY DEF Steps, OwnerSteps
<1>5. QED BY <1>3, <1>4, RequestJumps DEF TypeInv

\* Where Release goes after each of its calls.
LEMMA AfterTypes ==
  ASSUME NEW w, NEW use
  PROVE  /\ AfterAffinity(w) \in {"relSave", "relSlot"}
         /\ AfterCool(w, use) \in {"relAff", "relSave", "relSlot"}
  BY DEF AfterAffinity, AfterCool

\* SetCooldown of Release.
LEMMA PublishType ==
  ASSUME TypeInv, NEW r \in Requests, PublishCooldown(r)
  PROVE  RedisOK' /\ blocked' \in [Accounts -> Nat]
<1>1. req[r].work.cool \in Nat /\ now \in Nat /\ acct[r] \in AccountOrNone
  BY RequestFacts DEF RequestState, ReleaseWork
<1>2. RedisOK /\ blocked \in [Accounts -> Nat]
  BY DEF TypeInv, SharedOK
<1>3. cooling' \in [Accounts -> Nat]
  BY <1>1, <1>2 DEF PublishCooldown, SetCooldown, SetIfGreater, RedisOK
<1>4. blocked' \in [Accounts -> Nat]
  BY <1>1, <1>2 DEF PublishCooldown, Later
<1>5. QED BY <1>2, <1>3, <1>4 DEF PublishCooldown, RedisOK

\* The step of SetCooldown, answered or not.
LEMMA ReleaseCooldownType ==
  ASSUME TypeInv, NEW r \in Requests, ReleaseCooldown(r) \/ ReleaseCooldownFails(r)
  PROVE  TypeInv'
<1>1. RedisOK' /\ blocked' \in [Accounts -> Nat]
  <2>1. CASE PublishCooldown(r)
    BY <2>1, PublishType
  <2>2. CASE UNCHANGED <<redis, blocked>>
    BY <2>2, RedisCalls DEF TypeInv, SharedOK
  <2>3. QED BY <2>1, <2>2 DEF ReleaseCooldown, ReleaseCooldownFails
<1>2. RequestsOK' /\ TokensOK'
  BY AfterTypes, ReleaseGoesOn DEF ReleaseCooldown, ReleaseCooldownFails, pools
<1>3. QED
  BY <1>1, <1>2
  DEF Fails, ReleaseCooldown, ReleaseCooldownFails, TypeInv, SharedOK, PoolsOK, AdminsOK, pools

\* The step of ClearAffinity, answered or not.
LEMMA ReleaseAffinityType ==
  ASSUME TypeInv, NEW r \in Requests, ReleaseAffinity(r) \/ ReleaseAffinityFails(r)
  PROVE  TypeInv'
<1>1. RedisOK'
  BY RedisCalls DEF ReleaseAffinity, ReleaseAffinityFails
<1>2. RequestsOK' /\ TokensOK'
  BY AfterTypes, ReleaseGoesOn DEF ReleaseAffinity, ReleaseAffinityFails, pools
<1>3. QED BY <1>1, <1>2, OnlyRedis DEF ReleaseAffinity, ReleaseAffinityFails

\* Steps that leave everything but the table and the requests alone.
LEMMA OnlyTable ==
  ASSUME TypeInv, RequestsOK', TokensOK', db' \in [Accounts -> Row],
         UNCHANGED <<now, redis, pools, adm, blocked>>,
         UNCHANGED failures \/ Fails
  PROVE  TypeInv'
  BY DEF Fails, TypeInv, SharedOK, RedisOK, PoolsOK, AdminsOK, redis, pools

\* The step of UpdateAccount, answered or not.
LEMMA ReleaseSaveType ==
  ASSUME TypeInv, NEW r \in Requests, ReleaseSave(r) \/ ReleaseSaveFails(r)
  PROVE  TypeInv'
<1>1. db \in [Accounts -> Row] /\ now \in Nat
  BY DEF TypeInv, SharedOK
<1>2. db' \in [Accounts -> Row]
  <2>1. req[r].work.row \in Row
    BY RequestFacts DEF RequestState, ReleaseWork
  <2>2. CASE WriteRow(r)
    BY <1>1, <2>1, <2>2, RowUpdateTypes DEF WriteRow
  <2>3. CASE UNCHANGED db
    BY <1>1, <2>3
  <2>4. QED BY <2>2, <2>3 DEF ReleaseSave, ReleaseSaveFails
<1>3. RequestsOK' /\ TokensOK'
  <2>1. PICK step \in {"relReload", "relSlot"} : Goto(r, step)
    BY DEF ReleaseSave, ReleaseSaveFails
  <2>2. QED BY <2>1, ReleaseGoesOn DEF ReleaseSave, ReleaseSaveFails, pools
<1>4. QED BY <1>2, <1>3, OnlyTable DEF ReleaseSave, ReleaseSaveFails

\* The step of ReleaseLease, answered or not.
LEMMA ReleaseSlotType ==
  ASSUME TypeInv, NEW r \in Requests, ReleaseSlot(r) \/ ReleaseSlotFails(r)
  PROVE  TypeInv'
<1>1. RedisOK'
  BY RedisCalls DEF ReleaseSlot, ReleaseSlotFails
<1>2. RequestsOK' /\ TokensOK'
  BY Finishes DEF TypeInv, ReleaseSlot, ReleaseSlotFails, pools
<1>3. QED BY <1>1, <1>2, OnlyRedis DEF ReleaseSlot, ReleaseSlotFails

\* A call of Acquire that fails, whether or not it took effect.
LEMMA AcquireFailsType ==
  ASSUME TypeInv, NEW r \in Requests,
         AffinityFails(r) \/ ReservedCallFails(r) \/ OwnedCallFails(r)
  PROVE  TypeInv'
<1>1. RedisOK'
  BY RedisCalls DEF AffinityFails, ReservedCallFails, OwnedCallFails
<1>2. RequestsOK' /\ TokensOK'
  <2>1. CASE AffinityFails(r)
    BY <2>1, Finishes DEF TypeInv, AffinityFails, pools
  <2>2. Place(r, pc[r], acct[r], req[r])
    BY RequestFacts
  <2>3. CASE ReservedCallFails(r)
    <3>1. Place(r, "undoFail", acct[r], req[r])
      BY <2>2, <2>3, NextPlace DEF ReservedCallFails, Place, ReservedSteps, BindSteps
    <3>2. QED
      BY <2>3, <3>1, RequestJumps DEF TypeInv, ReservedCallFails, pools, Steps, ReservedSteps
  <2>4. CASE OwnedCallFails(r)
    <3>1. Place(r, "undoOwned", acct[r], req[r])
      BY <2>2, <2>4, NextPlace DEF OwnedCallFails, Place, OwnerSteps, BindSteps
    <3>2. pc[r] # "relReload"
      BY <2>4 DEF OwnedCallFails, BindSteps
    <3>3. QED
      BY <2>4, <3>1, <3>2, RequestJumps DEF TypeInv, OwnedCallFails, pools, Steps, OwnerSteps
  <2>5. QED BY <2>1, <2>3, <2>4
<1>3. QED BY <1>1, <1>2, OnlyRedis DEF AffinityFails, ReservedCallFails, OwnedCallFails

----------------------------------------------------------------------------
(* Reloads, administrators, and the environment.                           *)

\* Reload takes its token and its snapshot.
LEMMA ListAccountsType ==
  ASSUME TypeInv, NEW i \in Instances, NEW who \in WantsReload(i), ListAccounts(i, who)
  PROVE  TypeInv'
<1>1. who \in TokenHolders
  BY DEF WantsReload, TokenHolders
<1>2. [by |-> who, snap |-> db] \in [by : TokenHolders, snap : [Accounts -> Row]]
  BY <1>1 DEF TypeInv, SharedOK
<1>3. PoolsOK'
  BY <1>2 DEF TypeInv, PoolsOK, ListAccounts
<1>4. TokensOK'
  <2> SUFFICES ASSUME NEW j \in Instances, NEW r \in Requests, reload'[j].by = r
               PROVE  Home[r] = j /\ pc[r] = "relReload"
    BY DEF TokensOK, ListAccounts, request
  <2>1. CASE j = i
    <3>1. who = r
      BY <2>1, <1>2 DEF ListAccounts, TypeInv, PoolsOK
    <3>2. QED BY <2>1, <3>1, PoolAssumption DEF WantsReload
  <2>2. CASE j # i
    BY <2>2 DEF ListAccounts, TypeInv, PoolsOK, TokensOK
  <2>3. QED BY <2>1, <2>2
<1>5. QED
  BY <1>3, <1>4
  DEF ListAccounts, TypeInv, SharedOK, RedisOK, RequestsOK, AdminsOK, redis, request

\* A reload returns to a caller that was waiting for it.
LEMMA ResumeType ==
  ASSUME TypeInv, NEW who, Resume(who), UNCHANGED <<acct, exp, req>>,
         \A r \in Requests : r = who => pc[r] = "relReload"
  PROVE  RequestsOK' /\ AdminsOK'
<1>1. RequestsOK'
  <2>1. pc' \in [Requests -> Steps]
    BY DEF Resume, TypeInv, RequestsOK, Steps, OwnerSteps
  <2>2. ASSUME NEW r \in Requests PROVE Place(r, pc'[r], acct[r], req[r])
    <3>1. Place(r, pc[r], acct[r], req[r])
      BY RequestFacts
    <3>2. CASE r = who
      <4>1. pc'[r] = "relSlot" /\ pc[r] = "relReload"
        BY <3>2 DEF Resume
      <4>2. acct[r] \in Accounts
        BY <3>1, <4>1 DEF Place, OwnerSteps
      <4>3. QED BY <3>1, <4>1, <4>2, NextPlace DEF BindSteps
    <3>3. CASE r # who
      BY <3>1, <3>3 DEF Resume
    <3>4. QED BY <3>2, <3>3
  <2>3. QED BY <2>1, <2>2 DEF TypeInv, RequestsOK
<1>2. AdminsOK'
  <2>1. ASSUME NEW p \in Admins PROVE [adm[p] EXCEPT !.pc = "done"] \in AdminState
    BY DEF TypeInv, AdminsOK, AdminState, AdminSteps
  <2>2. adm' \in [Admins -> AdminState]
    BY <2>1 DEF Resume, TypeInv, AdminsOK
  <2>3. ASSUME NEW p \in Admins
        PROVE  adm'[p].pc \in {"write", "delete", "remove", "clear"} => adm'[p].acct \in Accounts
    BY <2>1 DEF Resume, TypeInv, AdminsOK, AdminState
  <2>4. QED BY <2>2, <2>3 DEF AdminsOK
<1>3. QED BY <1>1, <1>2

\* The token goes back; a request that held it no longer waits.
LEMMA ReloadReturnsType ==
  ASSUME TypeInv, NEW i \in Instances, ReloadReturns(i), UNCHANGED <<acct, exp, req>>
  PROVE  /\ RequestsOK' /\ AdminsOK' /\ TokensOK'
         /\ reload' \in [Instances -> [by : TokenHolders, snap : [Accounts -> Row]]]
<1>1. \A r \in Requests : r = reload[i].by => Home[r] = i /\ pc[r] = "relReload"
  BY DEF TypeInv, TokensOK
<1>2. RequestsOK' /\ AdminsOK'
  BY <1>1, ResumeType DEF ReloadReturns
<1>3. reload' \in [Instances -> [by : TokenHolders, snap : [Accounts -> Row]]]
  BY ConstantTypes DEF ReloadReturns, TypeInv, PoolsOK
<1>4. TokensOK'
  <2> SUFFICES ASSUME NEW j \in Instances, NEW r \in Requests, reload'[j].by = r
               PROVE  Home[r] = j /\ pc'[r] = "relReload"
    BY DEF TokensOK
  <2>1. j # i
    BY PoolAssumption DEF ReloadReturns, TokenFree, TypeInv, PoolsOK
  <2>2. Home[r] = j /\ pc[r] = "relReload"
    BY <2>1 DEF ReloadReturns, TypeInv, PoolsOK, TokensOK
  <2>3. r # reload[i].by
    BY <1>1, <2>1, <2>2
  <2>4. QED BY <2>2, <2>3 DEF ReloadReturns, Resume
<1>5. QED BY <1>2, <1>3, <1>4

\* Reload merges its snapshot.
LEMMA ApplyReloadType ==
  ASSUME TypeInv, NEW i \in Instances, ApplyReload(i) PROVE TypeInv'
<1>1. Reconciled(i) \in [Accounts -> RuntimeState]
  BY ReconcileType, ConstantTypes DEF Reconciled, TypeInv, PoolsOK
<1>2. /\ RequestsOK' /\ AdminsOK' /\ TokensOK'
      /\ reload' \in [Instances -> [by : TokenHolders, snap : [Accounts -> Row]]]
  BY ReloadReturnsType DEF ApplyReload
<1>3. PoolsOK'
  BY <1>1, <1>2 DEF ApplyReload, TypeInv, PoolsOK
<1>4. SharedOK'
  BY DEF ApplyReload, TypeInv, SharedOK, RedisOK, redis
<1>5. QED BY <1>2, <1>3, <1>4 DEF TypeInv

\* Reload returns the error of ListAccounts.
LEMMA ReloadFailsType ==
  ASSUME TypeInv, NEW i \in Instances, ReloadFails(i) PROVE TypeInv'
<1>1. /\ RequestsOK' /\ AdminsOK' /\ TokensOK'
      /\ reload' \in [Instances -> [by : TokenHolders, snap : [Accounts -> Row]]]
  BY ReloadReturnsType DEF ReloadFails
<1>2. PoolsOK' /\ SharedOK'
  BY <1>1 DEF Fails, ReloadFails, TypeInv, PoolsOK, SharedOK, RedisOK, redis
<1>3. QED BY <1>1, <1>2 DEF TypeInv

\* A caller stops waiting for the token.
LEMMA ReloadTimesOutType ==
  ASSUME TypeInv, NEW i \in Instances, ReloadTimesOut(i) PROVE TypeInv'
<1>1. PICK who \in (WantsReload(i) \cap (Probes \cup Admins)) \ {reload[i].by} : Resume(who)
  BY DEF ReloadTimesOut
<1>2. \A r \in Requests : r = who => Home[r] = i /\ pc[r] = "relReload"
  BY <1>1, PoolAssumption DEF WantsReload
<1>3. RequestsOK' /\ AdminsOK'
  BY <1>1, <1>2, ResumeType DEF ReloadTimesOut
<1>4. TokensOK'
  <2> SUFFICES ASSUME NEW j \in Instances, NEW r \in Requests, reload[j].by = r
               PROVE  Home[r] = j /\ pc'[r] = "relReload"
    BY DEF TokensOK, ReloadTimesOut, pools
  <2>1. Home[r] = j /\ pc[r] = "relReload"
    BY DEF TypeInv, TokensOK
  <2>2. r # who
    BY <1>1, <1>2, <2>1
  <2>3. QED BY <1>1, <2>1, <2>2 DEF Resume
<1>5. PoolsOK' /\ SharedOK'
  BY DEF Fails, ReloadTimesOut, TypeInv, PoolsOK, SharedOK, RedisOK, redis, pools
<1>6. QED BY <1>3, <1>4, <1>5 DEF TypeInv

\* Steps that leave everything but the administrators, the table and Redis alone.
LEMMA AdminMoves ==
  ASSUME TypeInv, AdminsOK', db' \in [Accounts -> Row], RedisOK',
         blocked' \in [Accounts -> Nat],
         states' \in [Instances -> [Accounts -> RuntimeState]],
         UNCHANGED <<now, loaded, strategy, reload, request>>,
         UNCHANGED failures \/ Fails
  PROVE  TypeInv'
  BY DEF Fails, TypeInv, SharedOK, PoolsOK, RequestsOK, TokensOK, request

\* An administrator ends, or goes to a step that needs no more than it knows.
LEMMA AdminGoes ==
  ASSUME AdminsOK, NEW p \in Admins,
         \/ AdminDone(p)
         \/ \E step \in AdminSteps :
              /\ AdminGoto(p, step)
              /\ step \in {"write", "delete", "remove", "clear"} => adm[p].acct \in Accounts
  PROVE  AdminsOK'
<1>1. CASE AdminDone(p)
  <2>1. /\ [IdleAdmin EXCEPT !.pc = "done"] \in AdminState
        /\ [IdleAdmin EXCEPT !.pc = "done"].pc = "done"
    BY ConstantTypes DEF AdminState, AdminSteps
  <2>2. QED BY <1>1, <2>1 DEF AdminDone, AdminsOK
<1>2. ASSUME NEW step \in AdminSteps, AdminGoto(p, step),
             step \in {"write", "delete", "remove", "clear"} => adm[p].acct \in Accounts
      PROVE  AdminsOK'
  <2> DEFINE x == [adm[p] EXCEPT !.pc = step]
  <2>1. x \in AdminState /\ x.pc = step /\ x.acct = adm[p].acct
    BY DEF AdminsOK, AdminState
  <2>2. adm' = [adm EXCEPT ![p] = x]
    BY <1>2 DEF AdminGoto
  <2> HIDE DEF x
  <2>3. QED BY <1>2, <2>1, <2>2 DEF AdminsOK
<1>3. QED BY <1>1, <1>2

\* One SQL statement of an administrator.
LEMMA AdminStatementType ==
  ASSUME TypeInv, NEW p \in Admins, AdminStatement(p) \/ UNCHANGED db
  PROVE  db' \in [Accounts -> Row]
<1>1. db \in [Accounts -> Row] /\ adm[p].row \in Row /\ p \in Creds
  BY PoolAssumption DEF TypeInv, SharedOK, AdminsOK, AdminState
<1>2. PrepareAccountUpdate(adm[p].row, adm[p].op, p) \in Row
  BY <1>1, RowPrepareTypes
<1>3. ASSUME NEW row \in Row PROVE [row EXCEPT !.exists = FALSE] \in Row
  BY DEF Row
<1>4. QED BY <1>1, <1>2, <1>3 DEF AdminStatement

\* The DEL of ClearCooldown.
LEMMA DeleteCooldownType ==
  ASSUME TypeInv, NEW a, DeleteCooldown(a) \/ UNCHANGED <<redis, blocked>>
  PROVE  RedisOK' /\ blocked' \in [Accounts -> Nat]
<1>1. RedisOK /\ blocked \in [Accounts -> Nat]
  BY DEF TypeInv, SharedOK
<1>2. CASE DeleteCooldown(a)
  BY <1>1, <1>2 DEF DeleteCooldown, RedisOK
<1>3. CASE UNCHANGED <<redis, blocked>>
  BY <1>1, <1>3 DEF RedisOK, redis
<1>4. QED BY <1>2, <1>3

\* Every step of an administrator.
LEMMA AdminStepType == ASSUME TypeInv, NEW p \in Admins, AdminStep(p) PROVE TypeInv'
<1>1. adm[p] \in AdminState /\ Home[p] \in Instances
  BY PoolAssumption DEF TypeInv, AdminsOK
<1>2. adm[p].pc \in {"write", "delete", "remove", "clear"} => adm[p].acct \in Accounts
  BY DEF TypeInv, AdminsOK
<1>3. /\ AdminsOK /\ db \in [Accounts -> Row] /\ RedisOK /\ blocked \in [Accounts -> Nat]
      /\ states \in [Instances -> [Accounts -> RuntimeState]]
  BY DEF TypeInv, SharedOK, PoolsOK
<1>4. {"write", "delete", "remove", "clear", "reload"} \subseteq AdminSteps
  BY DEF AdminSteps
<1>5. CASE AdminRead(p)
  <2>1. PICK op \in AdminOps, a \in Accounts :
          adm' = [adm EXCEPT ![p] =
            [pc |-> IF op = "delete" THEN "delete" ELSE "write", op |-> op, acct |-> a,
             row |-> IF op = "delete" THEN InitialRow ELSE db[a]]]
    BY <1>5 DEF AdminRead
  <2> DEFINE x == [pc |-> IF op = "delete" THEN "delete" ELSE "write", op |-> op, acct |-> a,
                   row |-> IF op = "delete" THEN InitialRow ELSE db[a]]
  <2>2. x \in AdminState /\ x.acct = a
    BY <1>3, ConstantTypes, PoolAssumption DEF AdminState, AdminSteps, AccountOrNone
  <2> HIDE DEF x
  <2>3. adm' = [adm EXCEPT ![p] = x]
    BY <2>1 DEF x
  <2>4. AdminsOK'
    BY <1>3, <2>2, <2>3 DEF AdminsOK
  <2>5. QED BY <1>3, <1>5, <2>4, AdminMoves DEF AdminRead, redis, pools, RedisOK
<1>6. CASE AdminWrite(p)
  <2>1. db' \in [Accounts -> Row]
    BY <1>6, AdminStatementType DEF AdminWrite
  <2>2. AdminsOK'
    <3>1. CASE db[adm[p].acct].exists
      <4> DEFINE x == [adm[p] EXCEPT !.pc = AfterWrite(adm[p].op), !.row = InitialRow]
      <4>1. AfterWrite(adm[p].op) \in AdminSteps
        BY DEF AfterWrite, AdminSteps
      <4>2. x \in AdminState /\ x.acct = adm[p].acct
        BY <1>1, <4>1, ConstantTypes DEF AdminState
      <4>3. adm' = [adm EXCEPT ![p] = x]
        BY <1>6, <3>1 DEF AdminWrite
      <4> HIDE DEF x
      <4>4. adm[p].acct \in Accounts
        BY <1>2, <1>6 DEF AdminWrite
      <4>5. QED BY <1>3, <4>2, <4>3, <4>4 DEF AdminsOK
    <3>2. CASE ~db[adm[p].acct].exists
      BY <1>3, <1>6, <3>2, AdminGoes DEF AdminWrite
    <3>3. QED BY <3>1, <3>2
  <2>3. QED BY <1>3, <1>6, <2>1, <2>2, AdminMoves DEF AdminWrite, redis, pools, RedisOK
<1>7. CASE AdminDelete(p)
  <2>1. db' \in [Accounts -> Row]
    BY <1>7, AdminStatementType DEF AdminDelete
  <2>2. AdminsOK'
    BY <1>2, <1>3, <1>4, <1>7, AdminGoes DEF AdminDelete
  <2>3. QED BY <1>3, <1>7, <2>1, <2>2, AdminMoves DEF AdminDelete, redis, pools, RedisOK
<1>8. CASE RemoveAccount(p)
  <2>1. AdminsOK'
    BY <1>2, <1>3, <1>4, <1>8, AdminGoes DEF RemoveAccount
  <2>2. states' \in [Instances -> [Accounts -> RuntimeState]]
    BY <1>1, <1>3, <1>8, ConstantTypes DEF RemoveAccount
  <2>3. QED BY <1>3, <1>8, <2>1, <2>2, AdminMoves DEF RemoveAccount, redis, RedisOK
<1>9. CASE ClearCooldown(p)
  <2>1. RedisOK' /\ blocked' \in [Accounts -> Nat]
    BY <1>9, DeleteCooldownType DEF ClearCooldown
  <2>2. AdminsOK'
    BY <1>3, <1>4, <1>9, AdminGoes DEF ClearCooldown
  <2>3. QED BY <1>3, <1>9, <2>1, <2>2, AdminMoves DEF ClearCooldown, pools
<1>10. CASE AdminFails(p)
  <2>1. RedisOK' /\ blocked' \in [Accounts -> Nat]
    BY <1>10, DeleteCooldownType DEF AdminFails
  <2>2. db' \in [Accounts -> Row]
    BY <1>10, AdminStatementType DEF AdminFails
  <2>3. AdminsOK'
    BY <1>3, <1>4, <1>10, AdminGoes DEF AdminFails
  <2>4. QED BY <1>3, <1>10, <2>1, <2>2, <2>3, AdminMoves DEF AdminFails, pools
<1>11. QED BY <1>5, <1>6, <1>7, <1>8, <1>9, <1>10 DEF AdminStep

\* A new strategy is applied.
LEMMA SetStrategyType == ASSUME TypeInv, NEW i \in Instances, SetStrategy(i) PROVE TypeInv'
  BY PoolAssumption
  DEF SetStrategy, TypeInv, SharedOK, RedisOK, PoolsOK, RequestsOK, AdminsOK, TokensOK,
      redis, request

\* Time passes.
LEMMA TickType == ASSUME TypeInv, Tick PROVE TypeInv'
  BY DEF Tick, TypeInv, SharedOK, RedisOK, PoolsOK, RequestsOK, AdminsOK, TokensOK,
         redis, pools, request

\* An instance dies and its callers with it.
LEMMA CrashType == ASSUME TypeInv, NEW i \in Instances, Crash(i) PROVE TypeInv'
<1>1. SharedOK'
  BY DEF Fails, Crash, TypeInv, SharedOK, RedisOK, redis
<1>2. PoolsOK'
  BY ConstantTypes DEF Crash, TypeInv, PoolsOK
<1>3. RequestsOK'
  <2> DEFINE hit == {r \in Requests : Home[r] = i /\ pc[r] # "idle"}
  <2>1. "done" \in Steps /\ NoAccount \in AccountOrNone
    BY DEF Steps, AccountOrNone
  <2>2. ASSUME NEW r \in Requests PROVE Place(r, "done", NoAccount, IdleReq)
    BY DEF Place, IdleReq, OwnerSteps, ReservedSteps, BindSteps
  <2>3. /\ pc' = [r \in Requests |-> IF r \in hit THEN "done" ELSE pc[r]]
        /\ acct' = [r \in Requests |-> IF r \in hit THEN NoAccount ELSE acct[r]]
        /\ exp' = [r \in Requests |-> IF r \in hit THEN 0 ELSE exp[r]]
        /\ req' = [r \in Requests |-> IF r \in hit THEN IdleReq ELSE req[r]]
    BY DEF Crash
  <2> HIDE DEF hit
  <2>4. QED BY <2>1, <2>2, <2>3, ConstantTypes DEF TypeInv, RequestsOK
<1>4. AdminsOK'
  <2>1. /\ [IdleAdmin EXCEPT !.pc = "done"] \in AdminState
        /\ [IdleAdmin EXCEPT !.pc = "done"].pc = "done"
    BY ConstantTypes DEF AdminState, AdminSteps
  <2>2. QED BY <2>1 DEF Crash, TypeInv, AdminsOK
<1>5. TokensOK'
  <2> SUFFICES ASSUME NEW j \in Instances, NEW r \in Requests, reload'[j].by = r
               PROVE  Home[r] = j /\ pc'[r] = "relReload"
    BY DEF TokensOK
  <2>1. j # i
    BY PoolAssumption DEF Crash, TokenFree, TypeInv, PoolsOK
  <2>2. Home[r] = j /\ pc[r] = "relReload"
    BY <2>1 DEF Crash, TypeInv, PoolsOK, TokensOK
  <2>3. QED BY <2>1, <2>2 DEF Crash
<1>6. QED BY <1>1, <1>2, <1>3, <1>4, <1>5 DEF TypeInv

\* TypeInv is inductive: one case per action of Next.
LEMMA TypeStep == TypeInv /\ [Next]_vars => TypeInv'
<1> SUFFICES ASSUME TypeInv, [Next]_vars PROVE TypeInv'
  OBVIOUS
<1>1. ASSUME NEW r \in Requests, AcquireStep(r) PROVE TypeInv'
  BY <1>1, StartType, ReadAffinityType, FindStaleAffinityType, ReserveType, NoCandidateType,
     ClearUnavailableType, CheckCooldownType, AcquireLeaseType, LeaseRefusedType, RollbackType,
     ReadCredentialsType, ClearOldBindingType, BindSetNXType, BindGetType, BindExpireType,
     ProbeReserveType, ProbeRefusedType DEF AcquireStep
<1>2. ASSUME NEW r \in Requests, ReleaseStep(r) PROVE TypeInv'
  BY <1>2, ReleaseSectionType, ReleaseCooldownType, ReleaseAffinityType, ReleaseSaveType,
     ReleaseSlotType DEF ReleaseStep
<1>3. ASSUME NEW r \in Requests, CallFails(r) PROVE TypeInv'
  BY <1>3, AcquireFailsType, ReleaseCooldownType, ReleaseAffinityType, ReleaseSaveType,
     ReleaseSlotType DEF CallFails
<1>4. ASSUME NEW i \in Instances,
             \/ \E who \in WantsReload(i) : ListAccounts(i, who)
             \/ ApplyReload(i) \/ ReloadFails(i) \/ ReloadTimesOut(i)
             \/ SetStrategy(i) \/ Crash(i)
      PROVE  TypeInv'
  BY <1>4, ListAccountsType, ApplyReloadType, ReloadFailsType, ReloadTimesOutType,
     SetStrategyType, CrashType
<1>5. ASSUME NEW p \in Admins, AdminStep(p) PROVE TypeInv'
  BY <1>5, AdminStepType
<1>6. CASE Tick
  BY <1>6, TickType
<1>7. CASE UNCHANGED vars
  BY <1>7
  DEF vars, redis, pools, request,
      TypeInv, SharedOK, RedisOK, PoolsOK, RequestsOK, AdminsOK, TokensOK
<1>8. QED BY <1>1, <1>2, <1>3, <1>4, <1>5, <1>6, <1>7 DEF Next

\* TypeInv holds in every reachable state.
LEMMA TypeInvariant == Spec => []TypeInv
  BY InitType, TypeStep, PTL DEF Spec

\* In every reachable state of any number of instances, accounts, requests and
\* administrators every variable is well formed; in particular no inflight counter
\* goes below zero.
THEOREM TypeCorrect == Spec => []TypeOK
<1>1. TypeInv => TypeOK
  BY DEF TypeInv, SharedOK, RedisOK, PoolsOK, RequestsOK, AdminsOK, TypeOK
<1>2. QED BY <1>1, TypeInvariant, PTL

-----------------------------------------------------------------------------
(* Capacity.                                                                 *)

\* A failed call and an ended request may leave a member behind until it expires.
Spent == {"undoFail", "done"}

\* The inductive invariant.
SlotInv ==
  /\ \A r \in Requests :
       pc[r] \in OwnerSteps /\ exp[r] > now => slots[acct[r]][r] = exp[r]
  /\ \A a \in Accounts : Cardinality(LiveOwners(slots[a], now)) <= Limit[a]
  /\ \A a \in Accounts, r \in Requests :
       slots[a][r] # 0 => pc[r] \in Spent \/ (pc[r] \in OwnerSteps /\ acct[r] = a)

----------------------------------------------------------------------------
(* Every step but a successful lease and a tick is quiet: no request       *)
(* becomes an owner, owners keep their lease, and whoever stops being one  *)
(* has ended.                                                              *)

\* What a quiet step does to one request.
Quiet(r) ==
  \/ /\ pc[r] \in OwnerSteps /\ pc'[r] \in OwnerSteps
     /\ acct'[r] = acct[r] /\ exp'[r] = exp[r]
  \/ pc'[r] \in Spent
  \/ pc[r] \notin OwnerSteps \cup Spent /\ pc'[r] \notin OwnerSteps

AllQuiet == \A r \in Requests : Quiet(r)

\* What a quiet step does to the lease sets.
SlotStep ==
  \/ UNCHANGED slots
  \/ \E r \in Requests : GiveSlotBack(r) /\ pc'[r] = "done"
  \/ \E r \in Requests :
       /\ TakeSlot(r) /\ acct[r] \in Accounts
       /\ pc'[r] = "undoFail" \/ ~LeaseFits(slots[acct[r]], r, Limit[acct[r]], now)

QuietStep == UNCHANGED now /\ AllQuiet /\ SlotStep

\* No step is both an owner's and a spent one.
LEMMA StepsApart == OwnerSteps \cap Spent = {}
  BY DEF OwnerSteps, BindSteps, Spent

\* A request that moves on with its account is quiet.
LEMMA GotoQuiet ==
  ASSUME TypeInv, NEW r \in Requests, NEW step, Goto(r, step), UNCHANGED <<acct, exp>>,
         \/ step \in Spent
         \/ pc[r] \in OwnerSteps /\ step \in OwnerSteps
         \/ pc[r] \notin OwnerSteps \cup Spent /\ step \notin OwnerSteps
  PROVE  AllQuiet
<1>1. pc \in [Requests -> Steps]
  BY DEF TypeInv, RequestsOK
<1>2. SUFFICES ASSUME NEW s \in Requests PROVE Quiet(s)
  BY DEF AllQuiet
<1>3. CASE s = r
  BY <1>1, <1>3 DEF Goto, Quiet
<1>4. CASE s # r
  BY <1>1, <1>4 DEF Goto, Quiet
<1>5. QED BY <1>3, <1>4

\* A request that ends is quiet.
LEMMA FinishQuiet ==
  ASSUME TypeInv, NEW r \in Requests, Finish(r) PROVE AllQuiet /\ pc'[r] = "done"
<1>1. /\ pc \in [Requests -> Steps] /\ acct \in [Requests -> AccountOrNone]
      /\ exp \in [Requests -> Nat]
  BY DEF TypeInv, RequestsOK
<1>2. QED BY <1>1 DEF Finish, Goto, AllQuiet, Quiet, Spent

\* A request that changes its account before it has a lease is quiet.
LEMMA MoveQuiet ==
  ASSUME TypeInv, NEW r \in Requests, NEW step, NEW a, Goto(r, step),
         acct' = [acct EXCEPT ![r] = a], UNCHANGED exp,
         pc[r] \notin OwnerSteps \cup Spent, step \notin OwnerSteps
  PROVE  AllQuiet
<1>1. pc \in [Requests -> Steps] /\ acct \in [Requests -> AccountOrNone]
  BY DEF TypeInv, RequestsOK
<1>2. QED BY <1>1 DEF Goto, AllQuiet, Quiet

\* Every step of Acquire but the granted lease is quiet.
LEMMA AcquireKinds ==
  ASSUME TypeInv, NEW r \in Requests, AcquireStep(r), ~AcquireLease(r)
  PROVE  QuietStep
<1> USE DEF OwnerSteps, BindSteps, Spent
<1>1. CASE Start(r)
  BY <1>1, GotoQuiet DEF Start, QuietStep, SlotStep, redis
<1>2. CASE ReadAffinity(r)
  BY <1>2, GotoQuiet DEF ReadAffinity, QuietStep, SlotStep, redis
<1>3. CASE FindStaleAffinity(r)
  BY <1>3, GotoQuiet DEF FindStaleAffinity, QuietStep, SlotStep, redis
<1>4. CASE Reserve(r)
  BY <1>4, MoveQuiet DEF Reserve, QuietStep, SlotStep, redis
<1>5. CASE NoCandidate(r)
  BY <1>5, FinishQuiet DEF NoCandidate, QuietStep, SlotStep, redis
<1>6. CASE ClearUnavailable(r)
  BY <1>6, GotoQuiet DEF ClearUnavailable, DeleteBinding, QuietStep, SlotStep
<1>7. CASE CheckCooldown(r)
  <2>1. PICK step \in {"undoCooling", "undoRetry", "acquireLease"} : Goto(r, step)
    BY <1>7 DEF CheckCooldown
  <2>2. QED BY <1>7, <2>1, GotoQuiet DEF CheckCooldown, QuietStep, SlotStep, redis
<1>8. CASE LeaseRefused(r)
  <2>1. PICK step \in {"undoFail", "undoRetry"} : Goto(r, step)
    BY <1>8 DEF LeaseRefused
  <2>2. AllQuiet
    BY <1>8, <2>1, GotoQuiet DEF LeaseRefused
  <2>3. acct[r] \in Accounts
    BY <1>8, RequestFacts DEF LeaseRefused, Place, ReservedSteps
  <2>4. QED BY <1>8, <2>2, <2>3 DEF LeaseRefused, QuietStep, SlotStep
<1>9. CASE Rollback(r)
  <2>1. CASE pc[r] = "undoFail"
    BY <1>9, <2>1, FinishQuiet DEF Rollback, QuietStep, SlotStep, redis
  <2>2. CASE pc[r] \in {"undoRetry", "undoCooling"}
    <3>1. PICK step \in {"clearUnavailable", "select"} : Goto(r, step)
      BY <1>9, <2>2 DEF Rollback
    <3>2. QED BY <1>9, <2>2, <3>1, MoveQuiet DEF Rollback, QuietStep, SlotStep, redis
  <2>3. CASE pc[r] = "undoOwned"
    BY <1>9, <2>3, GotoQuiet DEF Rollback, QuietStep, SlotStep, redis
  <2>4. QED BY <1>9, <2>1, <2>2, <2>3 DEF Rollback
<1>10. CASE ReadCredentials(r)
  <2>1. PICK step \in {"clearOld", "bindSetNX", "held", "undoOwned"} : Goto(r, step)
    BY <1>10 DEF ReadCredentials, AfterCredentials
  <2>2. QED BY <1>10, <2>1, GotoQuiet DEF ReadCredentials, QuietStep, SlotStep, redis
<1>11. CASE ClearOldBinding(r)
  BY <1>11, GotoQuiet DEF ClearOldBinding, DeleteBinding, QuietStep, SlotStep
<1>12. CASE BindSetNX(r)
  <2>1. PICK step \in {"held", "bindGet"} : Goto(r, step)
    BY <1>12 DEF BindSetNX
  <2>2. QED BY <1>12, <2>1, GotoQuiet DEF BindSetNX, CreateBinding, QuietStep, SlotStep
<1>13. CASE BindGet(r)
  <2>1. PICK step \in {"bindSetNX", "undoOwned", "bindExpire"} : Goto(r, step)
    BY <1>13 DEF BindGet, NextAttempt
  <2>2. QED BY <1>13, <2>1, GotoQuiet DEF BindGet, QuietStep, SlotStep, redis
<1>14. CASE BindExpire(r)
  <2>1. PICK step \in {"bindSetNX", "undoOwned", "held"} : Goto(r, step)
    BY <1>14 DEF BindExpire, NextAttempt
  <2>2. QED BY <1>14, <2>1, GotoQuiet DEF BindExpire, RefreshBinding, QuietStep, SlotStep
<1>15. CASE ProbeReserve(r)
  BY <1>15, MoveQuiet DEF ProbeReserve, QuietStep, SlotStep, redis
<1>16. CASE ProbeRefused(r)
  BY <1>16, FinishQuiet DEF ProbeRefused, QuietStep, SlotStep, redis
<1>17. QED
  BY <1>1, <1>2, <1>3, <1>4, <1>5, <1>6, <1>7, <1>8, <1>9, <1>10, <1>11, <1>12, <1>13,
     <1>14, <1>15, <1>16 DEF AcquireStep

\* Every step of Release and every failed call is quiet.
LEMMA ReleaseKinds ==
  ASSUME TypeInv, NEW r \in Requests, ReleaseStep(r) \/ CallFails(r)
  PROVE  QuietStep
<1> USE DEF OwnerSteps, BindSteps, Spent
<1>1. ASSUME NEW st, NEW w, pc[r] = "held", ReleaseTo(r, st, w) PROVE QuietStep
  <2>1. PICK step \in {"relCool", "relAff", "relSave", "relSlot"} : Goto(r, step)
    BY <1>1 DEF ReleaseTo, AfterSection, AfterCool, AfterAffinity
  <2>2. QED BY <1>1, <2>1, GotoQuiet DEF ReleaseTo, QuietStep, SlotStep, redis
<1>2. ASSUME NEW fb, NEW st, NEW changed, NEW w, pc[r] = "held", Applied(r, fb, st, changed, w)
      PROVE  QuietStep
  BY <1>1, <1>2 DEF Applied
<1>3. CASE ReleaseSection(r)
  <2>1. CASE ReleaseGone(r) \/ ReleaseReplaced(r)
    BY <1>1, <2>1 DEF ReleaseGone, ReleaseReplaced
  <2>2. CASE ~(ReleaseGone(r) \/ ReleaseReplaced(r))
    BY <1>2, <1>3, <2>2
    DEF ReleaseSection, ReleaseTerminal, ReleaseRateLimited, ReleaseDenied, ReleaseExhausted,
        ReleaseOldSuccess, ReleaseSuccess, ReleaseIgnored, ReleaseTransient, Otherwise, Reports
  <2>3. QED BY <2>1, <2>2
<1>4. CASE ReleaseCooldown(r) \/ ReleaseCooldownFails(r)
  <2>1. PICK step \in {"relAff", "relSave", "relSlot"} : Goto(r, step)
    BY <1>4, AfterTypes DEF ReleaseCooldown, ReleaseCooldownFails
  <2>2. QED
    BY <1>4, <2>1, GotoQuiet
    DEF ReleaseCooldown, ReleaseCooldownFails, PublishCooldown, QuietStep, SlotStep, redis
<1>5. CASE ReleaseAffinity(r) \/ ReleaseAffinityFails(r)
  <2>1. PICK step \in {"relSave", "relSlot"} : Goto(r, step)
    BY <1>5, AfterTypes DEF ReleaseAffinity, ReleaseAffinityFails
  <2>2. QED
    BY <1>5, <2>1, GotoQuiet
    DEF ReleaseAffinity, ReleaseAffinityFails, UnbindOwn, QuietStep, SlotStep, redis
<1>6. CASE ReleaseSave(r) \/ ReleaseSaveFails(r)
  <2>1. PICK step \in {"relReload", "relSlot"} : Goto(r, step)
    BY <1>6 DEF ReleaseSave, ReleaseSaveFails
  <2>2. QED
    BY <1>6, <2>1, GotoQuiet DEF ReleaseSave, ReleaseSaveFails, QuietStep, SlotStep, redis
<1>7. CASE ReleaseSlot(r) \/ ReleaseSlotFails(r)
  BY <1>7, FinishQuiet DEF ReleaseSlot, ReleaseSlotFails, QuietStep, SlotStep, redis
<1>8. CASE AffinityFails(r)
  BY <1>8, FinishQuiet DEF AffinityFails, DeleteBinding, QuietStep, SlotStep, redis
<1>9. CASE ReservedCallFails(r)
  <2>1. AllQuiet
    BY <1>9, GotoQuiet DEF ReservedCallFails
  <2>2. pc'[r] = "undoFail"
    BY <1>9 DEF ReservedCallFails, Goto, TypeInv, RequestsOK
  <2>3. acct[r] \in Accounts
    BY <1>9, RequestFacts DEF ReservedCallFails, Place, ReservedSteps
  <2>4. QED BY <1>9, <2>1, <2>2, <2>3 DEF ReservedCallFails, QuietStep, SlotStep, redis
<1>10. CASE OwnedCallFails(r)
  BY <1>10, GotoQuiet
  DEF OwnedCallFails, DeleteBinding, CreateBinding, RefreshBinding, QuietStep, SlotStep, redis
<1>11. QED
  BY <1>3, <1>4, <1>5, <1>6, <1>7, <1>8, <1>9, <1>10 DEF ReleaseStep, CallFails

\* A reload that returns to its caller is quiet.
LEMMA ResumeQuiet ==
  ASSUME TypeInv, NEW who, Resume(who), UNCHANGED <<acct, exp>>,
         \A r \in Requests : r = who => pc[r] = "relReload"
  PROVE  AllQuiet
  BY DEF Resume, AllQuiet, Quiet, OwnerSteps, Spent

\* Reloads, administrators, strategies and crashes are quiet.
LEMMA OtherKinds ==
  ASSUME TypeInv,
         \/ \E i \in Instances : \/ \E who \in WantsReload(i) : ListAccounts(i, who)
                                 \/ ApplyReload(i) \/ ReloadFails(i) \/ ReloadTimesOut(i)
                                 \/ SetStrategy(i) \/ Crash(i)
         \/ \E p \in Admins : AdminStep(p)
         \/ UNCHANGED vars
  PROVE  QuietStep
<1>1. ASSUME UNCHANGED <<pc, acct, exp>> PROVE AllQuiet
  BY <1>1 DEF AllQuiet, Quiet
<1>2. ASSUME NEW i \in Instances, ApplyReload(i) \/ ReloadFails(i) PROVE QuietStep
  <2>1. \A r \in Requests : r = reload[i].by => pc[r] = "relReload"
    BY DEF TypeInv, TokensOK
  <2>2. AllQuiet
    BY <1>2, <2>1, ResumeQuiet DEF ApplyReload, ReloadFails, ReloadReturns
  <2>3. QED BY <1>2, <2>2 DEF ApplyReload, ReloadFails, QuietStep, SlotStep, redis
<1>3. ASSUME NEW i \in Instances, ReloadTimesOut(i) PROVE QuietStep
  <2>1. PICK who \in WantsReload(i) \cap (Probes \cup Admins) : Resume(who)
    BY <1>3 DEF ReloadTimesOut
  <2>2. \A r \in Requests : r = who => pc[r] = "relReload"
    BY PoolAssumption DEF WantsReload
  <2>3. QED BY <1>3, <2>1, <2>2, ResumeQuiet DEF ReloadTimesOut, QuietStep, SlotStep, redis
<1>4. ASSUME NEW i \in Instances, Crash(i) PROVE QuietStep
  <2>1. AllQuiet
    BY <1>4 DEF Crash, AllQuiet, Quiet, Spent
  <2>2. QED BY <1>4, <2>1 DEF Crash, QuietStep, SlotStep, redis
<1>5. ASSUME NEW i \in Instances,
             (\E who \in WantsReload(i) : ListAccounts(i, who)) \/ SetStrategy(i)
      PROVE  QuietStep
  BY <1>1, <1>5 DEF ListAccounts, SetStrategy, QuietStep, SlotStep, redis, request
<1>6. ASSUME NEW p \in Admins, AdminStep(p) PROVE QuietStep
  BY <1>1, <1>6
  DEF AdminStep, AdminRead, AdminWrite, AdminDelete, RemoveAccount, ClearCooldown, AdminFails,
      DeleteCooldown, QuietStep, SlotStep, redis, request
<1>7. CASE UNCHANGED vars
  BY <1>1, <1>7 DEF vars, QuietStep, SlotStep, redis, request
<1>8. QED BY <1>2, <1>3, <1>4, <1>5, <1>6, <1>7

\* Every step is a tick, a successful lease, or quiet.
LEMMA StepKinds ==
  ASSUME TypeInv, [Next]_vars
  PROVE  Tick \/ (\E r \in Requests : AcquireLease(r)) \/ QuietStep
<1>1. ASSUME NEW r \in Requests, AcquireStep(r) \/ ReleaseStep(r) \/ CallFails(r)
      PROVE  AcquireLease(r) \/ QuietStep
  BY <1>1, AcquireKinds, ReleaseKinds
<1>2. QED BY <1>1, OtherKinds DEF Next

----------------------------------------------------------------------------
(* The lease set of one account.                                           *)

\* The live members are finitely many requests.
LEMMA LiveFinite ==
  ASSUME NEW z \in [Requests -> Nat], NEW t \in Nat
  PROVE  /\ IsFiniteSet(LiveOwners(z, t)) /\ Cardinality(LiveOwners(z, t)) \in Nat
         /\ LiveOwners(z, t) \subseteq Requests
<1>1. LiveOwners(z, t) \subseteq Requests
  BY DEF LiveOwners
<1>2. QED BY <1>1, RequestsFinite, FS_Subset, FS_CardinalityType

\* Time only takes members away.
LEMMA LiveShrinks ==
  ASSUME NEW z \in [Requests -> Nat], NEW t \in Nat, NEW u \in Nat, t <= u
  PROVE  Cardinality(LiveOwners(z, u)) <= Cardinality(LiveOwners(z, t))
<1>1. LiveOwners(z, u) \subseteq LiveOwners(z, t)
  BY DEF LiveOwners
<1>2. QED BY <1>1, LiveFinite, FS_Subset

\* The acquire script never lets the live members exceed the limit.
LEMMA AcquireBound ==
  ASSUME NEW z \in [Requests -> Nat], NEW o \in Requests, NEW limit \in Nat,
         NEW ttl \in Nat \ {0}, NEW t \in Nat, Cardinality(LiveOwners(z, t)) <= limit
  PROVE  Cardinality(LiveOwners(AcquireLeaseSlot(z, o, limit, ttl, t), t)) <= limit
<1> DEFINE new == AcquireLeaseSlot(z, o, limit, ttl, t)
<1>1. CASE LeaseFits(z, o, limit, t)
  <2>1. LiveOwners(new, t) = LiveOwners(z, t) \cup {o}
    BY <1>1 DEF AcquireLeaseSlot, PurgeExpired, LiveOwners
  <2>2. CASE o \in LiveOwners(z, t)
    <3>1. LiveOwners(new, t) = LiveOwners(z, t)
      BY <2>1, <2>2
    <3>2. QED BY <3>1
  <2>3. CASE o \notin LiveOwners(z, t)
    <3>1. Cardinality(LiveOwners(z, t)) < limit
      BY <1>1, <2>3 DEF LeaseFits
    <3>2. Cardinality(LiveOwners(z, t) \cup {o}) = Cardinality(LiveOwners(z, t)) + 1
      BY <2>3, LiveFinite, FS_AddElement
    <3>3. QED BY <2>1, <3>1, <3>2, LiveFinite
  <2>4. QED BY <2>2, <2>3
<1>2. CASE ~LeaseFits(z, o, limit, t)
  <2>1. LiveOwners(new, t) = LiveOwners(z, t)
    BY <1>2 DEF AcquireLeaseSlot, PurgeExpired, LiveOwners
  <2>2. QED BY <2>1
<1>3. QED BY <1>1, <1>2

\* The release script adds no live member.
LEMMA ReleaseBound ==
  ASSUME NEW z \in [Requests -> Nat], NEW o \in Requests, NEW t \in Nat
  PROVE  Cardinality(LiveOwners(ReleaseLeaseSlot(z, o), t)) <= Cardinality(LiveOwners(z, t))
<1>1. LiveOwners(ReleaseLeaseSlot(z, o), t) \subseteq LiveOwners(z, t)
  BY DEF LiveOwners, ReleaseLeaseSlot
<1>2. QED BY <1>1, LiveFinite, FS_Subset

\* What the script makes of the member of its caller.
LEMMA AcquireOwn ==
  ASSUME NEW z \in [Requests -> Nat], NEW o \in Requests, NEW limit \in Nat,
         NEW ttl \in Nat, NEW t \in Nat
  PROVE  LET new == AcquireLeaseSlot(z, o, limit, ttl, t)
         IN  /\ LeaseFits(z, o, limit, t) => new[o] = t + ttl
             /\ ~LeaseFits(z, o, limit, t) => new[o] \in {z[o], 0}
  BY DEF AcquireLeaseSlot, PurgeExpired

----------------------------------------------------------------------------
(* SlotInv is inductive.                                                   *)

\* What TypeInv says about the variables of SlotInv.
LEMMA SlotTypes ==
  ASSUME TypeInv
  PROVE  /\ now \in Nat /\ slots \in [Accounts -> [Requests -> Nat]]
         /\ acct \in [Requests -> AccountOrNone] /\ exp \in [Requests -> Nat]
         /\ pc \in [Requests -> Steps]
         /\ \A r \in Requests : pc[r] \in OwnerSteps => acct[r] \in Accounts
         /\ LeaseTTL \in Nat \ {0} /\ Limit \in [Accounts -> Nat]
<1>1. \A r \in Requests : pc[r] \in OwnerSteps => acct[r] \in Accounts
  BY RequestFacts DEF Place
<1>2. QED BY <1>1, PoolAssumption DEF TypeInv, SharedOK, RedisOK, RequestsOK

\* Nobody is a member at first.
LEMMA SlotInit == Init => SlotInv
<1> SUFFICES ASSUME Init PROVE SlotInv
  OBVIOUS
<1>1. \A a \in Accounts : LiveOwners(slots[a], now) = {}
  BY DEF Init, LiveOwners
<1>2. \A a \in Accounts : Cardinality(LiveOwners(slots[a], now)) <= Limit[a]
  <2>1. Cardinality({}) = 0 /\ \A a \in Accounts : Limit[a] \in Nat
    BY FS_EmptySet, PoolAssumption
  <2>2. QED BY <1>1, <2>1
<1>3. QED BY <1>2 DEF Init, SlotInv, OwnerSteps, BindSteps

\* What one script call and a quiet step do to the members of a request.
LEMMA TakeEffect ==
  ASSUME TypeInv, NEW o \in Requests, TakeSlot(o), acct[o] \in Accounts
  PROVE  /\ \A a \in Accounts, s \in Requests :
              a # acct[o] \/ s # o => /\ slots'[a][s] \in {slots[a][s], 0}
                                      /\ slots[a][s] > now => slots'[a][s] = slots[a][s]
         /\ LeaseFits(slots[acct[o]], o, Limit[acct[o]], now)
              => slots'[acct[o]][o] = now + LeaseTTL
         /\ ~LeaseFits(slots[acct[o]], o, Limit[acct[o]], now)
              => slots'[acct[o]][o] \in {slots[acct[o]][o], 0}
<1> DEFINE b == acct[o]
           new == AcquireLeaseSlot(slots[b], o, Limit[b], LeaseTTL, now)
<1>1. slots' = [slots EXCEPT ![b] = new]
  BY DEF TakeSlot
<1>2. /\ slots \in [Accounts -> [Requests -> Nat]] /\ slots[b] \in [Requests -> Nat]
      /\ Limit[b] \in Nat /\ LeaseTTL \in Nat /\ now \in Nat /\ b \in Accounts
  BY SlotTypes
<1>3. /\ \A s \in Requests : s # o => /\ new[s] \in {slots[b][s], 0}
                                      /\ slots[b][s] > now => new[s] = slots[b][s]
      /\ LeaseFits(slots[b], o, Limit[b], now) => new[o] = now + LeaseTTL
      /\ ~LeaseFits(slots[b], o, Limit[b], now) => new[o] \in {slots[b][o], 0}
  <2>1. ASSUME NEW s \in Requests, s # o
        PROVE  new[s] \in {slots[b][s], 0} /\ (slots[b][s] > now => new[s] = slots[b][s])
    BY <1>2, <2>1 DEF AcquireLeaseSlot, PurgeExpired
  <2>2. /\ LeaseFits(slots[b], o, Limit[b], now) => new[o] = now + LeaseTTL
        /\ ~LeaseFits(slots[b], o, Limit[b], now) => new[o] \in {slots[b][o], 0}
    BY <1>2, AcquireOwn
  <2>3. QED BY <2>1, <2>2
<1> HIDE DEF b, new
<1>4. slots'[b] = new /\ \A a \in Accounts : a # b => slots'[a] = slots[a]
  BY <1>1, <1>2
<1>5. QED BY <1>3, <1>4 DEF b

\* No call of the acquire script, answered or not, exceeds a limit.
LEMMA TakeBound ==
  ASSUME TypeInv, SlotInv, NEW o \in Requests, TakeSlot(o), acct[o] \in Accounts
  PROVE  \A a \in Accounts : Cardinality(LiveOwners(slots'[a], now)) <= Limit[a]
<1> SUFFICES ASSUME NEW a \in Accounts
             PROVE  Cardinality(LiveOwners(slots'[a], now)) <= Limit[a]
  OBVIOUS
<1>1. /\ slots \in [Accounts -> [Requests -> Nat]] /\ slots[a] \in [Requests -> Nat]
      /\ Limit[a] \in Nat /\ LeaseTTL \in Nat \ {0} /\ now \in Nat
  BY SlotTypes
<1>2. Cardinality(LiveOwners(slots[a], now)) <= Limit[a]
  BY DEF SlotInv
<1>3. CASE a = acct[o]
  <2>1. slots'[a] = AcquireLeaseSlot(slots[a], o, Limit[a], LeaseTTL, now)
    BY <1>1, <1>3 DEF TakeSlot
  <2>2. QED BY <1>1, <1>2, <2>1, AcquireBound
<1>4. CASE a # acct[o]
  BY <1>1, <1>2, <1>4 DEF TakeSlot
<1>5. QED BY <1>3, <1>4

\* A granted lease keeps SlotInv.
LEMMA LeaseKeepsSlots ==
  ASSUME TypeInv, SlotInv, NEW o \in Requests, AcquireLease(o) PROVE SlotInv'
<1>1. /\ pc[o] = "acquireLease" /\ TakeSlot(o) /\ acct[o] \in Accounts
      /\ LeaseFits(slots[acct[o]], o, Limit[acct[o]], now)
      /\ UNCHANGED <<now, acct>>
  BY RequestFacts DEF AcquireLease, Place, ReservedSteps
<1>2. /\ pc' = [pc EXCEPT ![o] = "credentials"] /\ exp' = [exp EXCEPT ![o] = now + LeaseTTL]
  BY DEF AcquireLease, Goto
<1>3. ASSUME NEW r \in Requests, pc'[r] \in OwnerSteps, exp'[r] > now
      PROVE  slots'[acct[r]][r] = exp'[r]
  <2>1. CASE r = o
    <3>1. exp'[r] = now + LeaseTTL
      BY <1>2, <2>1, SlotTypes
    <3>2. QED BY <1>1, <2>1, <3>1, TakeEffect
  <2>2. CASE r # o
    <3>1. pc[r] \in OwnerSteps /\ exp'[r] = exp[r]
      BY <1>2, <1>3, <2>2, SlotTypes
    <3>2. acct[r] \in Accounts /\ slots[acct[r]][r] = exp[r]
      BY <1>3, <3>1, SlotTypes DEF SlotInv
    <3>3. QED BY <1>1, <1>3, <2>2, <3>1, <3>2, TakeEffect
  <2>3. QED BY <2>1, <2>2
<1>4. \A a \in Accounts : Cardinality(LiveOwners(slots'[a], now)) <= Limit[a]
  BY <1>1, TakeBound
<1>5. ASSUME NEW a \in Accounts, NEW r \in Requests, slots'[a][r] # 0
      PROVE  pc'[r] \in Spent \/ (pc'[r] \in OwnerSteps /\ acct[r] = a)
  <2>1. CASE r = o /\ a = acct[o]
    BY <1>2, <2>1, SlotTypes DEF OwnerSteps
  <2>2. CASE r = o /\ a # acct[o]
    <3>1. slots[a][r] # 0
      BY <1>1, <1>5, <2>2, TakeEffect
    <3>2. pc[r] \in Spent \/ (pc[r] \in OwnerSteps /\ acct[r] = a)
      BY <3>1 DEF SlotInv
    <3>3. QED BY <1>1, <2>2, <3>2 DEF Spent, OwnerSteps, BindSteps
  <2>3. CASE r # o
    <3>1. slots[a][r] # 0
      BY <1>1, <1>5, <2>3, TakeEffect
    <3>2. pc[r] \in Spent \/ (pc[r] \in OwnerSteps /\ acct[r] = a)
      BY <3>1 DEF SlotInv
    <3>3. pc'[r] = pc[r]
      BY <1>2, <2>3, SlotTypes
    <3>4. QED BY <3>2, <3>3
  <2>4. QED BY <2>1, <2>2, <2>3
<1>6. QED BY <1>1, <1>3, <1>4, <1>5 DEF SlotInv

\* A quiet step keeps SlotInv.
LEMMA QuietKeepsSlots ==
  ASSUME TypeInv, SlotInv, QuietStep PROVE SlotInv'
<1>1. /\ slots \in [Accounts -> [Requests -> Nat]] /\ now \in Nat /\ now' = now
      /\ Limit \in [Accounts -> Nat]
  BY SlotTypes DEF QuietStep
\* A member survives, unless its owner gives it back or its deadline has passed.
<1>2. ASSUME NEW a \in Accounts, NEW r \in Requests, pc'[r] \notin Spent
      PROVE  slots'[a][r] \in {slots[a][r], 0} /\ (slots[a][r] > now => slots'[a][r] = slots[a][r])
  <2>1. CASE UNCHANGED slots
    BY <2>1
  <2>2. ASSUME NEW o \in Requests, GiveSlotBack(o), pc'[o] = "done"
        PROVE  slots'[a][r] = slots[a][r]
    BY <1>1, <1>2, <2>2 DEF GiveSlotBack, ReleaseLeaseSlot, Spent
  <2>3. ASSUME NEW o \in Requests, TakeSlot(o), acct[o] \in Accounts,
               pc'[o] = "undoFail" \/ ~LeaseFits(slots[acct[o]], o, Limit[acct[o]], now)
        PROVE  /\ slots'[a][r] \in {slots[a][r], 0}
               /\ slots[a][r] > now => slots'[a][r] = slots[a][r]
    <3>1. CASE r # o \/ a # acct[o]
      BY <2>3, <3>1, TakeEffect
    <3>2. CASE r = o /\ a = acct[o]
      <4>1. ~LeaseFits(slots[a], r, Limit[a], now)
        BY <1>2, <2>3, <3>2 DEF Spent
      <4>2. slots'[a][r] \in {slots[a][r], 0}
        BY <2>3, <3>2, <4>1, TakeEffect
      <4>3. ~(slots[a][r] > now)
        BY <1>1, <4>1 DEF LeaseFits, LiveOwners
      <4>4. QED BY <4>2, <4>3
    <3>3. QED BY <3>1, <3>2
  <2>4. QED BY <2>1, <2>2, <2>3 DEF QuietStep, SlotStep
<1>3. ASSUME NEW r \in Requests, pc'[r] \in OwnerSteps, exp'[r] > now
      PROVE  slots'[acct'[r]][r] = exp'[r]
  <2>1. pc'[r] \notin Spent
    BY <1>3, StepsApart
  <2>2. pc[r] \in OwnerSteps /\ acct'[r] = acct[r] /\ exp'[r] = exp[r]
    BY <1>3, <2>1 DEF QuietStep, AllQuiet, Quiet
  <2>3. acct[r] \in Accounts /\ slots[acct[r]][r] = exp[r]
    BY <1>3, <2>2, SlotTypes DEF SlotInv
  <2>4. QED BY <1>2, <1>3, <2>1, <2>2, <2>3
<1>4. ASSUME NEW a \in Accounts PROVE Cardinality(LiveOwners(slots'[a], now)) <= Limit[a]
  <2>1. Cardinality(LiveOwners(slots[a], now)) <= Limit[a] /\ slots[a] \in [Requests -> Nat]
    BY <1>1 DEF SlotInv
  <2>2. CASE UNCHANGED slots
    BY <2>1, <2>2
  <2>3. ASSUME NEW o \in Requests, GiveSlotBack(o)
        PROVE  Cardinality(LiveOwners(slots'[a], now)) <= Limit[a]
    <3>1. CASE a = acct[o]
      <4>1. slots'[a] = ReleaseLeaseSlot(slots[a], o)
        BY <1>1, <2>3, <3>1 DEF GiveSlotBack
      <4>2. Cardinality(LiveOwners(slots'[a], now)) <= Cardinality(LiveOwners(slots[a], now))
        BY <1>1, <2>1, <4>1, ReleaseBound
      <4>3. ReleaseLeaseSlot(slots[a], o) \in [Requests -> Nat]
        BY <2>1 DEF ReleaseLeaseSlot
      <4>4. Cardinality(LiveOwners(slots[a], now)) \in Nat
            /\ Cardinality(LiveOwners(slots'[a], now)) \in Nat
        BY <1>1, <2>1, <4>1, <4>3, LiveFinite
      <4>5. Limit[a] \in Nat
        BY <1>1
      <4>6. QED BY <2>1, <4>2, <4>4, <4>5
    <3>2. CASE a # acct[o]
      BY <1>1, <2>1, <2>3, <3>2 DEF GiveSlotBack
    <3>3. QED BY <3>1, <3>2
  <2>4. ASSUME NEW o \in Requests, TakeSlot(o), acct[o] \in Accounts
        PROVE  Cardinality(LiveOwners(slots'[a], now)) <= Limit[a]
    BY <2>4, TakeBound
  <2>5. QED BY <2>2, <2>3, <2>4 DEF QuietStep, SlotStep
<1>5. ASSUME NEW a \in Accounts, NEW r \in Requests, slots'[a][r] # 0
      PROVE  pc'[r] \in Spent \/ (pc'[r] \in OwnerSteps /\ acct'[r] = a)
  <2>1. SUFFICES ASSUME pc'[r] \notin Spent PROVE pc'[r] \in OwnerSteps /\ acct'[r] = a
    OBVIOUS
  <2>2. slots[a][r] # 0
    BY <1>2, <1>5, <2>1
  <2>3. pc[r] \in Spent \/ (pc[r] \in OwnerSteps /\ acct[r] = a)
    BY <2>2 DEF SlotInv
  <2>4. QED BY <2>1, <2>3, StepsApart DEF QuietStep, AllQuiet, Quiet
<1>6. QED BY <1>1, <1>3, <1>4, <1>5 DEF SlotInv

\* The passing of time keeps SlotInv.
LEMMA TickKeepsSlots == ASSUME TypeInv, SlotInv, Tick PROVE SlotInv'
<1>1. /\ now \in Nat /\ now' = now + 1 /\ UNCHANGED <<slots, pc, acct, exp>>
      /\ slots \in [Accounts -> [Requests -> Nat]] /\ exp \in [Requests -> Nat]
      /\ Limit \in [Accounts -> Nat]
  BY SlotTypes DEF Tick, redis, request
<1>2. \A r \in Requests : pc[r] \in OwnerSteps /\ exp[r] > now' => slots[acct[r]][r] = exp[r]
  BY <1>1 DEF SlotInv
<1>3. ASSUME NEW a \in Accounts PROVE Cardinality(LiveOwners(slots[a], now')) <= Limit[a]
  <2>1. now' \in Nat /\ now <= now' /\ slots[a] \in [Requests -> Nat] /\ Limit[a] \in Nat
    BY <1>1
  <2>2. /\ Cardinality(LiveOwners(slots[a], now')) <= Cardinality(LiveOwners(slots[a], now))
        /\ Cardinality(LiveOwners(slots[a], now)) <= Limit[a]
    BY <1>1, <2>1, LiveShrinks DEF SlotInv
  <2>3. Cardinality(LiveOwners(slots[a], now')) \in Nat /\ Cardinality(LiveOwners(slots[a], now)) \in Nat
    BY <1>1, <2>1, LiveFinite
  <2>4. QED BY <2>1, <2>2, <2>3
<1>4. QED BY <1>1, <1>2, <1>3 DEF SlotInv

\* SlotInv is inductive relative to TypeInv.
LEMMA SlotStepInv == TypeInv /\ SlotInv /\ [Next]_vars => SlotInv'
  BY StepKinds, TickKeepsSlots, LeaseKeepsSlots, QuietKeepsSlots

\* SlotInv holds in every reachable state.
LEMMA SlotInvariant == Spec => [](TypeInv /\ SlotInv)
  BY InitType, TypeStep, SlotInit, SlotStepInv, PTL DEF Spec

\* Requests under an unexpired lease are live members of the lease set.
LEMMA HoldersAreMembers ==
  ASSUME TypeInv, SlotInv, NEW a \in Accounts
  PROVE  /\ {r \in Holders(a) : exp[r] > now} \subseteq LiveOwners(slots[a], now)
         /\ IsFiniteSet(LiveOwners(slots[a], now))
<1>1. slots[a] \in [Requests -> Nat] /\ now \in Nat
  BY SlotTypes
<1>2. {r \in Holders(a) : exp[r] > now} \subseteq LiveOwners(slots[a], now)
  BY <1>1 DEF SlotInv, Holders, LiveOwners
<1>3. QED BY <1>1, <1>2, LiveFinite

\* Whatever crashes, calls fail and tables change: requests that work on an account
\* under an unexpired lease never exceed its ConcurrencyLimit.
THEOREM CapacityHolds == Spec => []Capacity
<1>1. TypeInv /\ SlotInv => Capacity
  <2> SUFFICES ASSUME TypeInv, SlotInv, NEW a \in Accounts
               PROVE  Cardinality({r \in Holders(a) : exp[r] > now}) <= Limit[a]
    BY DEF Capacity
  <2> DEFINE H == {r \in Holders(a) : exp[r] > now}
             L == LiveOwners(slots[a], now)
  <2>1. H \subseteq L /\ IsFiniteSet(L)
    BY HoldersAreMembers
  <2>2. Cardinality(L) <= Limit[a] /\ Limit[a] \in Nat
    BY SlotTypes DEF SlotInv
  <2> HIDE DEF H, L
  <2>3. Cardinality(H) <= Cardinality(L) /\ Cardinality(H) \in Nat /\ Cardinality(L) \in Nat
    BY <2>1, FS_Subset, FS_CardinalityType
  <2>4. Cardinality(H) <= Limit[a]
    BY <2>2, <2>3
  <2>5. QED BY <2>4 DEF H
<1>2. QED BY <1>1, SlotInvariant, PTL

----------------------------------------------------------------------------
(* The pools implement LeaseSemaphore.                                     *)

Permit == [r \in Requests |-> IF pc[r] \in OwnerSteps
                                THEN [acct |-> acct[r], exp |-> exp[r]]
                                ELSE [acct |-> NoAccount, exp |-> 0]]

\* The instance has a copy of Cardinality; it is the same operator.
LEMMA SameCardinality == ASSUME NEW S PROVE Semaphore!Cardinality(S) = Cardinality(S)
  BY DEF Semaphore!Cardinality, Cardinality

\* A granted lease is a Grant: the members the script counted include every permit in use.
LEMMA GrantStep ==
  ASSUME TypeInv, SlotInv, NEW o \in Requests, AcquireLease(o)
  PROVE  Semaphore!Grant(o, acct[o])
<1> DEFINE a == acct[o]
           U == {r \in Requests : Permit[r].acct = a /\ Permit[r].exp > now}
           L == LiveOwners(slots[a], now)
<1>1. /\ pc[o] = "acquireLease" /\ a \in Accounts /\ LeaseFits(slots[a], o, Limit[a], now)
      /\ pc' = [pc EXCEPT ![o] = "credentials"] /\ exp' = [exp EXCEPT ![o] = now + LeaseTTL]
      /\ UNCHANGED <<now, acct>>
  BY RequestFacts DEF AcquireLease, Place, ReservedSteps, Goto
<1>2. pc[o] \notin OwnerSteps \cup Spent /\ "credentials" \in OwnerSteps
  BY <1>1 DEF OwnerSteps, BindSteps, Spent
<1>3. Permit[o] = [acct |-> NoAccount, exp |-> 0]
  BY <1>2 DEF Permit
<1>4. Permit' = [Permit EXCEPT ![o] = [acct |-> a, exp |-> now + LeaseTTL]]
  <2>1. /\ pc'[o] = "credentials" /\ exp'[o] = now + LeaseTTL
        /\ \A r \in Requests : r # o => pc'[r] = pc[r] /\ exp'[r] = exp[r]
    BY <1>1, SlotTypes
  <2>2. QED BY <1>1, <1>2, <2>1 DEF Permit
<1>5. Cardinality(U) < Limit[a]
  <2>1. slots[a] \in [Requests -> Nat] /\ now \in Nat /\ Limit[a] \in Nat
    BY <1>1, SlotTypes
  <2>2. slots[a][o] = 0
    BY <1>1, <1>2 DEF SlotInv
  <2>3. o \notin L
    BY <2>1, <2>2 DEF LiveOwners
  <2>4. Cardinality(L) < Limit[a]
    BY <1>1, <2>3 DEF LeaseFits
  <2>5. U \subseteq {r \in Holders(a) : exp[r] > now}
    <3>1. ASSUME NEW r \in Requests, Permit[r].acct = a, Permit[r].exp > now
          PROVE  pc[r] \in OwnerSteps /\ acct[r] = a /\ exp[r] > now
      BY <1>1, <3>1, PoolAssumption DEF Permit
    <3>2. QED BY <3>1 DEF Holders
  <2>6. U \subseteq L /\ IsFiniteSet(L)
    BY <1>1, <2>5, HoldersAreMembers
  <2> HIDE DEF U, L
  <2>7. Cardinality(U) <= Cardinality(L) /\ Cardinality(U) \in Nat /\ Cardinality(L) \in Nat
    BY <2>6, FS_Subset, FS_CardinalityType
  <2>8. QED BY <2>1, <2>4, <2>7
<1>6. Semaphore!Cardinality(U) = Cardinality(U)
  BY SameCardinality
<1>7. U = Semaphore!InUse(a)
  BY DEF Semaphore!InUse, Permit
<1>8. Semaphore!Cardinality(Semaphore!InUse(a)) < Limit[a]
  <2> HIDE DEF U
  <2>1. QED BY <1>5, <1>6, <1>7
<1>9. QED
  BY <1>1, <1>3, <1>4, <1>8 DEF Semaphore!Grant, Semaphore!NoPermit, Permit

\* A quiet step returns the permits of the requests that have ended, maybe of none.
LEMMA ReturnStep ==
  ASSUME QuietStep PROVE \E S \in SUBSET Requests : Semaphore!Return(S)
<1> DEFINE S == {r \in Requests : pc'[r] \notin OwnerSteps}
<1>1. ASSUME NEW r \in Requests, r \notin S
      PROVE  pc[r] \in OwnerSteps /\ acct'[r] = acct[r] /\ exp'[r] = exp[r]
  BY <1>1, StepsApart DEF QuietStep, AllQuiet, Quiet
<1>2. Permit' = [r \in Requests |-> IF r \in S THEN [acct |-> NoAccount, exp |-> 0]
                                              ELSE Permit[r]]
  BY <1>1 DEF Permit
<1>3. Semaphore!Return(S)
  BY <1>2 DEF Semaphore!Return, Semaphore!NoPermit, Permit, QuietStep
<1>4. S \in SUBSET Requests
  OBVIOUS
<1>5. QED BY <1>3, <1>4 DEF Semaphore!Return

\* Initial states map to initial states and every step to a step of LeaseSemaphore:
\* leases are granted only below the limit, whatever the pools believe.
THEOREM SemaphoreImplemented == Spec => ImplementsSemaphore
<1>1. Init => Semaphore!Init
  BY DEF Init, Semaphore!Init, Semaphore!NoPermit, OwnerSteps, BindSteps
<1>2. TypeInv /\ SlotInv /\ [Next]_vars => [Semaphore!Next]_(Semaphore!vars)
  <2> SUFFICES ASSUME TypeInv, SlotInv, [Next]_vars PROVE Semaphore!Next
    OBVIOUS
  <2>1. CASE Tick
    BY <2>1 DEF Tick, request, Semaphore!Next, Semaphore!Tick
  <2>2. ASSUME NEW r \in Requests, AcquireLease(r) PROVE Semaphore!Next
    <3>1. acct[r] \in Accounts
      BY <2>2, RequestFacts DEF AcquireLease, Place, ReservedSteps
    <3>2. Semaphore!Grant(r, acct[r])
      BY <2>2, GrantStep DEF Semaphore!Grant
    <3>3. QED BY <3>1, <3>2 DEF Semaphore!Next, Semaphore!Grant
  <2>3. CASE QuietStep
    BY <2>3, ReturnStep DEF Semaphore!Next
  <2>4. QED BY <2>1, <2>2, <2>3, StepKinds
<1>3. QED
  BY <1>1, <1>2, SlotInvariant, PTL DEF Spec, ImplementsSemaphore, Semaphore!Spec

----------------------------------------------------------------------------
(* What a step of one request does to the reservations and to the counts.  *)

\* The runtime state keeps its presence and its count.
Same(i, a) ==
  /\ states'[i][a].present = states[i][a].present
  /\ states'[i][a].inflight = states[i][a].inflight

\* No reservation is made or given back.
Stays(r) ==
  /\ pc'[r] \in ReservedSteps <=> pc[r] \in ReservedSteps
  /\ pc[r] \in ReservedSteps => acct'[r] = acct[r]
  /\ \A i \in Instances, a \in Accounts : Same(i, a)

\* The request reserves an account that is in its pool.
Joins(r) ==
  /\ pc[r] \notin ReservedSteps /\ pc'[r] \in ReservedSteps /\ acct'[r] \in Accounts
  /\ LET st == states[Home[r]][acct'[r]]
         new == states'[Home[r]][acct'[r]]
     IN  st.present /\ new.present /\ new.inflight = st.inflight + 1
  /\ \A i \in Instances, a \in Accounts : i # Home[r] \/ a # acct'[r] => Same(i, a)

\* The request gives its reservation back.
Leaves(r) ==
  /\ pc[r] \in ReservedSteps /\ pc'[r] \notin ReservedSteps
  /\ LET st == states[Home[r]][acct[r]]
         new == states'[Home[r]][acct[r]]
     IN  /\ new.present = st.present
         /\ new.inflight = IF st.present /\ st.inflight > 0 THEN st.inflight - 1 ELSE st.inflight
  /\ \A i \in Instances, a \in Accounts : i # Home[r] \/ a # acct[r] => Same(i, a)

\* The other requests are where they were.
Alone(r) == \A s \in Requests \ {r} : pc'[s] = pc[s] /\ acct'[s] = acct[s]

Moves(r) == Alone(r) /\ (Stays(r) \/ Joins(r) \/ Leaves(r))

\* A request that goes to another step leaves the others alone.
LEMMA GotoAlone ==
  ASSUME TypeInv, NEW r \in Requests, NEW step, Goto(r, step),
         UNCHANGED acct \/ (\E a : acct' = [acct EXCEPT ![r] = a])
  PROVE  Alone(r) /\ pc'[r] = step
<1>1. pc \in [Requests -> Steps] /\ acct \in [Requests -> AccountOrNone]
  BY DEF TypeInv, RequestsOK
<1> QED
  BY <1>1 DEF Goto, Alone

\* The same for a request that ends.
LEMMA FinishAlone ==
  ASSUME TypeInv, NEW r \in Requests, Finish(r) PROVE Alone(r) /\ pc'[r] = "done"
  BY GotoAlone DEF Finish

\* A step that neither touches the pools nor makes or gives back a reservation.
LEMMA GotoStays ==
  ASSUME TypeInv, NEW r \in Requests, NEW step, Goto(r, step), UNCHANGED <<acct, states>>,
         step \in ReservedSteps <=> pc[r] \in ReservedSteps
  PROVE  Moves(r)
<1>1. Alone(r) /\ pc'[r] = step
  BY GotoAlone
<1> QED
  BY <1>1 DEF Moves, Stays, Same

\* A request without a reservation ends.
LEMMA FinishStays ==
  ASSUME TypeInv, NEW r \in Requests, Finish(r), UNCHANGED states, pc[r] \notin ReservedSteps
  PROVE  Moves(r)
<1>1. Alone(r) /\ pc'[r] = "done"
  BY FinishAlone
<1>2. "done" \notin ReservedSteps
  BY DEF ReservedSteps, BindSteps
<1> QED
  BY <1>1, <1>2 DEF Moves, Stays, Same

\* The scan of a pool keeps presence and counts.
LEMMA ScanSame ==
  ASSUME TypeInv, NEW i \in Instances, NEW seen
  PROVE  \A j \in Instances, a \in Accounts :
           LET new == Scanned(i, seen, now)[j][a]
           IN  new.present = states[j][a].present /\ new.inflight = states[j][a].inflight
<1>1. states \in [Instances -> [Accounts -> RuntimeState]]
  BY DEF TypeInv, PoolsOK
<1>2. \A j \in Instances, a \in Accounts :
        /\ Promote(states[j][a], now).present = states[j][a].present
        /\ Promote(states[j][a], now).inflight = states[j][a].inflight
  BY <1>1 DEF Promote, RuntimeState
<1>3. \A j \in Instances, a \in Accounts :
        Scanned(i, seen, now)[j][a] \in {states[j][a], Promote(states[j][a], now)}
  BY <1>1 DEF Scanned
<1> QED
  BY <1>2, <1>3

\* Acquire, step by step.
LEMMA AcquireMoves ==
  ASSUME TypeInv, NEW r \in Requests, AcquireStep(r)
  PROVE  Moves(r)
<1> USE DEF ReservedSteps, BindSteps
<1>1. CASE Start(r)
  BY <1>1, GotoStays DEF Start, pools
<1>2. CASE ReadAffinity(r)
  BY <1>2, GotoStays DEF ReadAffinity, pools
<1>3. CASE FindStaleAffinity(r)
  <2>1. Alone(r) /\ pc'[r] = "clearUnavailable"
    BY <1>3, GotoAlone DEF FindStaleAffinity
  <2>2. \A i \in Instances, a \in Accounts : Same(i, a)
    BY <1>3, ScanSame, RequestFacts DEF FindStaleAffinity, Same
  <2> QED
    BY <1>3, <2>1, <2>2 DEF FindStaleAffinity, Moves, Stays
<1>4. CASE Reserve(r)
  <2> DEFINE i == Home[r]
             seen == (Accounts \ req[r].excluded) \cup {req[r].coord}
             scanned == Scanned(i, seen, now)
  <2>1. PICK a \in Choices(r) :
          /\ states' = [scanned EXCEPT ![i][a].inflight = @ + 1]
          /\ acct' = [acct EXCEPT ![r] = a]
    BY <1>4 DEF Reserve
  <2>2. a \in Accounts /\ states[i][a].present
    BY DEF Choices, BestTier, Candidates, DurablyEligible
  <2>3. Alone(r) /\ pc'[r] = "checkCooldown" /\ pc[r] = "select"
    BY <1>4, <2>1, GotoAlone DEF Reserve
  <2>4. acct'[r] = a
    BY <2>1 DEF TypeInv, RequestsOK
  <2>5. i \in Instances /\ scanned \in [Instances -> [Accounts -> RuntimeState]]
    BY RequestFacts, ScannedType DEF TypeInv
  <2>6. \A j \in Instances, b \in Accounts :
          /\ scanned[j][b].present = states[j][b].present
          /\ scanned[j][b].inflight = states[j][b].inflight
    BY <2>5, ScanSame
  <2> HIDE DEF i, scanned, seen
  <2>7. \A j \in Instances, b \in Accounts : j # i \/ b # a => states'[j][b] = scanned[j][b]
    BY <2>1, <2>2, <2>5
  <2>8. states'[i][a] = [scanned[i][a] EXCEPT !.inflight = @ + 1]
    BY <2>1, <2>2, <2>5
  <2>9. scanned[i][a] \in RuntimeState
    BY <2>2, <2>5
  <2>10. states'[i][a].present /\ states'[i][a].inflight = states[i][a].inflight + 1
    BY <2>2, <2>5, <2>6, <2>8, <2>9 DEF RuntimeState
  <2>11. \A j \in Instances, b \in Accounts : j # i \/ b # a => Same(j, b)
    BY <2>6, <2>7 DEF Same
  <2>12. Joins(r)
    BY <2>2, <2>3, <2>4, <2>10, <2>11 DEF Joins, i
  <2> QED
    BY <2>3, <2>12 DEF Moves
<1>5. CASE NoCandidate(r)
  <2>1. Alone(r) /\ pc'[r] = "done"
    BY <1>5, FinishAlone DEF NoCandidate
  <2>2. \A i \in Instances, a \in Accounts : Same(i, a)
    BY <1>5, ScanSame, RequestFacts DEF NoCandidate, Same
  <2> QED
    BY <1>5, <2>1, <2>2 DEF NoCandidate, Moves, Stays
<1>6. CASE ClearUnavailable(r)
  BY <1>6, GotoStays DEF ClearUnavailable, pools
<1>7. CASE CheckCooldown(r)
  <2>1. PICK step \in {"undoCooling", "undoRetry", "acquireLease"} : Goto(r, step)
    BY <1>7 DEF CheckCooldown
  <2> QED
    BY <1>7, <2>1, GotoStays DEF CheckCooldown, pools
<1>8. CASE AcquireLease(r)
  BY <1>8, GotoStays DEF AcquireLease, pools
<1>9. CASE LeaseRefused(r)
  <2>1. PICK step \in {"undoFail", "undoRetry"} : Goto(r, step)
    BY <1>9 DEF LeaseRefused
  <2> QED
    BY <1>9, <2>1, GotoStays DEF LeaseRefused, pools
<1>10. CASE Rollback(r)
  <2> DEFINE i == Home[r]
             a == acct[r]
             st == states[i][a]
             new == IF st.present THEN [Decrement(st) EXCEPT !.till = Later(@, req[r].until)] ELSE st
  <2>1. pc[r] \in ReservedSteps /\ i \in Instances /\ a \in Accounts /\ st \in RuntimeState
    BY <1>10, RequestFacts DEF Rollback, Place
  <2>2. Alone(r) /\ pc'[r] \in {"done", "clearUnavailable", "select", "dropSlot"}
    <3>1. CASE pc[r] = "undoFail"
      BY <1>10, <3>1, FinishAlone DEF Rollback
    <3>2. CASE pc[r] \in {"undoRetry", "undoCooling"}
      BY <1>10, <3>2, GotoAlone DEF Rollback
    <3>3. CASE pc[r] = "undoOwned"
      BY <1>10, <3>3, GotoAlone DEF Rollback
    <3> QED
      BY <1>10, <3>1, <3>2, <3>3 DEF Rollback
  <2>3. states' = [states EXCEPT ![i][a] = new]
    BY <1>10 DEF Rollback
  <2>4. /\ new.present = st.present
        /\ new.inflight = IF st.present /\ st.inflight > 0 THEN st.inflight - 1 ELSE st.inflight
    <3>1. Decrement(st) \in RuntimeState /\ Decrement(st).present = st.present
          /\ Decrement(st).inflight = IF st.present /\ st.inflight > 0 THEN st.inflight - 1 ELSE st.inflight
      BY <2>1, StateTypes, 0 \in Nat DEF Decrement, RuntimeState
    <3> HIDE DEF st
    <3> QED
      BY <3>1 DEF RuntimeState
  <2> HIDE DEF new
  <2>5. states'[i][a] = new
    BY <2>1, <2>3 DEF TypeInv, PoolsOK
  <2>6. \A j \in Instances, b \in Accounts : j # i \/ b # a => Same(j, b)
    BY <2>1, <2>3 DEF TypeInv, PoolsOK, Same
  <2>7. Leaves(r)
    BY <2>1, <2>2, <2>4, <2>5, <2>6 DEF Leaves
  <2> QED
    BY <2>2, <2>7 DEF Moves
<1>11. CASE ReadCredentials(r)
  <2>1. PICK step \in {"clearOld", "bindSetNX", "held", "undoOwned"} : Goto(r, step)
    BY <1>11 DEF ReadCredentials, AfterCredentials
  <2> QED
    BY <1>11, <2>1, GotoStays DEF ReadCredentials, pools
<1>12. CASE ClearOldBinding(r)
  BY <1>12, GotoStays DEF ClearOldBinding, pools
<1>13. CASE BindSetNX(r)
  <2>1. PICK step \in {"held", "bindGet"} : Goto(r, step)
    BY <1>13 DEF BindSetNX
  <2> QED
    BY <1>13, <2>1, GotoStays DEF BindSetNX, pools
<1>14. CASE BindGet(r)
  <2>1. PICK step \in {"bindSetNX", "undoOwned", "bindExpire"} : Goto(r, step)
    BY <1>14 DEF BindGet, NextAttempt
  <2> QED
    BY <1>14, <2>1, GotoStays DEF BindGet, pools
<1>15. CASE BindExpire(r)
  <2>1. PICK step \in {"bindSetNX", "undoOwned", "held"} : Goto(r, step)
    BY <1>15 DEF BindExpire, NextAttempt
  <2> QED
    BY <1>15, <2>1, GotoStays DEF BindExpire, pools
<1>16. CASE ProbeReserve(r)
  <2> DEFINE i == Home[r]
  <2>1. PICK a \in Accounts :
          /\ states[i][a].present
          /\ states' = [states EXCEPT ![i][a].inflight = @ + 1]
          /\ acct' = [acct EXCEPT ![r] = a]
    BY <1>16 DEF ProbeReserve
  <2>2. i \in Instances /\ states \in [Instances -> [Accounts -> RuntimeState]]
    BY RequestFacts DEF TypeInv, PoolsOK
  <2>3. Alone(r) /\ pc'[r] = "acquireLease" /\ pc[r] = "idle"
    BY <1>16, <2>1, GotoAlone DEF ProbeReserve
  <2>4. acct'[r] = a
    BY <2>1 DEF TypeInv, RequestsOK
  <2> HIDE DEF i
  <2>5. states'[i][a] = [states[i][a] EXCEPT !.inflight = @ + 1]
    BY <2>1, <2>2
  <2>6. states'[i][a].present /\ states'[i][a].inflight = states[i][a].inflight + 1
    BY <2>1, <2>2, <2>5 DEF RuntimeState
  <2>7. \A j \in Instances, b \in Accounts : j # i \/ b # a => Same(j, b)
    BY <2>1, <2>2 DEF Same
  <2>8. Joins(r)
    BY <2>1, <2>3, <2>4, <2>6, <2>7 DEF Joins, i
  <2> QED
    BY <2>3, <2>8 DEF Moves
<1>17. CASE ProbeRefused(r)
  BY <1>17, FinishStays DEF ProbeRefused, pools
<1> QED
  BY <1>1, <1>2, <1>3, <1>4, <1>5, <1>6, <1>7, <1>8, <1>9, <1>10, <1>11, <1>12, <1>13,
     <1>14, <1>15, <1>16, <1>17 DEF AcquireStep

\* Leaving the critical section of Release gives the reservation back.
LEMMA ReleaseToMoves ==
  ASSUME TypeInv, NEW r \in Requests, pc[r] = "held", NEW st, NEW w, ReleaseTo(r, st, w),
         st.present = StateOf(r).present,
         st.inflight = IF StateOf(r).present /\ StateOf(r).inflight > 0
                         THEN StateOf(r).inflight - 1 ELSE StateOf(r).inflight
  PROVE  Moves(r)
<1> DEFINE i == Home[r]
           a == acct[r]
<1>1. i \in Instances /\ a \in Accounts /\ states \in [Instances -> [Accounts -> RuntimeState]]
  BY RequestFacts DEF TypeInv, PoolsOK, Place, OwnerSteps
<1>2. PICK step \in {"relCool", "relAff", "relSave", "relSlot"} : Goto(r, step)
  BY DEF ReleaseTo, AfterSection, AfterCool, AfterAffinity
<1>3. Alone(r) /\ pc'[r] = step
  BY <1>2, GotoAlone DEF ReleaseTo
<1>4. states' = [states EXCEPT ![i][a] = st]
  BY DEF ReleaseTo
<1>5. states'[i][a] = st
  BY <1>1, <1>4
<1>6. \A j \in Instances, b \in Accounts : j # i \/ b # a => Same(j, b)
  BY <1>1, <1>4 DEF Same
<1>7. Leaves(r)
  BY <1>3, <1>5, <1>6 DEF Leaves, StateOf, ReservedSteps, BindSteps
<1> QED
  BY <1>3, <1>7 DEF Moves

\* The same for an outcome that is applied.
LEMMA AppliedMoves ==
  ASSUME TypeInv, NEW r \in Requests, pc[r] = "held", StateOf(r).present, NEW fb, NEW st, NEW changed,
         NEW w, Applied(r, fb, st, changed, w),
         st \in RuntimeState, st.present = StateOf(r).present, st.inflight = StateOf(r).inflight
  PROVE  Moves(r)
<1> DEFINE new == [Decrement(st) EXCEPT !.quota = ReportedQuota(StateOf(r), fb)]
<1>1. PICK w2 : ReleaseTo(r, new, w2)
  BY DEF Applied
<1>2. new.present = st.present /\ new.inflight = IF st.present /\ st.inflight > 0 THEN st.inflight - 1 ELSE st.inflight
  BY DEF Decrement, RuntimeState
<1> HIDE DEF new
<1> QED
  BY <1>1, <1>2, ReleaseToMoves

\* Release, step by step.
LEMMA ReleaseMoves ==
  ASSUME TypeInv, NEW r \in Requests, ReleaseStep(r)
  PROVE  Moves(r)
<1>1. CASE ReleaseSection(r)
  <2> DEFINE st == StateOf(r)
  <2>1. pc[r] = "held" /\ st \in RuntimeState
    <3>1. pc[r] = "held"
      BY <1>1 DEF ReleaseSection, ReleaseGone, ReleaseReplaced, ReleaseTerminal, ReleaseRateLimited,
                  ReleaseDenied, ReleaseExhausted, ReleaseOldSuccess, ReleaseSuccess, ReleaseIgnored,
                  ReleaseTransient, Otherwise, Reports
    <3> QED
      BY <3>1, RequestFacts DEF StateOf, Place, OwnerSteps
  <2>2. CASE ReleaseGone(r)
    <3>1. PICK w : ReleaseTo(r, st, w) /\ ~st.present
      BY <2>2 DEF ReleaseGone
    <3> QED
      BY <2>1, <3>1, ReleaseToMoves
  <2>3. CASE ReleaseReplaced(r)
    <3>1. PICK w : ReleaseTo(r, Decrement(st), w)
      BY <2>3 DEF ReleaseReplaced
    <3>2. /\ Decrement(st).present = st.present
          /\ Decrement(st).inflight = IF st.present /\ st.inflight > 0 THEN st.inflight - 1 ELSE st.inflight
      BY <2>1 DEF Decrement, RuntimeState
    <3> QED
      BY <2>1, <3>1, <3>2, ReleaseToMoves
  <2>4. CASE ReleaseTerminal(r) \/ ReleaseOldSuccess(r) \/ ReleaseIgnored(r)
    <3>1. PICK fb, changed, w : Applied(r, fb, st, changed, w) /\ st.present
      BY <2>4 DEF ReleaseTerminal, ReleaseOldSuccess, ReleaseIgnored, Otherwise, Reports
    <3> QED
      BY <2>1, <3>1, AppliedMoves
  <2>5. ASSUME NEW until \in Nat, NEW fb, NEW changed, NEW w, st.present, Applied(r, fb, Cool(st, until), changed, w)
        PROVE  Moves(r)
    <3>1. Cool(st, until) \in RuntimeState
      BY <2>1, CoolType
    <3>2. Cool(st, until).present = st.present /\ Cool(st, until).inflight = st.inflight
      BY <2>1 DEF Cool, RuntimeState
    <3> QED
      BY <2>1, <2>5, <3>1, <3>2, AppliedMoves
  <2>6. CASE ReleaseRateLimited(r)
    <3>1. PICK fb, until, changed, w : st.present /\ Applied(r, fb, Cool(st, until), changed, w) /\ until \in Nat
      <4>1. PICK fb \in Feedbacks :
              LET wait == now + (IF fb.after > 0 THEN fb.after ELSE RateLimitCooldown)
                  quota == IF QuotaExhausted(st, fb) THEN QuotaResetAt(st, fb) ELSE 0
                  until == Later(Later(wait, quota), st.till)
              IN  st.present /\ Applied(r, fb, Cool(st, until), TRUE, Block(until))
        BY <2>6 DEF ReleaseRateLimited, Reports
      <4> DEFINE wait == now + (IF fb.after > 0 THEN fb.after ELSE RateLimitCooldown)
                 quota == IF QuotaExhausted(st, fb) THEN QuotaResetAt(st, fb) ELSE 0
                 until == Later(Later(wait, quota), st.till)
      <4>2. fb \in Feedback /\ now \in Nat
        BY PoolAssumption DEF TypeInv, SharedOK
      <4>3. wait \in Nat
        BY <4>2, PoolAssumption DEF Feedback
      <4>4. quota \in Nat
        BY <2>1, <4>2, QuotaTypes
      <4>5. st.till \in Nat
        BY <2>1 DEF RuntimeState
      <4> HIDE DEF wait, quota
      <4>6. until \in Nat
        BY <4>3, <4>4, <4>5, LaterType
      <4> QED
        BY <4>1, <4>6 DEF wait, quota
    <3> QED
      BY <2>5, <3>1
  <2>7. CASE ReleaseExhausted(r)
    <3>1. PICK fb \in Feedbacks :
            /\ st.present
            /\ Applied(r, fb, Cool(st, Later(st.till, QuotaResetAt(st, fb))), TRUE,
                       Block(Later(st.till, QuotaResetAt(st, fb))))
      BY <2>7 DEF ReleaseExhausted, Otherwise, Reports
    <3>2. fb \in Feedback /\ now \in Nat /\ st.till \in Nat
      BY <2>1, PoolAssumption DEF TypeInv, SharedOK, RuntimeState
    <3>3. Later(st.till, QuotaResetAt(st, fb)) \in Nat
      BY <2>1, <3>2, QuotaTypes, LaterType
    <3> QED
      BY <2>5, <3>1, <3>3
  <2>8. CASE ReleaseTransient(r)
    <3>1. PICK fb \in Feedbacks, delay \in TransientDelays :
            st.present /\ Applied(r, fb, Cool(st, now + delay), TRUE, Block(now + delay))
      BY <2>8 DEF ReleaseTransient, Otherwise, Reports
    <3>2. now + delay \in Nat
      BY PoolAssumption DEF TypeInv, SharedOK
    <3> QED
      BY <2>5, <3>1, <3>2
  <2>9. CASE ReleaseDenied(r)
    <3> DEFINE new == [st EXCEPT !.till = 0, !.status = "disabled", !.until = 0]
    <3>1. PICK fb, changed, w : st.present /\ Applied(r, fb, new, changed, w)
      BY <2>9 DEF ReleaseDenied, Reports
    <3>2. new \in RuntimeState /\ new.present = st.present /\ new.inflight = st.inflight
      BY <2>1 DEF RuntimeState, Status
    <3> HIDE DEF new, st
    <3> QED
      BY <2>1, <3>1, <3>2, AppliedMoves DEF st
  <2>10. CASE ReleaseSuccess(r)
    <3> DEFINE new == [st EXCEPT !.till = 0, !.status = "active", !.until = 0]
    <3>1. PICK fb, changed, w : st.present /\ Applied(r, fb, new, changed, w)
      BY <2>10 DEF ReleaseSuccess, Otherwise, Reports
    <3>2. new \in RuntimeState /\ new.present = st.present /\ new.inflight = st.inflight
      BY <2>1 DEF RuntimeState, Status
    <3> HIDE DEF new, st
    <3> QED
      BY <2>1, <3>1, <3>2, AppliedMoves DEF st
  <2> QED
    BY <1>1, <2>2, <2>3, <2>4, <2>6, <2>7, <2>8, <2>9, <2>10 DEF ReleaseSection
<1>2. CASE ReleaseCooldown(r)
  <2>1. PICK step \in {"relAff", "relSave", "relSlot"} : Goto(r, step)
    BY <1>2, AfterTypes DEF ReleaseCooldown
  <2> QED
    BY <1>2, <2>1, GotoStays DEF ReleaseCooldown, pools, ReservedSteps, BindSteps
<1>3. CASE ReleaseAffinity(r)
  <2>1. PICK step \in {"relSave", "relSlot"} : Goto(r, step)
    BY <1>3, AfterTypes DEF ReleaseAffinity
  <2> QED
    BY <1>3, <2>1, GotoStays DEF ReleaseAffinity, pools, ReservedSteps, BindSteps
<1>4. CASE ReleaseSave(r)
  <2>1. PICK step \in {"relReload", "relSlot"} : Goto(r, step)
    BY <1>4 DEF ReleaseSave
  <2> QED
    BY <1>4, <2>1, GotoStays DEF ReleaseSave, pools, ReservedSteps, BindSteps
<1>5. CASE ReleaseSlot(r)
  BY <1>5, FinishStays DEF ReleaseSlot, pools, ReservedSteps, BindSteps
<1> QED
  BY <1>1, <1>2, <1>3, <1>4, <1>5 DEF ReleaseStep

\* A failing call, whatever it has done.
LEMMA FailureMoves ==
  ASSUME TypeInv, NEW r \in Requests, CallFails(r)
  PROVE  Moves(r)
<1> USE DEF ReservedSteps, BindSteps
<1>1. CASE AffinityFails(r)
  BY <1>1, FinishStays DEF AffinityFails, pools
<1>2. CASE ReservedCallFails(r)
  BY <1>2, GotoStays DEF ReservedCallFails, pools
<1>3. CASE OwnedCallFails(r)
  BY <1>3, GotoStays DEF OwnedCallFails, pools
<1>4. CASE ReleaseCooldownFails(r)
  <2>1. PICK step \in {"relAff", "relSave", "relSlot"} : Goto(r, step)
    BY <1>4, AfterTypes DEF ReleaseCooldownFails
  <2> QED
    BY <1>4, <2>1, GotoStays DEF ReleaseCooldownFails, pools
<1>5. CASE ReleaseAffinityFails(r)
  <2>1. PICK step \in {"relSave", "relSlot"} : Goto(r, step)
    BY <1>5, AfterTypes DEF ReleaseAffinityFails
  <2> QED
    BY <1>5, <2>1, GotoStays DEF ReleaseAffinityFails, pools
<1>6. CASE ReleaseSaveFails(r)
  BY <1>6, GotoStays DEF ReleaseSaveFails, pools
<1>7. CASE ReleaseSlotFails(r)
  BY <1>7, FinishStays DEF ReleaseSlotFails, pools
<1> QED
  BY <1>1, <1>2, <1>3, <1>4, <1>5, <1>6, <1>7 DEF CallFails

----------------------------------------------------------------------------
(* No inflight unit is lost or counted twice.                              *)

\* The instance's administrators never take an account out of the pools.
NoRemoval == AdminOps \cap {"delete", "quarantine"} = {}

\* Without such operations, the table, every listing of it and every row an administrator
\* writes back know the account.
RowsStay ==
  NoRemoval =>
    /\ \A a \in Accounts : db[a].exists
    /\ \A i \in Instances, a \in Accounts : reload[i].snap[a].exists
    /\ \A p \in Admins : /\ adm[p].pc \notin {"delete", "remove"}
                         /\ adm[p].row.exists
                         /\ adm[p].op \in AdminOps \/ adm[p].pc \in {"idle", "done"}

\* An account that is not in a pool has no count, no count exceeds the reservations, and
\* without removals the two agree.
Counted(i, a) ==
  LET st == states[i][a]
      n  == Cardinality(Reservations(i, a))
  IN  /\ ~st.present => st.inflight = 0
      /\ st.inflight <= n
      /\ NoRemoval => st.inflight = n

CountInv == RowsStay /\ \A i \in Instances, a \in Accounts : Counted(i, a)

\* Requests change rows of the table only to other rows that exist.
LEMMA RequestKeepsRows ==
  ASSUME TypeInv, NEW r \in Requests, AcquireStep(r) \/ ReleaseStep(r) \/ CallFails(r)
  PROVE  /\ UNCHANGED <<reload, adm, loaded, strategy>>
         /\ \A a \in Accounts : db'[a].exists = db[a].exists
         /\ UNCHANGED failures \/ Fails
<1>1. CASE AcquireStep(r)
  <2>1. UNCHANGED <<reload, adm, loaded, strategy, db, failures>>
    BY <1>1
    DEF AcquireStep, Start, ReadAffinity, FindStaleAffinity, Reserve, NoCandidate, ClearUnavailable, CheckCooldown,
        AcquireLease, LeaseRefused, Rollback, ReadCredentials, ClearOldBinding, BindSetNX, BindGet, BindExpire,
        ProbeReserve, ProbeRefused, pools
  <2> QED
    BY <2>1
<1>2. CASE ReleaseSection(r) \/ ReleaseCooldown(r) \/ ReleaseAffinity(r) \/ ReleaseSlot(r)
  <2>1. UNCHANGED <<reload, adm, loaded, strategy, db, failures>>
    BY <1>2
    DEF ReleaseSection, ReleaseGone, ReleaseReplaced, ReleaseTerminal, ReleaseRateLimited, ReleaseDenied,
        ReleaseExhausted, ReleaseOldSuccess, ReleaseSuccess, ReleaseIgnored, ReleaseTransient, Applied, ReleaseTo,
        ReleaseCooldown, ReleaseAffinity, ReleaseSlot, pools
  <2> QED
    BY <2>1
<1>3. CASE AffinityFails(r) \/ ReservedCallFails(r) \/ OwnedCallFails(r) \/ ReleaseCooldownFails(r)
             \/ ReleaseAffinityFails(r) \/ ReleaseSlotFails(r)
  <2>1. UNCHANGED <<reload, adm, loaded, strategy, db>> /\ Fails
    BY <1>3
    DEF AffinityFails, ReservedCallFails, OwnedCallFails, ReleaseCooldownFails, ReleaseAffinityFails,
        ReleaseSlotFails, pools
  <2> QED
    BY <2>1
<1>4. CASE ReleaseSave(r) \/ ReleaseSaveFails(r)
  <2>1. UNCHANGED <<reload, adm, loaded, strategy>> /\ (UNCHANGED failures \/ Fails)
    BY <1>4 DEF ReleaseSave, ReleaseSaveFails, pools
  <2>2. WriteRow(r) \/ UNCHANGED db
    BY <1>4 DEF ReleaseSave, ReleaseSaveFails
  <2>3. ASSUME NEW row \in Row, NEW in \in Row PROVE UpdateAccountRuntime(row, in, now).exists = row.exists
    BY DEF UpdateAccountRuntime, Row
  <2>4. db \in [Accounts -> Row] /\ req[r].work.row \in Row
    BY RequestFacts DEF TypeInv, SharedOK, RequestState, ReleaseWork
  <2>5. \A a \in Accounts : db'[a] \in {db[a], UpdateAccountRuntime(db[a], req[r].work.row, now)}
    BY <2>2, <2>4 DEF WriteRow
  <2>6. \A a \in Accounts : db'[a].exists = db[a].exists
    BY <2>3, <2>4, <2>5
  <2> QED
    BY <2>1, <2>6
<1> QED
  BY <1>1, <1>2, <1>3, <1>4 DEF ReleaseStep, CallFails

\* What administrators do keeps the rows when nothing is removed.
LEMMA AdminKeepsRows ==
  ASSUME TypeInv, RowsStay, NoRemoval, NEW p \in Admins, AdminStep(p)
  PROVE  /\ \A a \in Accounts : db'[a].exists
         /\ \A q \in Admins : /\ adm'[q].pc \notin {"delete", "remove"}
                              /\ adm'[q].row.exists
                              /\ adm'[q].op \in AdminOps \/ adm'[q].pc \in {"idle", "done"}
         /\ UNCHANGED <<states, reload, pc, acct>>
<1>1. /\ db \in [Accounts -> Row] /\ adm \in [Admins -> AdminState]
      /\ \A q \in Admins :
           adm[q].pc \in {"write", "delete", "remove", "clear"} => adm[q].acct \in Accounts
  BY DEF TypeInv, SharedOK, AdminsOK
<1>2. /\ \A a \in Accounts : db[a].exists
      /\ \A q \in Admins : /\ adm[q].pc \notin {"delete", "remove"}
                           /\ adm[q].row.exists
                           /\ adm[q].op \in AdminOps \/ adm[q].pc \in {"idle", "done"}
  BY DEF RowsStay
<1>3. "delete" \notin AdminOps /\ "quarantine" \notin AdminOps
  BY DEF NoRemoval
<1>4. ASSUME NEW row \in Row, NEW op, row.exists PROVE PrepareAccountUpdate(row, op, p).exists
  BY <1>4 DEF PrepareAccountUpdate, Row
<1>5. AdminStatement(p) /\ adm[p].pc \in {"write", "delete"} => \A a \in Accounts : db'[a].exists
  <2>1. SUFFICES ASSUME AdminStatement(p), adm[p].pc = "write" PROVE \A a \in Accounts : db'[a].exists
    BY <1>2
  <2>2. adm[p].row \in Row /\ adm[p].row.exists
    BY <1>1, <1>2 DEF AdminState
  <2> QED
    BY <1>1, <1>2, <1>4, <2>1, <2>2 DEF AdminStatement
<1>6. UNCHANGED <<states, reload, pc, acct>>
  BY <1>2 DEF AdminStep, AdminRead, AdminWrite, AdminDelete, RemoveAccount, ClearCooldown, AdminFails, pools, request
<1>7. CASE AdminRead(p)
  <2>1. PICK op \in AdminOps, a \in Accounts :
          adm' = [adm EXCEPT ![p] =
            [pc |-> IF op = "delete" THEN "delete" ELSE "write", op |-> op, acct |-> a,
             row |-> IF op = "delete" THEN InitialRow ELSE db[a]]]
    BY <1>7 DEF AdminRead
  <2>2. adm' = [adm EXCEPT ![p] = [pc |-> "write", op |-> op, acct |-> a, row |-> db[a]]]
    BY <1>3, <2>1
  <2>3. UNCHANGED db
    BY <1>7 DEF AdminRead
  <2>4. adm'[p] = [pc |-> "write", op |-> op, acct |-> a, row |-> db[a]]
        /\ \A q \in Admins \ {p} : adm'[q] = adm[q]
    BY <1>1, <2>2
  <2> QED
    BY <1>2, <1>6, <2>1, <2>3, <2>4
<1>8. CASE AdminWrite(p)
  <2>1. adm[p].pc = "write" /\ adm[p].op \in AdminOps /\ adm[p].acct \in Accounts
    BY <1>1, <1>2, <1>8 DEF AdminWrite
  <2>2. adm' = [adm EXCEPT ![p].pc = AfterWrite(adm[p].op), ![p].row = InitialRow]
    BY <1>2, <1>8, <2>1 DEF AdminWrite
  <2>3. AfterWrite(adm[p].op) \in {"clear", "reload"}
    BY <1>3, <2>1 DEF AfterWrite
  <2>4. \A q \in Admins \ {p} : adm'[q] = adm[q]
    BY <1>1, <2>2
  <2>5. adm'[p].pc = AfterWrite(adm[p].op) /\ adm'[p].row = InitialRow /\ adm'[p].op = adm[p].op
    BY <1>1, <2>2 DEF AdminState
  <2>6. InitialRow.exists
    BY DEF InitialRow
  <2> QED
    BY <1>2, <1>5, <1>6, <1>8, <2>1, <2>3, <2>4, <2>5, <2>6 DEF AdminWrite
<1>9. CASE ClearCooldown(p)
  <2>1. adm[p].pc = "clear" /\ adm' = [adm EXCEPT ![p].pc = "reload"] /\ UNCHANGED db
    BY <1>9 DEF ClearCooldown, AdminGoto
  <2>2. \A q \in Admins \ {p} : adm'[q] = adm[q]
    BY <1>1, <2>1
  <2>3. adm'[p].pc = "reload" /\ adm'[p].row = adm[p].row /\ adm'[p].op = adm[p].op
    BY <1>1, <2>1 DEF AdminState
  <2> QED
    BY <1>2, <1>6, <2>1, <2>2, <2>3
<1>10. CASE AdminFails(p)
  <2>1. (AdminStatement(p) /\ adm[p].pc \in {"write", "delete"}) \/ UNCHANGED db
    BY <1>10 DEF AdminFails
  <2>2. AdminDone(p) \/ (AdminGoto(p, "reload") /\ adm[p].pc = "clear")
    BY <1>10 DEF AdminFails
  <2>3. \A q \in Admins \ {p} : adm'[q] = adm[q]
    BY <1>1, <2>2 DEF AdminDone, AdminGoto
  <2>4. \/ adm'[p].pc = "done" /\ adm'[p].row = InitialRow
        \/ adm'[p].pc = "reload" /\ adm'[p].row = adm[p].row /\ adm'[p].op = adm[p].op /\ adm[p].pc = "clear"
    BY <1>1, <2>2 DEF AdminDone, AdminGoto, AdminState, IdleAdmin
  <2>5. InitialRow.exists
    BY DEF InitialRow
  <2> QED
    BY <1>2, <1>5, <1>6, <2>1, <2>3, <2>4, <2>5
<1> QED
  BY <1>2, <1>7, <1>8, <1>9, <1>10 DEF AdminStep, AdminDelete, RemoveAccount

\* Without removals the rows stay.
LEMMA RowsStep == TypeInv /\ RowsStay /\ [Next]_vars => RowsStay'
<1> SUFFICES ASSUME TypeInv, RowsStay, [Next]_vars, NoRemoval
    PROVE  /\ \A a \in Accounts : db'[a].exists
           /\ \A i \in Instances, a \in Accounts : reload'[i].snap[a].exists
           /\ \A p \in Admins : /\ adm'[p].pc \notin {"delete", "remove"}
                                /\ adm'[p].row.exists
                                /\ adm'[p].op \in AdminOps \/ adm'[p].pc \in {"idle", "done"}
  BY DEF RowsStay, NoRemoval
<1>1. /\ \A a \in Accounts : db[a].exists
      /\ \A i \in Instances, a \in Accounts : reload[i].snap[a].exists
      /\ \A p \in Admins : /\ adm[p].pc \notin {"delete", "remove"}
                           /\ adm[p].row.exists
                           /\ adm[p].op \in AdminOps \/ adm[p].pc \in {"idle", "done"}
  BY DEF RowsStay
<1>2. \A a \in Accounts : TokenFree.snap[a].exists
  BY DEF TokenFree, NoSnapshot, InitialRow
<1>3. reload \in [Instances -> [by : TokenHolders, snap : [Accounts -> Row]]] /\ adm \in [Admins -> AdminState]
  BY DEF TypeInv, PoolsOK, AdminsOK
<1>4. ASSUME NEW r \in Requests, AcquireStep(r) \/ ReleaseStep(r) \/ CallFails(r) PROVE UNCHANGED <<reload, adm>> /\ \A a \in Accounts : db'[a].exists
  BY <1>1, <1>4, RequestKeepsRows
<1>5. ASSUME NEW i \in Instances, NEW who, ListAccounts(i, who) PROVE UNCHANGED <<db, adm>> /\ \A j \in Instances, a \in Accounts : reload'[j].snap[a].exists
  <2>1. \A j \in Instances : reload'[j].snap \in {reload[j].snap, db}
    BY <1>3, <1>5 DEF ListAccounts
  <2> QED
    BY <1>1, <1>5, <2>1 DEF ListAccounts
<1>6. ASSUME NEW who, Resume(who)
      PROVE  \A p \in Admins : /\ adm'[p].pc \notin {"delete", "remove"}
                               /\ adm'[p].row.exists
                               /\ adm'[p].op \in AdminOps \/ adm'[p].pc \in {"idle", "done"}
  <2> SUFFICES ASSUME NEW p \in Admins
               PROVE  /\ adm'[p].pc \notin {"delete", "remove"}
                      /\ adm'[p].row.exists
                      /\ adm'[p].op \in AdminOps \/ adm'[p].pc \in {"idle", "done"}
    OBVIOUS
  <2>1. adm'[p] \in {adm[p], [adm[p] EXCEPT !.pc = "done"]}
    BY <1>6 DEF Resume
  <2>2. [adm[p] EXCEPT !.pc = "done"].pc = "done" /\ [adm[p] EXCEPT !.pc = "done"].row = adm[p].row
    BY <1>3 DEF AdminState
  <2> QED
    BY <1>1, <2>1, <2>2
<1>7. ASSUME NEW i \in Instances, reload' = [reload EXCEPT ![i] = TokenFree] PROVE \A j \in Instances, a \in Accounts : reload'[j].snap[a].exists
  <2>1. \A j \in Instances : reload'[j] \in {reload[j], TokenFree}
    BY <1>3, <1>7
  <2> QED
    BY <1>1, <1>2, <2>1
<1>8. CASE \E i \in Instances : \/ \E who \in WantsReload(i) : ListAccounts(i, who)
                               \/ ApplyReload(i) \/ ReloadFails(i) \/ ReloadTimesOut(i)
                               \/ SetStrategy(i) \/ Crash(i)
  <2>1. PICK i \in Instances : \/ \E who \in WantsReload(i) : ListAccounts(i, who)
                               \/ ApplyReload(i) \/ ReloadFails(i) \/ ReloadTimesOut(i)
                               \/ SetStrategy(i) \/ Crash(i)
    BY <1>8
  <2>2. CASE \E who \in WantsReload(i) : ListAccounts(i, who)
    BY <1>1, <1>5, <2>2
  <2>3. CASE ApplyReload(i) \/ ReloadFails(i)
    BY <1>1, <1>6, <1>7, <2>3 DEF ApplyReload, ReloadFails, ReloadReturns
  <2>4. CASE ReloadTimesOut(i)
    BY <1>1, <1>6, <2>4 DEF ReloadTimesOut, pools
  <2>5. CASE SetStrategy(i)
    BY <1>1, <2>5 DEF SetStrategy
  <2>6. CASE Crash(i)
    <3>1. UNCHANGED db /\ reload' = [reload EXCEPT ![i] = TokenFree]
      BY <2>6 DEF Crash
    <3>2. \A p \in Admins : adm'[p] \in {adm[p], [IdleAdmin EXCEPT !.pc = "done"]}
      BY <2>6 DEF Crash
    <3>3. [IdleAdmin EXCEPT !.pc = "done"].pc = "done" /\ [IdleAdmin EXCEPT !.pc = "done"].row.exists
      BY DEF IdleAdmin, InitialRow
    <3> QED
      BY <1>1, <1>7, <3>1, <3>2, <3>3
  <2> QED
    BY <2>1, <2>2, <2>3, <2>4, <2>5, <2>6
<1>9. CASE \E p \in Admins : AdminStep(p)
  BY <1>1, <1>9, AdminKeepsRows
<1>10. CASE Tick \/ UNCHANGED vars
  BY <1>1, <1>10 DEF Tick, vars, pools
<1> QED
  BY <1>1, <1>4, <1>8, <1>9, <1>10 DEF Next

\* The reservations of one account are finitely many requests.
LEMMA ReservationsFinite ==
  ASSUME NEW i \in Instances, NEW a \in Accounts
  PROVE  IsFiniteSet(Reservations(i, a)) /\ Cardinality(Reservations(i, a)) \in Nat
<1>1. Reservations(i, a) \subseteq Requests
  BY DEF Reservations
<1> QED
  BY <1>1, RequestsFinite, FS_Subset, FS_CardinalityType

\* A step that neither counts nor reserves keeps the account of a pool.
LEMMA SameCounted ==
  ASSUME NEW i \in Instances, NEW a \in Accounts, Counted(i, a), Same(i, a),
         Reservations(i, a)' = Reservations(i, a)
  PROVE  Counted(i, a)'
  BY DEF Counted, Same, NoRemoval

\* A step of a request keeps every count.
LEMMA MovesCounted ==
  ASSUME TypeInv, CountInv, NEW r \in Requests, Moves(r), NEW i \in Instances, NEW a \in Accounts
  PROVE  Counted(i, a)'
<1>1. Counted(i, a) /\ states[i][a] \in RuntimeState /\ Home[r] \in Instances
  BY RequestFacts DEF CountInv, TypeInv, PoolsOK
<1>2. \A s \in Requests \ {r} : s \in Reservations(i, a)' <=> s \in Reservations(i, a)
  BY DEF Reservations, Moves, Alone
<1>3. Reservations(i, a) \subseteq Requests /\ Reservations(i, a)' \subseteq Requests
  BY DEF Reservations
<1>4. IsFiniteSet(Reservations(i, a)) /\ Cardinality(Reservations(i, a)) \in Nat
  BY ReservationsFinite
<1>5. ASSUME r \in Reservations(i, a)' <=> r \in Reservations(i, a) PROVE Reservations(i, a)' = Reservations(i, a)
  BY <1>2, <1>3, <1>5
<1>6. CASE Stays(r)
  <2>1. r \in Reservations(i, a)' <=> r \in Reservations(i, a)
    BY <1>6 DEF Stays, Reservations
  <2> QED
    BY <1>1, <1>5, <1>6, <2>1, SameCounted DEF Stays
<1>7. CASE Joins(r) /\ i = Home[r] /\ a = acct'[r]
  <2>1. r \notin Reservations(i, a) /\ Reservations(i, a)' = Reservations(i, a) \cup {r}
    BY <1>2, <1>3, <1>7 DEF Joins, Reservations
  <2>2. Cardinality(Reservations(i, a)') = Cardinality(Reservations(i, a)) + 1
    BY <1>4, <2>1, FS_AddElement
  <2>3. states'[i][a].present /\ states'[i][a].inflight = states[i][a].inflight + 1
    BY <1>7 DEF Joins
  <2>4. states[i][a].inflight \in Nat
    BY <1>1 DEF RuntimeState
  <2> QED
    BY <1>1, <1>4, <2>2, <2>3, <2>4 DEF Counted, NoRemoval
<1>8. CASE Leaves(r) /\ i = Home[r] /\ a = acct[r]
  <2>1. r \in Reservations(i, a) /\ Reservations(i, a)' = Reservations(i, a) \ {r}
    BY <1>2, <1>3, <1>8 DEF Leaves, Reservations
  <2>2. Cardinality(Reservations(i, a)') = Cardinality(Reservations(i, a)) - 1
    BY <1>4, <2>1, FS_RemoveElement
  <2>3. Cardinality(Reservations(i, a)) # 0
    BY <1>4, <2>1, FS_EmptySet
  <2>4. /\ states'[i][a].present = states[i][a].present
        /\ states'[i][a].inflight = IF states[i][a].present /\ states[i][a].inflight > 0
                                      THEN states[i][a].inflight - 1 ELSE states[i][a].inflight
    BY <1>8 DEF Leaves
  <2>5. states[i][a].inflight \in Nat
    BY <1>1 DEF RuntimeState
  <2> QED
    BY <1>1, <1>4, <2>2, <2>3, <2>4, <2>5 DEF Counted, NoRemoval
<1>9. CASE (Joins(r) /\ ~(i = Home[r] /\ a = acct'[r])) \/ (Leaves(r) /\ ~(i = Home[r] /\ a = acct[r]))
  <2>1. r \notin Reservations(i, a)' /\ r \notin Reservations(i, a)
    BY <1>9 DEF Joins, Leaves, Reservations
  <2>2. Same(i, a)
    BY <1>9 DEF Joins, Leaves
  <2> QED
    BY <1>1, <1>5, <2>1, <2>2, SameCounted
<1> QED
  BY <1>6, <1>7, <1>8, <1>9 DEF Moves

\* A step that sends no request to or from a reservation keeps the reservations.
LEMMA ReservationsStay ==
  ASSUME UNCHANGED acct,
         \A r \in Requests : pc'[r] \in ReservedSteps <=> pc[r] \in ReservedSteps
  PROVE  \A i \in Instances, a \in Accounts : Reservations(i, a)' = Reservations(i, a)
  BY DEF Reservations

\* Reloads keep the counts of the accounts they find, and forget the others.
LEMMA ReloadCounted ==
  ASSUME TypeInv, CountInv, NEW k \in Instances, ApplyReload(k), NEW i \in Instances, NEW a \in Accounts
  PROVE  Counted(i, a)'
<1>1. /\ Counted(i, a) /\ states \in [Instances -> [Accounts -> RuntimeState]]
      /\ Cardinality(Reservations(i, a)) \in Nat
  BY ReservationsFinite DEF CountInv, TypeInv, PoolsOK
<1>2. \A r \in Requests : pc'[r] = pc[r] \/ (pc[r] = "relReload" /\ pc'[r] = "relSlot")
  BY DEF ApplyReload, ReloadReturns, Resume, TypeInv, TokensOK
<1>3. Reservations(i, a)' = Reservations(i, a)
  <2>1. UNCHANGED acct
    BY DEF ApplyReload
  <2> QED
    BY <1>2, <2>1, ReservationsStay DEF ReservedSteps, BindSteps
<1>4. states' = [states EXCEPT ![k] = Reconciled(k)]
  BY DEF ApplyReload
<1>5. CASE i # k
  BY <1>1, <1>3, <1>4, <1>5, SameCounted DEF Same
<1>6. CASE i = k
  <2>1. states'[i][a] = IF reload[i].snap[a].exists THEN Reconcile(states[i][a], reload[i].snap[a]) ELSE NoState
    BY <1>1, <1>4, <1>6 DEF Reconciled
  <2>2. /\ Reconcile(states[i][a], reload[i].snap[a]).present
        /\ Reconcile(states[i][a], reload[i].snap[a]).inflight = states[i][a].inflight
    BY DEF Reconcile
  <2>3. ~NoState.present /\ NoState.inflight = 0
    BY DEF NoState
  <2>4. NoRemoval => reload[i].snap[a].exists
    BY DEF CountInv, RowsStay
  <2>5. NoRemoval' <=> NoRemoval
    BY DEF NoRemoval
  <2>6. CASE reload[i].snap[a].exists
    BY <1>1, <1>3, <2>1, <2>2, <2>5, <2>6 DEF Counted
  <2>7. CASE ~reload[i].snap[a].exists
    BY <1>1, <1>3, <2>1, <2>3, <2>4, <2>5, <2>7 DEF Counted
  <2> QED
    BY <2>6, <2>7
<1> QED
  BY <1>5, <1>6

\* A crash forgets counts and reservations together.
LEMMA CrashCounted ==
  ASSUME TypeInv, CountInv, NEW k \in Instances, Crash(k), NEW i \in Instances, NEW a \in Accounts
  PROVE  Counted(i, a)'
<1>1. /\ Counted(i, a) /\ states \in [Instances -> [Accounts -> RuntimeState]]
      /\ pc \in [Requests -> Steps]
  BY DEF CountInv, TypeInv, PoolsOK, RequestsOK
<1>2. states' = [states EXCEPT ![k] = [b \in Accounts |-> NoState]]
  BY DEF Crash
<1>3. \A r \in Requests :
        /\ Home[r] # k => pc'[r] = pc[r] /\ acct'[r] = acct[r]
        /\ Home[r] = k => pc'[r] \in {"idle", "done"}
  BY DEF Crash
<1>4. CASE i # k
  <2>1. Reservations(i, a)' = Reservations(i, a)
    BY <1>3, <1>4 DEF Reservations
  <2>2. Same(i, a)
    BY <1>1, <1>2, <1>4 DEF Same
  <2> QED
    BY <1>1, <2>1, <2>2, SameCounted
<1>5. CASE i = k
  <2>1. Reservations(i, a)' = {}
    BY <1>3, <1>5 DEF Reservations, ReservedSteps, BindSteps
  <2>2. Cardinality(Reservations(i, a)') = 0
    BY <2>1, FS_EmptySet
  <2>3. ~states'[i][a].present /\ states'[i][a].inflight = 0
    BY <1>1, <1>2, <1>5 DEF NoState
  <2> QED
    BY <2>2, <2>3 DEF Counted
<1> QED
  BY <1>4, <1>5

\* An administrator takes an account out of a pool with its count.
LEMMA AdminCounted ==
  ASSUME TypeInv, CountInv, NEW p \in Admins, AdminStep(p), NEW i \in Instances, NEW a \in Accounts
  PROVE  Counted(i, a)'
<1>1. /\ Counted(i, a) /\ states \in [Instances -> [Accounts -> RuntimeState]]
      /\ Cardinality(Reservations(i, a)) \in Nat
  BY ReservationsFinite DEF CountInv, TypeInv, PoolsOK
<1>2. UNCHANGED <<pc, acct>>
  BY DEF AdminStep, AdminRead, AdminWrite, AdminDelete, RemoveAccount, ClearCooldown, AdminFails, request
<1>3. Reservations(i, a)' = Reservations(i, a)
  BY <1>2 DEF Reservations
<1>4. UNCHANGED states \/ (RemoveAccount(p) /\ states' = [states EXCEPT ![Home[p]][adm[p].acct] = NoState])
  BY DEF AdminStep, AdminRead, AdminWrite, AdminDelete, RemoveAccount, ClearCooldown, AdminFails, pools
<1>5. CASE UNCHANGED states
  BY <1>1, <1>3, <1>5, SameCounted DEF Same
<1>6. CASE RemoveAccount(p) /\ states' = [states EXCEPT ![Home[p]][adm[p].acct] = NoState]
  <2>1. ~NoRemoval
    BY <1>6 DEF RemoveAccount, CountInv, RowsStay
  <2>2. states'[i][a] \in {states[i][a], NoState}
    BY <1>1, <1>6
  <2>3. ~NoState.present /\ NoState.inflight = 0
    BY DEF NoState
  <2>4. NoRemoval' <=> NoRemoval
    BY DEF NoRemoval
  <2> QED
    BY <1>1, <1>3, <2>1, <2>2, <2>3, <2>4 DEF Counted
<1> QED
  BY <1>4, <1>5, <1>6

LEMMA CountInit == Init => CountInv
<1> SUFFICES ASSUME Init PROVE CountInv
  OBVIOUS
<1>1. RowsStay
  BY DEF Init, RowsStay, InitialRow, TokenFree, NoSnapshot, IdleAdmin
<1>2. ASSUME NEW i \in Instances, NEW a \in Accounts PROVE Counted(i, a)
  <2>1. Reservations(i, a) = {}
    BY DEF Init, Reservations, ReservedSteps, BindSteps
  <2>2. Cardinality(Reservations(i, a)) = 0
    BY <2>1, FS_EmptySet
  <2>3. ~states[i][a].present /\ states[i][a].inflight = 0
    BY DEF Init, NoState
  <2> QED
    BY <2>2, <2>3 DEF Counted
<1> QED
  BY <1>1, <1>2 DEF CountInv

LEMMA CountStep == TypeInv /\ CountInv /\ [Next]_vars => CountInv'
<1> SUFFICES ASSUME TypeInv, CountInv, [Next]_vars PROVE CountInv'
  OBVIOUS
<1>1. RowsStay'
  BY RowsStep DEF CountInv
<1>2. ASSUME NEW i \in Instances, NEW a \in Accounts PROVE Counted(i, a)'
  <2>1. Counted(i, a)
    BY DEF CountInv
  <2>2. ASSUME UNCHANGED <<pc, acct, states>> PROVE Counted(i, a)'
    BY <2>1, <2>2 DEF Counted, Reservations, NoRemoval
  <2>3. CASE \E r \in Requests : AcquireStep(r) \/ ReleaseStep(r) \/ CallFails(r)
    BY <2>3, AcquireMoves, ReleaseMoves, FailureMoves, MovesCounted
  <2>4. CASE \E k \in Instances : ApplyReload(k) \/ Crash(k)
    BY <2>4, ReloadCounted, CrashCounted
  <2>5. ASSUME NEW k \in Instances, NEW who, Resume(who), UNCHANGED <<states, acct>>,
               \A r \in Requests : r = who => pc[r] = "relReload"
        PROVE  Counted(i, a)'
    <3>1. \A r \in Requests : pc'[r] = pc[r] \/ (pc[r] = "relReload" /\ pc'[r] = "relSlot")
      BY <2>5 DEF Resume
    <3>2. Reservations(i, a)' = Reservations(i, a)
      BY <2>5, <3>1, ReservationsStay DEF ReservedSteps, BindSteps
    <3> QED
      BY <2>1, <2>5, <3>2, SameCounted DEF Same
  <2>6. CASE \E k \in Instances : ReloadFails(k)
    BY <2>5, <2>6 DEF ReloadFails, ReloadReturns, TypeInv, TokensOK
  <2>7. CASE \E k \in Instances : ReloadTimesOut(k)
    <3>1. PICK k \in Instances : ReloadTimesOut(k)
      BY <2>7
    <3>2. PICK who \in WantsReload(k) \cap (Probes \cup Admins) : Resume(who)
      BY <3>1 DEF ReloadTimesOut
    <3>3. \A r \in Requests : r = who => pc[r] = "relReload"
      BY <3>2, PoolAssumption DEF WantsReload
    <3> QED
      BY <2>5, <3>1, <3>2, <3>3 DEF ReloadTimesOut, pools
  <2>8. CASE \E k \in Instances : SetStrategy(k) \/ (\E who \in WantsReload(k) : ListAccounts(k, who))
    BY <2>2, <2>8 DEF SetStrategy, ListAccounts, request
  <2>9. CASE \E p \in Admins : AdminStep(p)
    BY <2>9, AdminCounted
  <2>10. CASE Tick \/ UNCHANGED vars
    BY <2>2, <2>10 DEF Tick, vars, pools, request
  <2> QED
    BY <2>3, <2>4, <2>6, <2>7, <2>8, <2>9, <2>10 DEF Next
<1> QED
  BY <1>1, <1>2 DEF CountInv

\* No inflight unit is lost or invented: whatever fails and whichever accounts are removed
\* and come back, a pool never counts more work than it has reservations, and exactly as
\* much while no account leaves a pool (pool.go: Acquire, rollbackReservation, Release,
\* Reload, RemoveAccounts).
THEOREM CountsAreReservations == Spec => []InflightAccounted
<1>1. CountInv => InflightAccounted
  BY DEF CountInv, Counted, InflightAccounted, NoRemoval
<1>2. Spec => []CountInv
  BY TypeInvariant, CountInit, CountStep, PTL DEF Spec
<1> QED
  BY <1>1, <1>2, PTL

----------------------------------------------------------------------------
(* No return path of Acquire or Release forgets a Redis slot.              *)

\* The calls that write a lease set.
LEMMA SlotCalls ==
  ASSUME NEW r \in Requests, AcquireStep(r) \/ ReleaseStep(r)
  PROVE  UNCHANGED slots \/ AcquireLease(r) \/ LeaseRefused(r) \/ ReleaseSlot(r)
<1>1. CASE AcquireStep(r)
  BY <1>1
  DEF AcquireStep, Start, ReadAffinity, FindStaleAffinity, Reserve, NoCandidate, ClearUnavailable, CheckCooldown,
      Rollback, ReadCredentials, ClearOldBinding, BindSetNX, BindGet, BindExpire, ProbeReserve, ProbeRefused,
      DeleteBinding, CreateBinding, RefreshBinding, redis
<1>2. CASE ReleaseStep(r)
  BY <1>2
  DEF ReleaseStep, ReleaseSection, ReleaseGone, ReleaseReplaced, ReleaseTerminal, ReleaseRateLimited, ReleaseDenied,
      ReleaseExhausted, ReleaseOldSuccess, ReleaseSuccess, ReleaseIgnored, ReleaseTransient, Applied, ReleaseTo,
      ReleaseCooldown, ReleaseAffinity, ReleaseSave, PublishCooldown, UnbindOwn, redis
<1> QED
  BY <1>1, <1>2

\* A request that stops working under its lease without a failure has given its slot back.
LEMMA OwnersRelease ==
  ASSUME TypeInv, NEW r \in Requests, AcquireStep(r) \/ ReleaseStep(r),
         pc[r] \in OwnerSteps, pc'[r] \notin OwnerSteps
  PROVE  GiveSlotBack(r)
<1> USE DEF OwnerSteps, BindSteps
<1>1. pc \in [Requests -> Steps]
  BY DEF TypeInv, RequestsOK
<1>2. CASE Start(r) \/ ReadAffinity(r) \/ FindStaleAffinity(r) \/ Reserve(r) \/ NoCandidate(r) \/ ClearUnavailable(r)
            \/ CheckCooldown(r) \/ AcquireLease(r) \/ LeaseRefused(r) \/ ProbeReserve(r) \/ ProbeRefused(r)
  BY <1>2 DEF Start, ReadAffinity, FindStaleAffinity, Reserve, NoCandidate, ClearUnavailable, CheckCooldown,
              AcquireLease, LeaseRefused, ProbeReserve, ProbeRefused
<1>3. CASE Rollback(r)
  BY <1>1, <1>3 DEF Rollback, Goto
<1>4. CASE ReadCredentials(r)
  <2>1. PICK step \in {"clearOld", "bindSetNX", "held", "undoOwned"} : Goto(r, step)
    BY <1>4 DEF ReadCredentials, AfterCredentials
  <2> QED
    BY <1>1, <2>1 DEF Goto
<1>5. CASE ClearOldBinding(r) \/ BindSetNX(r)
  BY <1>1, <1>5 DEF ClearOldBinding, BindSetNX, Goto
<1>6. CASE BindGet(r) \/ BindExpire(r)
  <2>1. PICK step \in {"bindSetNX", "undoOwned", "bindExpire", "held"} : Goto(r, step)
    BY <1>6 DEF BindGet, BindExpire, NextAttempt
  <2> QED
    BY <1>1, <2>1 DEF Goto
<1>7. CASE ReleaseSection(r)
  <2>1. PICK st, w : ReleaseTo(r, st, w)
    BY <1>7 DEF ReleaseSection, ReleaseGone, ReleaseReplaced, ReleaseTerminal, ReleaseRateLimited,
                ReleaseDenied, ReleaseExhausted, ReleaseOldSuccess, ReleaseSuccess, ReleaseIgnored,
                ReleaseTransient, Applied
  <2>2. PICK step \in {"relCool", "relAff", "relSave", "relSlot"} : Goto(r, step)
    BY <2>1 DEF ReleaseTo, AfterSection, AfterCool, AfterAffinity
  <2> QED
    BY <1>1, <2>2 DEF Goto
<1>8. CASE ReleaseCooldown(r) \/ ReleaseAffinity(r)
  <2>1. PICK step \in {"relAff", "relSave", "relSlot"} : Goto(r, step)
    BY <1>8, AfterTypes DEF ReleaseCooldown, ReleaseAffinity
  <2> QED
    BY <1>1, <2>1 DEF Goto
<1>9. CASE ReleaseSave(r)
  BY <1>1, <1>9 DEF ReleaseSave, Goto
<1>10. CASE ReleaseSlot(r)
  BY <1>10 DEF ReleaseSlot
<1> QED
  BY <1>2, <1>3, <1>4, <1>5, <1>6, <1>7, <1>8, <1>9, <1>10 DEF AcquireStep, ReleaseStep

\* While nothing has failed, only owners have a slot.
LEMMA LeakStep == TypeInv /\ NoSlotLeak /\ [Next]_vars => NoSlotLeak'
<1> SUFFICES ASSUME TypeInv, NoSlotLeak, [Next]_vars, failures' = 0,
                    NEW b \in Accounts, NEW s \in Requests, slots'[b][s] # 0
             PROVE  s \in Holders(b)'
  BY DEF NoSlotLeak
<1>1. failures \in Nat /\ ~Fails
  BY DEF TypeInv, SharedOK, Fails
<1>2. \A a \in Accounts, r \in Requests : slots[a][r] # 0 => pc[r] \in OwnerSteps /\ acct[r] = a
  <2>1. failures = 0
    <3>1. failures' = failures
      BY <1>1, RequestKeepsRows
      DEF Next, ListAccounts, ApplyReload, ReloadFails, ReloadTimesOut, SetStrategy, Crash, AdminStep, AdminRead,
          AdminWrite, AdminDelete, RemoveAccount, ClearCooldown, AdminFails, Tick, vars
    <3> QED
      BY <3>1
  <2> QED
    BY <2>1 DEF NoSlotLeak, Holders
<1>3. slots \in [Accounts -> [Requests -> Nat]] /\ now \in Nat /\ pc \in [Requests -> Steps]
      /\ acct \in [Requests -> AccountOrNone]
  BY DEF TypeInv, SharedOK, RedisOK, RequestsOK
<1>4. ASSUME UNCHANGED <<slots, acct>>, pc[s] \in OwnerSteps => pc'[s] \in OwnerSteps PROVE s \in Holders(b)'
  BY <1>2, <1>4 DEF Holders
<1>5. ASSUME NEW r \in Requests, AcquireStep(r) \/ ReleaseStep(r) PROVE s \in Holders(b)'
  <2>1. Alone(r)
    BY <1>5, AcquireMoves, ReleaseMoves DEF Moves
  <2>2. slots'[b][s] = slots[b][s] \/ slots'[b][s] = 0 \/ (AcquireLease(r) /\ s = r /\ b = acct[r])
    <3>1. CASE UNCHANGED slots
      BY <3>1
    <3>2. CASE AcquireLease(r)
      <4>1. slots' = [slots EXCEPT ![acct[r]] = [PurgeExpired(slots[acct[r]], now) EXCEPT ![r] = now + LeaseTTL]]
        BY <3>2 DEF AcquireLease, TakeSlot, AcquireLeaseSlot
      <4> QED
        BY <1>3, <3>2, <4>1 DEF PurgeExpired
    <3>3. CASE LeaseRefused(r)
      <4>1. slots' = [slots EXCEPT ![acct[r]] = PurgeExpired(slots[acct[r]], now)]
        BY <3>3 DEF LeaseRefused, TakeSlot, AcquireLeaseSlot
      <4> QED
        BY <1>3, <4>1 DEF PurgeExpired
    <3>4. CASE ReleaseSlot(r)
      <4>1. slots' = [slots EXCEPT ![acct[r]] = [slots[acct[r]] EXCEPT ![r] = 0]]
        BY <3>4 DEF ReleaseSlot, GiveSlotBack, ReleaseLeaseSlot
      <4> QED
        BY <1>3, <4>1
    <3> QED
      BY <1>5, <3>1, <3>2, <3>3, <3>4, SlotCalls
  <2>3. CASE AcquireLease(r) /\ s = r /\ b = acct[r]
    <3>1. pc'[r] = "credentials" /\ UNCHANGED acct
      BY <1>3, <2>3 DEF AcquireLease, Goto
    <3> QED
      BY <2>3, <3>1 DEF Holders, OwnerSteps
  <2>4. CASE slots'[b][s] = slots[b][s]
    <3>1. pc[s] \in OwnerSteps /\ acct[s] = b
      BY <1>2, <2>4
    <3>2. CASE s # r
      BY <2>1, <3>1, <3>2 DEF Holders, Alone
    <3>3. CASE s = r
      <4>1. pc'[r] \in OwnerSteps
        <5> SUFFICES ASSUME pc'[r] \notin OwnerSteps PROVE FALSE
          OBVIOUS
        <5>1. slots' = [slots EXCEPT ![b] = [slots[b] EXCEPT ![r] = 0]]
          BY <1>5, <3>1, <3>3, OwnersRelease DEF GiveSlotBack, ReleaseLeaseSlot
        <5> QED
          BY <1>3, <3>3, <5>1
      <4>2. AcquireLease(r) \/ QuietStep
        BY <1>5, AcquireKinds, ReleaseKinds
      <4>3. pc[r] # "acquireLease"
        BY <3>1, <3>3 DEF OwnerSteps, BindSteps
      <4>4. Quiet(r)
        BY <4>2, <4>3 DEF AcquireLease, QuietStep, AllQuiet
      <4> QED
        BY <3>1, <3>3, <4>1, <4>4, StepsApart DEF Quiet, Holders
    <3> QED
      BY <3>2, <3>3
  <2> QED
    BY <2>2, <2>3, <2>4
<1>6. CASE \E i \in Instances : \/ \E who \in WantsReload(i) : ListAccounts(i, who)
                               \/ ApplyReload(i) \/ SetStrategy(i)
  <2>1. UNCHANGED <<slots, acct>> /\ pc'[s] \in {pc[s], "relSlot"}
    BY <1>6 DEF ListAccounts, ApplyReload, ReloadReturns, Resume, SetStrategy, redis, request
  <2> QED
    BY <1>4, <2>1 DEF OwnerSteps
<1>7. CASE \E p \in Admins : AdminStep(p)
  <2>1. UNCHANGED <<slots, acct, pc>>
    BY <1>7 DEF AdminStep, AdminRead, AdminWrite, AdminDelete, RemoveAccount, ClearCooldown, AdminFails,
                DeleteCooldown, redis, request
  <2> QED
    BY <1>4, <2>1
<1>8. CASE Tick \/ UNCHANGED vars
  <2>1. UNCHANGED <<slots, acct, pc>>
    BY <1>8 DEF Tick, vars, redis, request
  <2> QED
    BY <1>4, <2>1
<1>9. \A r \in Requests : ~CallFails(r)
  BY <1>1 DEF CallFails, AffinityFails, ReservedCallFails, OwnedCallFails, ReleaseCooldownFails,
              ReleaseAffinityFails, ReleaseSaveFails, ReleaseSlotFails
<1>10. \A i \in Instances : ~(ReloadFails(i) \/ ReloadTimesOut(i) \/ Crash(i))
  BY <1>1 DEF ReloadFails, ReloadTimesOut, Crash
<1> QED
  BY <1>5, <1>6, <1>7, <1>8, <1>9, <1>10 DEF Next

\* No return path of Acquire or Release forgets a slot, whatever the other requests,
\* administrators and reloads do in between (pool.go: Acquire, Release; redis_coordinator.go:
\* ReleaseLeaseSlot).
THEOREM SlotsAreReturned == Spec => []NoSlotLeak
<1>1. Init => NoSlotLeak
  BY DEF Init, NoSlotLeak
<1> QED
  BY <1>1, TypeInvariant, LeakStep, PTL DEF Spec

----------------------------------------------------------------------------
(* A deleted account does not come back.                                   *)

\* What is known of a deletion at every step of it, while nothing has failed: from the
\* statement on the row is gone; the listing its own reload works with, and every listing
\* that follows, lacks it; and once it is over so does the pool.
Deletion(p) ==
  LET a == adm[p].acct
      t == reload[Home[p]]
  IN  adm[p].op = "delete" /\ a # NoAccount =>
        /\ adm[p].pc \notin {"write", "clear"}
        /\ adm[p].pc \in {"remove", "reload", "done"} => ~db[a].exists
        /\ adm[p].pc = "reload" /\ t.by = p => ~t.snap[a].exists
        /\ adm[p].pc = "done" => /\ t.by # Nobody => ~t.snap[a].exists
                                 /\ ~states[Home[p]][a].present

\* An administrator that holds a reload token waits for it; what "delete" is about.
AdminPlaces ==
  /\ \A p \in Admins : adm[p].pc = "delete" => adm[p].op = "delete"
  /\ \A p \in Admins : adm[p].pc # "idle" /\ adm[p].op = "delete" => adm[p].acct \in Accounts
  /\ \A i \in Instances, p \in Admins : reload[i].by = p => Home[p] = i /\ adm[p].pc = "reload"

DeleteInv == failures = 0 => AdminPlaces /\ \A p \in Admins : Deletion(p)

\* A request, a tick and a change of strategy leave a deletion as it is.
LEMMA DeletionStays ==
  ASSUME NEW p \in Admins, Home[p] \in Instances, Deletion(p), UNCHANGED <<reload, adm>>,
         adm[p].op = "delete" => adm[p].acct \in Accounts \cup {NoAccount},
         \A a \in Accounts : db'[a].exists => db[a].exists,
         \A i \in Instances, a \in Accounts : states'[i][a].present => states[i][a].present
  PROVE  Deletion(p)'
<1> SUFFICES ASSUME adm[p].op = "delete", adm[p].acct # NoAccount
             PROVE  LET a == adm[p].acct
                        t == reload[Home[p]]
                    IN  /\ adm[p].pc \notin {"write", "clear"}
                        /\ adm[p].pc \in {"remove", "reload", "done"} => ~db'[a].exists
                        /\ adm[p].pc = "reload" /\ t.by = p => ~t.snap[a].exists
                        /\ adm[p].pc = "done" => /\ t.by # Nobody => ~t.snap[a].exists
                                                 /\ ~states'[Home[p]][a].present
  BY DEF Deletion
<1> QED
  BY DEF Deletion

\* No step brings a row back.
LEMMA RowsNeverReturn ==
  ASSUME TypeInv, [Next]_vars
  PROVE  \A a \in Accounts : db'[a].exists => db[a].exists
<1>1. db \in [Accounts -> Row]
  BY DEF TypeInv, SharedOK
<1>2. CASE \E r \in Requests : AcquireStep(r) \/ ReleaseStep(r) \/ CallFails(r)
  BY <1>2, RequestKeepsRows
<1>3. CASE \E p \in Admins : AdminStep(p)
  <2>1. PICK p \in Admins : AdminStep(p)
    BY <1>3
  <2>2. UNCHANGED db \/ AdminStatement(p)
    BY <2>1 DEF AdminStep, AdminRead, AdminWrite, AdminDelete, RemoveAccount, ClearCooldown, AdminFails
  <2>3. ASSUME NEW a \in Accounts, ~db[a].exists, AdminStatement(p) PROVE db'[a] = db[a]
    BY <1>1, <2>3 DEF AdminStatement
  <2> QED
    BY <2>2, <2>3
<1>4. CASE ~((\E r \in Requests : AcquireStep(r) \/ ReleaseStep(r) \/ CallFails(r)) \/ (\E p \in Admins : AdminStep(p)))
  <2>1. UNCHANGED db
    BY <1>4 DEF Next, ListAccounts, ApplyReload, ReloadFails, ReloadTimesOut, SetStrategy, Crash, Tick, vars
  <2> QED
    BY <2>1
<1> QED
  BY <1>2, <1>3, <1>4

\* Only reloads put an account into a pool.
LEMMA RequestsAddNobody ==
  ASSUME TypeInv, NEW r \in Requests, AcquireStep(r) \/ ReleaseStep(r) \/ CallFails(r)
  PROVE  \A i \in Instances, a \in Accounts : states'[i][a].present => states[i][a].present
<1>1. Moves(r)
  BY AcquireMoves, ReleaseMoves, FailureMoves
<1> QED
  BY <1>1 DEF Moves, Stays, Joins, Leaves, Same

\* A reload is applied while accounts are being deleted.
LEMMA ReloadDeletion ==
  ASSUME TypeInv, AdminPlaces, NEW i \in Instances, ApplyReload(i), NEW p \in Admins, Deletion(p),
         \A a \in Accounts : db'[a].exists => db[a].exists
  PROVE  Deletion(p)'
<1> DEFINE a == adm[p].acct
<1>1. /\ adm \in [Admins -> AdminState] /\ Home[p] \in Instances
      /\ states \in [Instances -> [Accounts -> RuntimeState]]
      /\ reload \in [Instances -> [by : TokenHolders, snap : [Accounts -> Row]]]
  BY PoolAssumption DEF TypeInv, AdminsOK, PoolsOK
<1>2. p # Nobody
  BY PoolAssumption
<1>3. adm'[p] = IF p = reload[i].by THEN [adm[p] EXCEPT !.pc = "done"] ELSE adm[p]
  BY DEF ApplyReload, ReloadReturns, Resume
<1>4. adm'[p].op = adm[p].op /\ adm'[p].acct = a
  BY <1>1, <1>3 DEF AdminState
<1>5. SUFFICES ASSUME adm[p].op = "delete", a # NoAccount
               PROVE  /\ adm'[p].pc \notin {"write", "clear"}
                      /\ adm'[p].pc \in {"remove", "reload", "done"} => ~db'[a].exists
                      /\ adm'[p].pc = "reload" /\ reload'[Home[p]].by = p => ~reload'[Home[p]].snap[a].exists
                      /\ adm'[p].pc = "done" => /\ reload'[Home[p]].by # Nobody => ~reload'[Home[p]].snap[a].exists
                                                /\ ~states'[Home[p]][a].present
  BY <1>4 DEF Deletion
<1>6. a \in Accounts
  BY <1>1, <1>5 DEF AdminState, AccountOrNone
<1>7. /\ adm[p].pc \notin {"write", "clear"}
      /\ adm[p].pc \in {"remove", "reload", "done"} => ~db[a].exists
      /\ adm[p].pc = "reload" /\ reload[Home[p]].by = p => ~reload[Home[p]].snap[a].exists
      /\ adm[p].pc = "done" => /\ reload[Home[p]].by # Nobody => ~reload[Home[p]].snap[a].exists
                               /\ ~states[Home[p]][a].present
  BY <1>5 DEF Deletion
<1>8. reload[i].by # Nobody /\ reload' = [reload EXCEPT ![i] = TokenFree]
      /\ states' = [states EXCEPT ![i] = Reconciled(i)]
  BY DEF ApplyReload, ReloadReturns
<1>9. TokenFree.by = Nobody
  BY DEF TokenFree
<1>10. p = reload[i].by => Home[p] = i /\ adm[p].pc = "reload" /\ adm'[p].pc = "done"
  BY <1>1, <1>3 DEF AdminPlaces, AdminState
<1>11. CASE Home[p] # i
  <2>1. adm'[p] = adm[p] /\ reload'[Home[p]] = reload[Home[p]] /\ states'[Home[p]] = states[Home[p]]
    BY <1>1, <1>3, <1>8, <1>10, <1>11
  <2> QED
    BY <1>6, <1>7, <2>1
<1>12. CASE Home[p] = i
  <2>1. reload'[Home[p]].by = Nobody
    BY <1>1, <1>8, <1>9, <1>12
  <2>2. ~reload[i].snap[a].exists => ~states'[Home[p]][a].present
    BY <1>1, <1>6, <1>8, <1>12 DEF Reconciled, NoState
  <2>3. CASE p = reload[i].by
    BY <1>2, <1>6, <1>7, <1>10, <1>12, <2>1, <2>2, <2>3
  <2>4. CASE p # reload[i].by
    <3>1. adm'[p] = adm[p]
      BY <1>3, <2>4
    <3> QED
      BY <1>2, <1>6, <1>7, <1>8, <1>12, <2>1, <2>2, <3>1
  <2> QED
    BY <2>3, <2>4
<1> QED
  BY <1>11, <1>12

\* Administrators never undo a deletion, their own or another one's.
LEMMA AdminDeletion ==
  ASSUME TypeInv, AdminPlaces, NEW q \in Admins, AdminStep(q), ~Fails, NEW p \in Admins, Deletion(p),
         \A a \in Accounts : db'[a].exists => db[a].exists
  PROVE  Deletion(p)'
<1>1. /\ adm \in [Admins -> AdminState] /\ Home[p] \in Instances /\ Home[q] \in Instances
      /\ states \in [Instances -> [Accounts -> RuntimeState]] /\ db \in [Accounts -> Row]
  BY PoolAssumption DEF TypeInv, AdminsOK, PoolsOK, SharedOK
<1>2. UNCHANGED reload
  BY DEF AdminStep, AdminRead, AdminWrite, AdminDelete, RemoveAccount, ClearCooldown, AdminFails, pools
<1>3. UNCHANGED states \/ (RemoveAccount(q) /\ states' = [states EXCEPT ![Home[q]][adm[q].acct] = NoState])
  BY DEF AdminStep, AdminRead, AdminWrite, AdminDelete, RemoveAccount, ClearCooldown, AdminFails, pools
<1>4. \A i \in Instances, a \in Accounts : states'[i][a].present => states[i][a].present
  <2>1. \A i \in Instances, a \in Accounts : states'[i][a] \in {states[i][a], NoState}
    BY <1>1, <1>3
  <2> QED
    BY <2>1 DEF NoState
<1>5. adm[p].acct \in Accounts \cup {NoAccount}
  BY <1>1 DEF AdminState, AccountOrNone
<1>6. CASE adm'[p] = adm[p]
  BY <1>1, <1>2, <1>4, <1>5, <1>6 DEF Deletion
<1>7. CASE adm'[p] # adm[p]
  <2>1. p = q
    BY <1>1, <1>7
    DEF AdminStep, AdminRead, AdminWrite, AdminDelete, RemoveAccount, ClearCooldown, AdminFails, AdminDone, AdminGoto
  <2>2. CASE AdminRead(q)
    <3>1. PICK op \in AdminOps, a \in Accounts :
            adm' = [adm EXCEPT ![q] =
              [pc |-> IF op = "delete" THEN "delete" ELSE "write", op |-> op, acct |-> a,
               row |-> IF op = "delete" THEN InitialRow ELSE db[a]]]
      BY <2>2 DEF AdminRead
    <3>2. adm'[p].op = op /\ adm'[p].pc = IF op = "delete" THEN "delete" ELSE "write"
      BY <1>1, <2>1, <3>1
    <3> QED
      BY <3>2 DEF Deletion
  <2>3. CASE AdminDone(q)
    <3>1. adm'[p].op = "edit"
      BY <1>1, <2>1, <2>3 DEF AdminDone, IdleAdmin
    <3> QED
      BY <3>1 DEF Deletion
  <2>4. CASE AdminWrite(q) /\ ~AdminDone(q)
    <3>1. adm[p].pc = "write" /\ adm' = [adm EXCEPT ![q].pc = AfterWrite(adm[q].op), ![q].row = InitialRow]
      BY <2>1, <2>4 DEF AdminWrite
    <3>2. adm[p].op # "delete"
      BY <3>1, PoolAssumption DEF Deletion, AdminPlaces
    <3>3. adm'[p].op = adm[p].op
      BY <1>1, <2>1, <3>1 DEF AdminState
    <3> QED
      BY <3>2, <3>3 DEF Deletion
  <2>5. CASE AdminDelete(q) /\ ~AdminDone(q)
    <3>1. adm[p].pc = "delete" /\ adm' = [adm EXCEPT ![q].pc = "remove"] /\ AdminStatement(q)
      BY <2>1, <2>5 DEF AdminDelete, AdminGoto
    <3>2. adm'[p].op = adm[p].op /\ adm'[p].acct = adm[p].acct /\ adm'[p].pc = "remove"
      BY <1>1, <2>1, <3>1 DEF AdminState
    <3>3. adm[p].acct \in Accounts
      BY <3>1 DEF AdminPlaces
    <3>4. ~db'[adm[p].acct].exists
      BY <1>1, <2>1, <3>1, <3>3 DEF AdminStatement, Row
    <3> QED
      BY <3>2, <3>4 DEF Deletion
  <2>6. CASE RemoveAccount(q)
    <3>1. adm[p].pc = "remove" /\ adm' = [adm EXCEPT ![q].pc = IF adm[q].op = "quarantine" THEN "clear" ELSE "reload"] /\ UNCHANGED db
      BY <2>1, <2>6 DEF RemoveAccount, AdminGoto
    <3>2. adm'[p].op = adm[p].op /\ adm'[p].acct = adm[p].acct
          /\ adm'[p].pc = IF adm[q].op = "quarantine" THEN "clear" ELSE "reload"
      BY <1>1, <2>1, <3>1 DEF AdminState
    <3>3. reload[Home[p]].by # p
      BY <1>1, <3>1 DEF AdminPlaces
    <3> QED
      BY <1>2, <2>1, <3>1, <3>2, <3>3 DEF Deletion
  <2>7. CASE ClearCooldown(q)
    <3>1. adm[p].pc = "clear" /\ adm' = [adm EXCEPT ![q].pc = "reload"]
      BY <2>1, <2>7 DEF ClearCooldown, AdminGoto
    <3>2. adm[p].op # "delete"
      BY <3>1, PoolAssumption DEF Deletion, AdminPlaces
    <3>3. adm'[p].op = adm[p].op
      BY <1>1, <2>1, <3>1 DEF AdminState
    <3> QED
      BY <3>2, <3>3 DEF Deletion
  <2> QED
    BY <2>2, <2>3, <2>4, <2>5, <2>6, <2>7 DEF AdminStep, AdminFails, AdminWrite, AdminDelete
<1> QED
  BY <1>6, <1>7

\* Administrators stay in their places.
LEMMA PlacesStep ==
  ASSUME TypeInv, AdminPlaces, [Next]_vars, ~Fails
  PROVE  AdminPlaces'
<1>1. /\ adm \in [Admins -> AdminState]
      /\ reload \in [Instances -> [by : TokenHolders, snap : [Accounts -> Row]]]
  BY DEF TypeInv, AdminsOK, PoolsOK
<1>2. CASE UNCHANGED <<adm, reload>>
  BY <1>2 DEF AdminPlaces
<1>3. ASSUME NEW i \in Instances, NEW who \in WantsReload(i), ListAccounts(i, who) PROVE AdminPlaces'
  <2>1. UNCHANGED adm /\ reload' = [reload EXCEPT ![i] = [by |-> who, snap |-> db]]
    BY <1>3 DEF ListAccounts
  <2>2. \A p \in Admins : p = who => Home[p] = i /\ adm[p].pc = "reload"
    BY PoolAssumption DEF WantsReload
  <2>3. \A j \in Instances : reload'[j].by = IF j = i THEN who ELSE reload[j].by
    BY <1>1, <2>1
  <2> QED
    BY <2>1, <2>2, <2>3 DEF AdminPlaces
<1>4. ASSUME NEW i \in Instances, ApplyReload(i) PROVE AdminPlaces'
  <2>1. \A p \in Admins : adm'[p] = IF p = reload[i].by THEN [adm[p] EXCEPT !.pc = "done"] ELSE adm[p]
    BY <1>4 DEF ApplyReload, ReloadReturns, Resume
  <2>2. \A p \in Admins : /\ adm'[p].op = adm[p].op /\ adm'[p].acct = adm[p].acct
                          /\ adm'[p].pc = IF p = reload[i].by THEN "done" ELSE adm[p].pc
    BY <1>1, <2>1 DEF AdminState
  <2>3. \A j \in Instances : reload'[j].by = IF j = i THEN Nobody ELSE reload[j].by
    BY <1>1, <1>4 DEF ApplyReload, ReloadReturns, TokenFree
  <2>4. \A p \in Admins : p # Nobody
    BY PoolAssumption
  <2> QED
    BY <2>2, <2>3, <2>4 DEF AdminPlaces
<1>5. ASSUME NEW q \in Admins, AdminStep(q) PROVE AdminPlaces'
  <2>1. UNCHANGED reload
    BY <1>5 DEF AdminStep, AdminRead, AdminWrite, AdminDelete, RemoveAccount, ClearCooldown, AdminFails, pools
  <2>2. adm[q].pc # "reload"
    BY <1>5 DEF AdminStep, AdminRead, AdminWrite, AdminDelete, RemoveAccount, ClearCooldown, AdminFails
  <2>3. \A p \in Admins \ {q} : adm'[p] = adm[p]
    BY <1>1, <1>5
    DEF AdminStep, AdminRead, AdminWrite, AdminDelete, RemoveAccount, ClearCooldown, AdminFails, AdminDone, AdminGoto
  <2>4. /\ adm'[q].pc = "delete" => adm'[q].op = "delete"
        /\ adm'[q].pc # "idle" /\ adm'[q].op = "delete" => adm'[q].acct \in Accounts
    <3>1. CASE AdminRead(q)
      <4>1. PICK op \in AdminOps, a \in Accounts :
              adm' = [adm EXCEPT ![q] =
                [pc |-> IF op = "delete" THEN "delete" ELSE "write", op |-> op, acct |-> a,
                 row |-> IF op = "delete" THEN InitialRow ELSE db[a]]]
        BY <3>1 DEF AdminRead
      <4>2. adm'[q].op = op /\ adm'[q].pc = (IF op = "delete" THEN "delete" ELSE "write") /\ adm'[q].acct = a
        BY <1>1, <4>1
      <4> QED
        BY <4>2
    <3>2. CASE AdminDone(q)
      BY <1>1, <3>2 DEF AdminDone, IdleAdmin
    <3>3. CASE ~AdminRead(q) /\ ~AdminDone(q)
      <4>1. /\ adm'[q].op = adm[q].op /\ adm'[q].acct = adm[q].acct
            /\ adm'[q].pc \in {"reload", "remove", "clear"} /\ adm[q].pc # "idle"
        BY <1>1, <1>5, <3>3
        DEF AdminStep, AdminWrite, AdminDelete, RemoveAccount, ClearCooldown, AdminFails, AdminGoto, AdminState, AfterWrite
      <4> QED
        BY <4>1 DEF AdminPlaces
    <3> QED
      BY <3>1, <3>2, <3>3
  <2> QED
    BY <2>1, <2>2, <2>3, <2>4 DEF AdminPlaces
<1>6. CASE \E r \in Requests : AcquireStep(r) \/ ReleaseStep(r) \/ CallFails(r)
  BY <1>2, <1>6, RequestKeepsRows
<1>7. CASE (\E i \in Instances : SetStrategy(i)) \/ Tick \/ UNCHANGED vars
  BY <1>2, <1>7 DEF SetStrategy, Tick, vars, pools
<1>8. \A i \in Instances : ~(ReloadFails(i) \/ ReloadTimesOut(i) \/ Crash(i))
  BY DEF ReloadFails, ReloadTimesOut, Crash
<1> QED
  BY <1>3, <1>4, <1>5, <1>6, <1>7, <1>8 DEF Next

\* A listing taken while accounts are being deleted.
LEMMA ListingDeletion ==
  ASSUME TypeInv, NEW i \in Instances, NEW who, ListAccounts(i, who), NEW p \in Admins, Deletion(p)
  PROVE  Deletion(p)'
<1>1. /\ UNCHANGED <<adm, db, states>> /\ reload[i].by = Nobody
      /\ reload' = [reload EXCEPT ![i] = [by |-> who, snap |-> db]]
  BY DEF ListAccounts
<1>2. reload \in [Instances -> [by : TokenHolders, snap : [Accounts -> Row]]] /\ Home[p] \in Instances
  BY PoolAssumption DEF TypeInv, PoolsOK
<1>3. CASE Home[p] # i
  BY <1>1, <1>2, <1>3 DEF Deletion
<1>4. CASE Home[p] = i
  <2>1. reload'[Home[p]].snap = db
    BY <1>1, <1>2, <1>4
  <2> QED
    BY <1>1, <2>1 DEF Deletion
<1> QED
  BY <1>3, <1>4

LEMMA DeleteInit == Init => DeleteInv
<1> SUFFICES ASSUME Init PROVE AdminPlaces /\ \A p \in Admins : Deletion(p)
  BY DEF DeleteInv
<1>1. \A p \in Admins : adm[p].pc = "idle" /\ adm[p].op = "edit"
  BY DEF Init, IdleAdmin
<1>2. \A i \in Instances : reload[i].by = Nobody
  BY DEF Init, TokenFree
<1> QED
  BY <1>1, <1>2, PoolAssumption DEF AdminPlaces, Deletion

LEMMA DeleteStep == TypeInv /\ DeleteInv /\ [Next]_vars => DeleteInv'
<1> SUFFICES ASSUME TypeInv, DeleteInv, [Next]_vars, failures' = 0
             PROVE  AdminPlaces' /\ \A p \in Admins : Deletion(p)'
  BY DEF DeleteInv
<1>1. failures \in Nat /\ ~Fails
  BY DEF TypeInv, SharedOK, Fails
<1>2. failures = 0
  <2>1. failures' = failures
    BY <1>1, RequestKeepsRows
    DEF Next, ListAccounts, ApplyReload, ReloadFails, ReloadTimesOut, SetStrategy, Crash, AdminStep, AdminRead,
        AdminWrite, AdminDelete, RemoveAccount, ClearCooldown, AdminFails, Tick, vars
  <2> QED
    BY <2>1
<1>3. AdminPlaces /\ \A p \in Admins : Deletion(p)
  BY <1>2 DEF DeleteInv
<1>4. AdminPlaces'
  BY <1>1, <1>3, PlacesStep
<1>5. \A a \in Accounts : db'[a].exists => db[a].exists
  BY RowsNeverReturn
<1>6. ASSUME NEW p \in Admins PROVE Deletion(p)'
  <2>1. Home[p] \in Instances /\ adm[p].acct \in Accounts \cup {NoAccount}
    BY PoolAssumption DEF TypeInv, AdminsOK, AdminState, AccountOrNone
  <2>2. CASE \E r \in Requests : AcquireStep(r) \/ ReleaseStep(r) \/ CallFails(r)
    BY <1>3, <1>5, <2>1, <2>2, RequestKeepsRows, RequestsAddNobody, DeletionStays
  <2>3. CASE \E i \in Instances : \E who \in WantsReload(i) : ListAccounts(i, who)
    BY <1>3, <2>3, ListingDeletion
  <2>4. CASE \E i \in Instances : ApplyReload(i)
    BY <1>3, <1>5, <2>4, ReloadDeletion
  <2>5. CASE (\E i \in Instances : SetStrategy(i)) \/ Tick \/ UNCHANGED vars
    <3>1. UNCHANGED <<reload, adm, db, states>>
      BY <2>5 DEF SetStrategy, Tick, vars, pools
    <3> QED
      BY <1>3, <1>6, <2>1, <3>1, DeletionStays
  <2>6. CASE \E q \in Admins : AdminStep(q)
    BY <1>1, <1>3, <1>5, <2>6, AdminDeletion
  <2>7. \A i \in Instances : ~(ReloadFails(i) \/ ReloadTimesOut(i) \/ Crash(i))
    BY <1>1 DEF ReloadFails, ReloadTimesOut, Crash
  <2> QED
    BY <2>2, <2>3, <2>4, <2>5, <2>6, <2>7 DEF Next
<1> QED
  BY <1>4, <1>6

\* A deleted account does not come back into the pool of the instance that deleted it,
\* whatever reloads were under way and whatever feedback arrives late (management.go:
\* DeleteAccount; pool.go: RemoveAccounts, Reload).
THEOREM DeletedStaysOut == Spec => []DeletedStaysRemoved
<1>1. DeleteInv => DeletedStaysRemoved
  BY DEF DeleteInv, Deletion, DeletedStaysRemoved
<1>2. Spec => []DeleteInv
  BY TypeInvariant, DeleteInit, DeleteStep, PTL DEF Spec
<1> QED
  BY <1>1, <1>2, PTL

----------------------------------------------------------------------------
(* A request that passes over a full account keeps the binding to it.      *)

\* From its choice of an account to the read of its credential, a request works with the
\* locals it made the choice with.
Chosen == {"checkCooldown", "acquireLease", "credentials"}

\* The decision to drop the binding was made for an account that is excluded and not full.
DropsExcluded(r) == req[r].coord \in req[r].excluded \ req[r].full

BindingInv ==
  Strategies = {"affinity"} /\ ~PreferBest =>
    /\ \A i \in Instances : strategy[i] = "affinity"
    /\ \A r \in Requests :
         /\ pc[r] \in Chosen /\ req[r].coord \notin {NoAccount, acct[r]} /\ ~req[r].preserve => DropsExcluded(r)
         /\ pc[r] = "clearOld" => DropsExcluded(r)

\* The locals that decide, and the account, are what they were.
KeepsLocals(r) ==
  /\ acct'[r] = acct[r]
  /\ req'[r].coord = req[r].coord /\ req'[r].preserve = req[r].preserve
  /\ req'[r].excluded = req[r].excluded /\ req'[r].full = req[r].full

\* How a request gets to a step between its choice and the end of the old binding.
Arrives(r) ==
  \/ Reserve(r)
  \/ pc[r] = "idle" /\ req'[r].coord = req[r].coord /\ pc'[r] \in Chosen
  \/ pc[r] \in Chosen /\ pc'[r] \in Chosen /\ KeepsLocals(r)
  \/ pc[r] = "credentials" /\ pc'[r] = "clearOld" /\ KeepsLocals(r)
       /\ req[r].coord \notin {NoAccount, acct[r]} /\ ~req[r].preserve

\* A step of a request writes nobody else's locals.
LEMMA LocalsAlone ==
  ASSUME TypeInv, NEW r \in Requests, AcquireStep(r) \/ ReleaseStep(r) \/ CallFails(r)
  PROVE  \A s \in Requests \ {r} : req'[s] = req[s]
<1>1. req \in [Requests -> RequestState]
  BY DEF TypeInv, RequestsOK
<1>2. CASE AcquireStep(r)
  BY <1>1, <1>2
  DEF AcquireStep, Start, ReadAffinity, FindStaleAffinity, Reserve, NoCandidate, ClearUnavailable, CheckCooldown,
      AcquireLease, LeaseRefused, Rollback, ReadCredentials, ClearOldBinding, BindSetNX, BindGet, BindExpire,
      ProbeReserve, ProbeRefused, NextAttempt, Finish
<1>3. CASE ReleaseStep(r)
  BY <1>1, <1>3
  DEF ReleaseStep, ReleaseSection, ReleaseGone, ReleaseReplaced, ReleaseTerminal, ReleaseRateLimited, ReleaseDenied,
      ReleaseExhausted, ReleaseOldSuccess, ReleaseSuccess, ReleaseIgnored, ReleaseTransient, Applied, ReleaseTo,
      ReleaseCooldown, ReleaseAffinity, ReleaseSave, ReleaseSlot, Finish
<1>4. CASE CallFails(r)
  BY <1>1, <1>4
  DEF CallFails, AffinityFails, ReservedCallFails, OwnedCallFails, ReleaseCooldownFails,
      ReleaseAffinityFails, ReleaseSaveFails, ReleaseSlotFails, Finish
<1> QED
  BY <1>2, <1>3, <1>4

\* Acquire gets there in these ways only.
LEMMA AcquireArrives ==
  ASSUME TypeInv, NEW r \in Requests, AcquireStep(r), pc'[r] \in Chosen \cup {"clearOld"}
  PROVE  Arrives(r)
<1> USE DEF Chosen
<1>1. pc \in [Requests -> Steps] /\ req \in [Requests -> RequestState] /\ acct \in [Requests -> AccountOrNone]
  BY DEF TypeInv, RequestsOK
<1>2. ASSUME NEW step, Goto(r, step) PROVE pc'[r] = step
  BY <1>1, <1>2 DEF Goto
<1>3. CASE Start(r) \/ ReadAffinity(r) \/ FindStaleAffinity(r) \/ NoCandidate(r) \/ ClearUnavailable(r)
             \/ ClearOldBinding(r) \/ ProbeRefused(r)
  <2>1. PICK step \in {"getAffinity", "select", "clearUnavailable", "done", "bindSetNX"} : Goto(r, step)
    BY <1>3 DEF Start, ReadAffinity, FindStaleAffinity, NoCandidate, ClearUnavailable, ClearOldBinding,
                ProbeRefused, Finish
  <2> QED
    BY <1>2, <2>1
<1>4. CASE BindSetNX(r) \/ BindGet(r) \/ BindExpire(r)
  <2>1. PICK step \in {"held", "bindGet", "bindSetNX", "undoOwned", "bindExpire"} : Goto(r, step)
    BY <1>4 DEF BindSetNX, BindGet, BindExpire, NextAttempt
  <2> QED
    BY <1>2, <2>1
<1>5. CASE Rollback(r)
  BY <1>2, <1>5 DEF Rollback, Finish
<1>6. CASE LeaseRefused(r)
  BY <1>2, <1>6 DEF LeaseRefused
<1>7. CASE CheckCooldown(r)
  <2>1. pc[r] = "checkCooldown" /\ UNCHANGED <<req, acct>>
    BY <1>2, <1>7 DEF CheckCooldown
  <2>2. pc'[r] = "acquireLease"
    BY <1>2, <1>7 DEF CheckCooldown
  <2> QED
    BY <2>1, <2>2 DEF Arrives, KeepsLocals
<1>8. CASE AcquireLease(r)
  <2>1. pc[r] = "acquireLease" /\ UNCHANGED <<req, acct>> /\ pc'[r] = "credentials"
    BY <1>2, <1>8 DEF AcquireLease
  <2> QED
    BY <2>1 DEF Arrives, KeepsLocals
<1>9. CASE ReadCredentials(r)
  <2>1. db[acct[r]].exists
    BY <1>2, <1>9 DEF ReadCredentials
  <2>2. pc[r] = "credentials" /\ pc'[r] = AfterCredentials(r) /\ UNCHANGED acct
        /\ req' = [req EXCEPT ![r].used = db[acct[r]].cred]
    BY <1>2, <1>9, <2>1 DEF ReadCredentials
  <2>3. req'[r] = [req[r] EXCEPT !.used = db[acct[r]].cred]
    BY <1>1, <2>2
  <2>4. KeepsLocals(r)
    BY <1>1, <2>2, <2>3 DEF KeepsLocals, RequestState
  <2>5. req[r].coord \notin {NoAccount, acct[r]} /\ ~req[r].preserve /\ pc'[r] = "clearOld"
    BY <2>2 DEF AfterCredentials
  <2> QED
    BY <2>2, <2>4, <2>5 DEF Arrives
<1>10. CASE Reserve(r)
  BY <1>10 DEF Arrives
<1>11. CASE ProbeReserve(r)
  <2>1. pc[r] = "idle" /\ pc'[r] = "acquireLease"
    BY <1>2, <1>11 DEF ProbeReserve
  <2>2. req'[r].coord = req[r].coord
    BY <1>1, <1>11 DEF ProbeReserve, RequestState
  <2> QED
    BY <2>1, <2>2 DEF Arrives
<1> QED
  BY <1>3, <1>4, <1>5, <1>6, <1>7, <1>8, <1>9, <1>10, <1>11 DEF AcquireStep

\* Release, a failed call, a reload and a crash never get there.
LEMMA OthersElsewhere ==
  ASSUME TypeInv, NEW r \in Requests, ReleaseStep(r) \/ CallFails(r)
  PROVE  pc'[r] \notin Chosen \cup {"clearOld"}
<1>1. PICK step \in {"relCool", "relAff", "relSave", "relSlot", "relReload", "done", "undoFail", "undoOwned"} : Goto(r, step)
  <2>1. CASE ReleaseSection(r)
    <3>1. PICK st, w : ReleaseTo(r, st, w)
      BY <2>1 DEF ReleaseSection, ReleaseGone, ReleaseReplaced, ReleaseTerminal, ReleaseRateLimited,
                  ReleaseDenied, ReleaseExhausted, ReleaseOldSuccess, ReleaseSuccess, ReleaseIgnored,
                  ReleaseTransient, Applied
    <3> QED
      BY <3>1 DEF ReleaseTo, AfterSection, AfterCool, AfterAffinity
  <2>2. CASE ReleaseCooldown(r) \/ ReleaseAffinity(r) \/ ReleaseCooldownFails(r) \/ ReleaseAffinityFails(r)
    <3>1. PICK step \in {"relAff", "relSave", "relSlot"} : Goto(r, step)
      BY <2>2, AfterTypes DEF ReleaseCooldown, ReleaseAffinity, ReleaseCooldownFails, ReleaseAffinityFails
    <3> QED
      BY <3>1
  <2>3. CASE ReleaseSave(r) \/ ReleaseSaveFails(r) \/ ReleaseSlot(r) \/ ReleaseSlotFails(r)
    BY <2>3 DEF ReleaseSave, ReleaseSaveFails, ReleaseSlot, ReleaseSlotFails, Finish
  <2>4. CASE AffinityFails(r) \/ ReservedCallFails(r) \/ OwnedCallFails(r)
    BY <2>4 DEF AffinityFails, ReservedCallFails, OwnedCallFails, Finish
  <2> QED
    BY <2>1, <2>2, <2>3, <2>4 DEF ReleaseStep, CallFails
<1>2. pc'[r] = step
  BY <1>1 DEF Goto, TypeInv, RequestsOK
<1> QED
  BY <1>2 DEF Chosen

\* A choice that passes over the bound account, and does not note that it is full, has
\* passed it over because the caller excludes it.
LEMMA ChoiceDrops ==
  ASSUME TypeInv, NEW r \in Requests, Reserve(r), ~PreferBest, strategy[Home[r]] = "affinity",
         req'[r].coord \notin {NoAccount, acct'[r]}, ~req'[r].preserve
  PROVE  DropsExcluded(r)'
<1> DEFINE i == Home[r]
           seen == (Accounts \ req[r].excluded) \cup {req[r].coord}
           scanned == Scanned(i, seen, now)
<1>1. PICK a \in Choices(r) :
        /\ acct' = [acct EXCEPT ![r] = a]
        /\ req' = [req EXCEPT
                ![r].status = scanned[i][a].status,
                ![r].cred = scanned[i][a].cred,
                ![r].preserve = /\ req[r].coord \notin {NoAccount, a}
                                /\ AtCapacity(r, req[r].coord)]
  BY DEF Reserve
<1> HIDE DEF scanned
<1>2. req \in [Requests -> RequestState] /\ acct \in [Requests -> AccountOrNone] /\ req[r] \in RequestState
  BY DEF TypeInv, RequestsOK
<1>3. acct'[r] = a
  BY <1>1, <1>2
<1>4. /\ req'[r].coord = req[r].coord /\ req'[r].excluded = req[r].excluded /\ req'[r].full = req[r].full
      /\ req'[r].preserve = (req[r].coord \notin {NoAccount, a} /\ AtCapacity(r, req[r].coord))
  BY <1>1, <1>2 DEF RequestState
<1>5. req[r].coord \notin {NoAccount, a} /\ ~AtCapacity(r, req[r].coord)
  BY <1>3, <1>4
<1>6. req[r].coord \in Accounts
  BY <1>2, <1>5 DEF RequestState, AccountOrNone
<1>7. DurablyEligible(states[i][req[r].coord], now)
  BY <1>5 DEF Reserve, AffinityStale
<1>8. req[r].coord \notin Candidates(i, req[r].excluded, now)
  BY <1>5 DEF Choices, BestTier
<1>9. states[i][req[r].coord].inflight < Limit[req[r].coord]
  <2>1. states[i][req[r].coord].inflight \in Nat /\ Limit[req[r].coord] \in Nat
    BY <1>6, RequestFacts, PoolAssumption DEF RuntimeState
  <2> QED
    BY <1>5, <2>1 DEF AtCapacity
<1>10. req[r].coord \in req[r].excluded
  BY <1>6, <1>7, <1>8, <1>9 DEF Candidates
<1>11. req[r].coord \notin req[r].full
  BY <1>5 DEF AtCapacity
<1> QED
  BY <1>4, <1>10, <1>11 DEF DropsExcluded

LEMMA BindingInit == Init => BindingInv
  BY DEF Init, BindingInv, Chosen

LEMMA BindingStep == TypeInv /\ BindingInv /\ [Next]_vars => BindingInv'
<1> SUFFICES ASSUME TypeInv, BindingInv, [Next]_vars, Strategies = {"affinity"}, ~PreferBest
             PROVE  /\ \A i \in Instances : strategy'[i] = "affinity"
                    /\ \A s \in Requests :
                         /\ pc'[s] \in Chosen /\ req'[s].coord \notin {NoAccount, acct'[s]} /\ ~req'[s].preserve => DropsExcluded(s)'
                         /\ pc'[s] = "clearOld" => DropsExcluded(s)'
  BY DEF BindingInv
<1>1. \A i \in Instances : strategy[i] = "affinity"
  BY DEF BindingInv
<1>2. UNCHANGED strategy
  <2>1. ASSUME NEW i \in Instances, SetStrategy(i) PROVE FALSE
    BY <1>1, <2>1 DEF SetStrategy
  <2>2. CASE \E r \in Requests : AcquireStep(r) \/ ReleaseStep(r) \/ CallFails(r)
    BY <2>2, RequestKeepsRows
  <2>3. CASE ~\E r \in Requests : AcquireStep(r) \/ ReleaseStep(r) \/ CallFails(r)
    BY <2>1, <2>3
    DEF Next, ListAccounts, ApplyReload, ReloadFails, ReloadTimesOut, Crash, AdminStep, AdminRead,
        AdminWrite, AdminDelete, RemoveAccount, ClearCooldown, AdminFails, Tick, vars, pools
  <2> QED
    BY <2>2, <2>3
<1>3. ASSUME NEW s \in Requests
      PROVE  /\ pc'[s] \in Chosen /\ req'[s].coord \notin {NoAccount, acct'[s]} /\ ~req'[s].preserve => DropsExcluded(s)'
             /\ pc'[s] = "clearOld" => DropsExcluded(s)'
  <2>1. /\ pc[s] \in Chosen /\ req[s].coord \notin {NoAccount, acct[s]} /\ ~req[s].preserve => DropsExcluded(s)
        /\ pc[s] = "clearOld" => DropsExcluded(s)
    BY DEF BindingInv
  <2>2. ASSUME pc'[s] = pc[s], acct'[s] = acct[s], req'[s] = req[s]
        PROVE  /\ pc'[s] \in Chosen /\ req'[s].coord \notin {NoAccount, acct'[s]} /\ ~req'[s].preserve => DropsExcluded(s)'
               /\ pc'[s] = "clearOld" => DropsExcluded(s)'
    BY <2>1, <2>2 DEF DropsExcluded
  <2>3. ASSUME pc'[s] \notin Chosen \cup {"clearOld"}
        PROVE  /\ pc'[s] \in Chosen /\ req'[s].coord \notin {NoAccount, acct'[s]} /\ ~req'[s].preserve => DropsExcluded(s)'
               /\ pc'[s] = "clearOld" => DropsExcluded(s)'
    BY <2>3
  <2>4. CASE \E r \in Requests : AcquireStep(r) \/ ReleaseStep(r) \/ CallFails(r)
    <3>1. PICK r \in Requests : AcquireStep(r) \/ ReleaseStep(r) \/ CallFails(r)
      BY <2>4
    <3>2. Alone(r) /\ \A q \in Requests \ {r} : req'[q] = req[q]
      BY <3>1, AcquireMoves, ReleaseMoves, FailureMoves, LocalsAlone DEF Moves
    <3>3. CASE s # r
      BY <2>2, <3>2, <3>3 DEF Alone
    <3>4. CASE s = r /\ pc'[s] \in Chosen \cup {"clearOld"}
      <4>1. AcquireStep(s)
        BY <3>1, <3>4, OthersElsewhere
      <4>2. CASE Reserve(s)
        <5>1. pc'[s] = "checkCooldown" /\ Home[s] \in Instances
          BY <4>2, RequestFacts DEF Reserve, Goto, TypeInv, RequestsOK
        <5> QED
          BY <1>1, <4>2, <5>1, ChoiceDrops
      <4>3. CASE pc[s] = "idle" /\ req'[s].coord = req[s].coord /\ pc'[s] \in Chosen
        <5>1. req'[s].coord = NoAccount
          BY <4>3, RequestFacts DEF Place
        <5> QED
          BY <4>3, <5>1 DEF Chosen
      <4>4. CASE pc[s] \in Chosen /\ pc'[s] \in Chosen /\ KeepsLocals(s)
        BY <2>1, <4>4 DEF KeepsLocals, DropsExcluded, Chosen
      <4>5. CASE pc[s] = "credentials" /\ pc'[s] = "clearOld" /\ KeepsLocals(s)
                   /\ req[s].coord \notin {NoAccount, acct[s]} /\ ~req[s].preserve
        BY <2>1, <4>5 DEF KeepsLocals, DropsExcluded, Chosen
      <4> QED
        BY <3>4, <4>1, <4>2, <4>3, <4>4, <4>5, AcquireArrives DEF Arrives
    <3> QED
      BY <2>3, <3>3, <3>4
  <2>5. CASE \E i \in Instances : ApplyReload(i) \/ ReloadFails(i) \/ ReloadTimesOut(i)
    <3>1. UNCHANGED <<acct, req>> /\ pc'[s] \in {pc[s], "relSlot"}
      BY <2>5 DEF ApplyReload, ReloadFails, ReloadTimesOut, ReloadReturns, Resume
    <3> QED
      BY <2>2, <2>3, <3>1 DEF Chosen
  <2>6. CASE \E i \in Instances : Crash(i)
    <3>1. pc'[s] = "done" \/ (pc'[s] = pc[s] /\ acct'[s] = acct[s] /\ req'[s] = req[s])
      BY <2>6 DEF Crash
    <3> QED
      BY <2>2, <2>3, <3>1 DEF Chosen
  <2>7. CASE (\E i \in Instances : SetStrategy(i) \/ \E who \in WantsReload(i) : ListAccounts(i, who))
               \/ (\E p \in Admins : AdminStep(p)) \/ Tick \/ UNCHANGED vars
    <3>1. UNCHANGED <<pc, acct, req>>
      BY <2>7 DEF SetStrategy, ListAccounts, AdminStep, AdminRead, AdminWrite, AdminDelete, RemoveAccount,
                  ClearCooldown, AdminFails, Tick, vars, request
    <3> QED
      BY <2>2, <3>1
  <2> QED
    BY <2>4, <2>5, <2>6, <2>7 DEF Next
<1> QED
  BY <1>1, <1>2, <1>3

\* With the affinity strategy and without a tier preference, a conversation loses its
\* binding to another account only for an account its caller excluded, never because the
\* account was full for a moment (pool.go: Acquire, selectLocked).
THEOREM FullKeepsBinding == Spec => []FullAccountKeepsBinding
<1>1. BindingInv => FullAccountKeepsBinding
  BY DEF BindingInv, DropsExcluded, FullAccountKeepsBinding
<1>2. Spec => []BindingInv
  BY TypeInvariant, BindingInit, BindingStep, PTL DEF Spec
<1> QED
  BY <1>1, <1>2, PTL

----------------------------------------------------------------------------
(* Cooldowns and terminal states survive feedback.                         *)

\* A step that leaves the administrators alone writes rows only as feedback.
LEMMA RowCalls ==
  ASSUME TypeInv, [Next]_vars, UNCHANGED adm
  PROVE  UNCHANGED db \/ \E r \in Requests : (ReleaseSave(r) \/ ReleaseSaveFails(r)) /\ WriteRow(r)
<1>1. adm \in [Admins -> AdminState]
  BY DEF TypeInv, AdminsOK
<1>2. ASSUME NEW r \in Requests, AcquireStep(r) \/ ReleaseStep(r) \/ CallFails(r)
      PROVE  UNCHANGED db \/ ((ReleaseSave(r) \/ ReleaseSaveFails(r)) /\ WriteRow(r))
  <2>1. CASE AcquireStep(r)
    BY <2>1
    DEF AcquireStep, Start, ReadAffinity, FindStaleAffinity, Reserve, NoCandidate, ClearUnavailable, CheckCooldown,
        AcquireLease, LeaseRefused, Rollback, ReadCredentials, ClearOldBinding, BindSetNX, BindGet, BindExpire,
        ProbeReserve, ProbeRefused
  <2>2. CASE ReleaseStep(r)
    BY <2>2
    DEF ReleaseStep, ReleaseSection, ReleaseGone, ReleaseReplaced, ReleaseTerminal, ReleaseRateLimited, ReleaseDenied,
        ReleaseExhausted, ReleaseOldSuccess, ReleaseSuccess, ReleaseIgnored, ReleaseTransient, Applied, ReleaseTo,
        ReleaseCooldown, ReleaseAffinity, ReleaseSave, ReleaseSlot
  <2>3. CASE CallFails(r)
    BY <2>3
    DEF CallFails, AffinityFails, ReservedCallFails, OwnedCallFails, ReleaseCooldownFails,
        ReleaseAffinityFails, ReleaseSaveFails, ReleaseSlotFails
  <2> QED
    BY <1>2, <2>1, <2>2, <2>3
<1>3. ASSUME NEW p \in Admins, AdminStep(p) PROVE UNCHANGED db
  <2>1. CASE AdminRead(p) \/ RemoveAccount(p) \/ ClearCooldown(p)
    BY <2>1 DEF AdminRead, RemoveAccount, ClearCooldown
  <2>2. CASE AdminWrite(p) \/ AdminDelete(p)
    <3>1. adm[p].pc \in {"write", "delete"} /\ (adm'[p].pc \in {"clear", "remove", "reload", "done"})
      BY <1>1, <2>2 DEF AdminWrite, AdminDelete, AdminDone, AdminGoto, AfterWrite, AdminState, IdleAdmin
    <3> QED
      BY <3>1
  <2>3. CASE AdminFails(p)
    <3>1. UNCHANGED db \/ (adm[p].pc \in {"write", "delete"} /\ AdminDone(p))
      BY <2>3 DEF AdminFails
    <3>2. AdminDone(p) => adm'[p].pc = "done"
      BY <1>1 DEF AdminDone, IdleAdmin
    <3> QED
      BY <3>1, <3>2
  <2> QED
    BY <1>3, <2>1, <2>2, <2>3 DEF AdminStep
<1>4. CASE ~((\E r \in Requests : AcquireStep(r) \/ ReleaseStep(r) \/ CallFails(r)) \/ (\E p \in Admins : AdminStep(p)))
  BY <1>4 DEF Next, ListAccounts, ApplyReload, ReloadFails, ReloadTimesOut, SetStrategy, Crash, Tick, vars
<1> QED
  BY <1>2, <1>3, <1>4

\* The row that feedback writes, account by account.
LEMMA FeedbackRows ==
  ASSUME TypeInv, NEW r \in Requests, pc[r] = "relSave", WriteRow(r), NEW a \in Accounts
  PROVE  \/ db'[a] = db[a]
         \/ /\ a = acct[r] /\ req[r].work.row \in Row /\ db[a] \in Row
            /\ db'[a] = UpdateAccountRuntime(db[a], req[r].work.row, now)
<1>1. db \in [Accounts -> Row] /\ acct[r] \in Accounts
  BY RequestFacts DEF TypeInv, SharedOK, Place, OwnerSteps
<1>2. req[r].work.row \in Row
  BY RequestFacts DEF RequestState, ReleaseWork
<1> QED
  BY <1>1, <1>2 DEF WriteRow

\* The statement that saves feedback leaves a terminal row alone, and a running cooldown ends
\* only in a terminal state or later.
LEMMA UpdateRespects ==
  ASSUME NEW row \in Row, NEW in \in Row, NEW t \in Nat
  PROVE  LET new == UpdateAccountRuntime(row, in, t)
         IN  /\ row.status \in Terminal \/ row.cred # in.cred => new = row
             /\ row.status = "cooldown" /\ row.until > t =>
                  new.status \in Terminal \/ (new.status = "cooldown" /\ new.until >= row.until)
             /\ new.cred = row.cred
<1> DEFINE frozen  == row.status \in Terminal \/ row.cred # in.cred
           running == in.status = "active" /\ row.status = "cooldown" /\ row.until > t
           longer  == in.status = "cooldown" /\ row.until # 0 /\ (in.until = 0 \/ row.until > in.until)
           new == UpdateAccountRuntime(row, in, t)
<1>1. frozen => new = row
  BY DEF UpdateAccountRuntime
<1>2. ~frozen => /\ new.status = IF running THEN row.status ELSE in.status
                 /\ new.until = IF running \/ longer THEN row.until ELSE in.until
                 /\ new.cred = row.cred
  BY DEF UpdateAccountRuntime, Row
<1>3. row.status = "cooldown" /\ row.until > t => new.status \in Terminal \/ (new.status = "cooldown" /\ new.until >= row.until)
  <2>1. row.until \in Nat /\ in.until \in Nat /\ in.status \in Status
    BY DEF Row
  <2> HIDE DEF new
  <2> QED
    BY <1>1, <1>2, <2>1 DEF Status, Terminal
<1> QED
  BY <1>1, <1>2, <1>3

\* A terminal account changes only by an administrative or refresh transition: no late
\* feedback revives it (store/accounts.go: UpdateAccountRuntime).
THEOREM TerminalStaysTerminal == Spec => TerminalSticks
<1>1. TypeInv /\ [Next]_vars =>
        [\A a \in Accounts : db[a].status \in Terminal /\ UNCHANGED adm => db'[a] = db[a]]_vars
  <2> SUFFICES ASSUME TypeInv, [Next]_vars, NEW a \in Accounts, db[a].status \in Terminal, UNCHANGED adm
               PROVE  db'[a] = db[a]
    OBVIOUS
  <2>1. CASE UNCHANGED db
    BY <2>1
  <2>2. ASSUME NEW r \in Requests, ReleaseSave(r) \/ ReleaseSaveFails(r), WriteRow(r) PROVE db'[a] = db[a]
    <3>1. pc[r] = "relSave" /\ now \in Nat
      BY <2>2 DEF ReleaseSave, ReleaseSaveFails, TypeInv, SharedOK
    <3> QED
      BY <2>2, <3>1, FeedbackRows, UpdateRespects
  <2> QED
    BY <2>1, <2>2, RowCalls
<1> QED
  BY <1>1, TypeInvariant, PTL DEF Spec, TerminalSticks

\* Health feedback never ends or shortens a cooldown that is still running, whatever the
\* pool that writes it believes (store/accounts.go: UpdateAccountRuntime).
THEOREM CooldownsOutliveFeedback == Spec => FeedbackKeepsCooldown
<1>1. TypeInv /\ [Next]_vars =>
        [\A a \in Accounts :
           db[a].exists /\ db[a].status = "cooldown" /\ db[a].until > now /\ UNCHANGED adm
             => \/ db'[a].status \in Terminal
                \/ db'[a].status = "cooldown" /\ db'[a].until >= db[a].until]_vars
  <2> SUFFICES ASSUME TypeInv, [Next]_vars, NEW a \in Accounts, db[a].status = "cooldown", db[a].until > now,
                      UNCHANGED adm
               PROVE  db'[a].status \in Terminal \/ (db'[a].status = "cooldown" /\ db'[a].until >= db[a].until)
    OBVIOUS
  <2>1. db[a] \in Row /\ db[a].until \in Nat /\ now \in Nat
    BY DEF TypeInv, SharedOK, Row
  <2>2. CASE db'[a] = db[a]
    BY <2>1, <2>2
  <2>3. ASSUME NEW r \in Requests, ReleaseSave(r) \/ ReleaseSaveFails(r), WriteRow(r)
        PROVE  db'[a] = db[a] \/ db'[a].status \in Terminal \/ (db'[a].status = "cooldown" /\ db'[a].until >= db[a].until)
    <3>1. pc[r] = "relSave"
      BY <2>3 DEF ReleaseSave, ReleaseSaveFails
    <3> QED
      BY <2>1, <2>3, <3>1, FeedbackRows, UpdateRespects
  <2> QED
    BY <2>2, <2>3, RowCalls
<1> QED
  BY <1>1, TypeInvariant, PTL DEF Spec, FeedbackKeepsCooldown

----------------------------------------------------------------------------
(* No admission before a published deadline.                               *)

\* Redis holds every deadline that counts.
DeadlinesInv == \A a \in Accounts : blocked[a] <= cooling[a]

LEMMA DeadlinesStep == TypeInv /\ DeadlinesInv /\ [Next]_vars => DeadlinesInv'
<1> SUFFICES ASSUME TypeInv, DeadlinesInv, [Next]_vars PROVE DeadlinesInv'
  OBVIOUS
<1>1. blocked \in [Accounts -> Nat] /\ cooling \in [Accounts -> Nat] /\ now \in Nat
  BY DEF TypeInv, SharedOK, RedisOK
<1>2. CASE UNCHANGED <<blocked, cooling>>
  BY <1>2 DEF DeadlinesInv
<1>3. ASSUME NEW r \in Requests, pc[r] = "relCool", PublishCooldown(r) PROVE DeadlinesInv'
  <2> DEFINE until == req[r].work.cool
  <2>1. until \in Nat
    BY RequestFacts DEF RequestState, ReleaseWork
  <2>2. /\ cooling' = [cooling EXCEPT ![acct[r]] = SetCooldown(cooling[acct[r]], until, now)]
        /\ blocked' = [blocked EXCEPT ![acct[r]] = IF until > now THEN Later(blocked[acct[r]], until) ELSE blocked[acct[r]]]
    BY <1>3 DEF PublishCooldown
  <2> HIDE DEF until
  <2> SUFFICES ASSUME NEW a \in Accounts PROVE blocked'[a] <= cooling'[a]
    BY DEF DeadlinesInv
  <2>3. blocked[a] <= cooling[a] /\ blocked[a] \in Nat /\ cooling[a] \in Nat
    BY <1>1 DEF DeadlinesInv
  <2>4. /\ cooling'[a] = IF a = acct[r] THEN SetCooldown(cooling[a], until, now) ELSE cooling[a]
        /\ blocked'[a] = IF a = acct[r] /\ until > now THEN Later(blocked[a], until) ELSE blocked[a]
    BY <1>1, <2>2
  <2> QED
    BY <1>1, <2>1, <2>3, <2>4 DEF SetCooldown, SetIfGreater, Later
<1>4. ASSUME NEW b, DeleteCooldown(b) PROVE DeadlinesInv'
  <2>1. \A a \in Accounts : \/ blocked'[a] = blocked[a] /\ cooling'[a] = cooling[a]
                            \/ blocked'[a] = 0 /\ cooling'[a] = 0
    BY <1>1, <1>4 DEF DeleteCooldown
  <2> QED
    BY <1>1, <2>1 DEF DeadlinesInv
<1>5. ASSUME NEW r \in Requests, AcquireStep(r) PROVE UNCHANGED <<blocked, cooling>>
  BY <1>5
  DEF AcquireStep, Start, ReadAffinity, FindStaleAffinity, Reserve, NoCandidate, ClearUnavailable, CheckCooldown,
      AcquireLease, LeaseRefused, Rollback, ReadCredentials, ClearOldBinding, BindSetNX, BindGet, BindExpire,
      ProbeReserve, ProbeRefused, TakeSlot, DeleteBinding, CreateBinding, RefreshBinding, redis
<1>6. ASSUME NEW r \in Requests, ReleaseStep(r) PROVE UNCHANGED <<blocked, cooling>> \/ (pc[r] = "relCool" /\ PublishCooldown(r))
  BY <1>6
  DEF ReleaseStep, ReleaseSection, ReleaseGone, ReleaseReplaced, ReleaseTerminal, ReleaseRateLimited, ReleaseDenied,
      ReleaseExhausted, ReleaseOldSuccess, ReleaseSuccess, ReleaseIgnored, ReleaseTransient, Applied, ReleaseTo,
      ReleaseCooldown, ReleaseAffinity, ReleaseSave, ReleaseSlot, UnbindOwn, GiveSlotBack, redis
<1>7. ASSUME NEW r \in Requests, CallFails(r) PROVE UNCHANGED <<blocked, cooling>> \/ (pc[r] = "relCool" /\ PublishCooldown(r))
  BY <1>7
  DEF CallFails, AffinityFails, ReservedCallFails, OwnedCallFails, ReleaseCooldownFails,
      ReleaseAffinityFails, ReleaseSaveFails, ReleaseSlotFails, TakeSlot, DeleteBinding, CreateBinding,
      RefreshBinding, UnbindOwn, GiveSlotBack, redis
<1>8. ASSUME NEW p \in Admins, AdminStep(p) PROVE UNCHANGED <<blocked, cooling>> \/ DeleteCooldown(adm[p].acct)
  BY <1>8 DEF AdminStep, AdminRead, AdminWrite, AdminDelete, RemoveAccount, ClearCooldown, AdminFails, redis
<1>9. CASE (\E i \in Instances : \/ \E who \in WantsReload(i) : ListAccounts(i, who)
                                \/ ApplyReload(i) \/ ReloadFails(i) \/ ReloadTimesOut(i)
                                \/ SetStrategy(i) \/ Crash(i))
             \/ Tick \/ UNCHANGED vars
  BY <1>2, <1>9 DEF ListAccounts, ApplyReload, ReloadFails, ReloadTimesOut, SetStrategy, Crash, Tick, vars, redis
<1> QED
  BY <1>2, <1>3, <1>4, <1>5, <1>6, <1>7, <1>8, <1>9 DEF Next

\* No request goes on to lease an account before the deadline that any instance has
\* published for it (pool.go: Acquire; redis_coordinator.go: SetCooldown, CooldownUntil).
THEOREM BlockedIsNotAdmitted == Spec => NoAdmissionWhileBlocked
<1>1. Init => DeadlinesInv
  BY DEF Init, DeadlinesInv
<1>2. TypeInv /\ DeadlinesInv /\ [Next]_vars =>
        [\A r \in Requests :
           pc[r] = "checkCooldown" /\ pc'[r] = "acquireLease" => blocked[acct[r]] <= now]_vars
  <2> SUFFICES ASSUME TypeInv, DeadlinesInv, [Next]_vars, NEW r \in Requests, pc[r] = "checkCooldown",
                      pc'[r] = "acquireLease"
               PROVE  blocked[acct[r]] <= now
    OBVIOUS
  <2>1. acct[r] \in Accounts /\ pc \in [Requests -> Steps]
    BY RequestFacts DEF Place, ReservedSteps, TypeInv, RequestsOK
  <2>2. blocked[acct[r]] \in Nat /\ cooling[acct[r]] \in Nat /\ now \in Nat /\ blocked[acct[r]] <= cooling[acct[r]]
    BY <2>1 DEF TypeInv, SharedOK, RedisOK, DeadlinesInv
  <2>3. ASSUME NEW q \in Requests, AcquireStep(q) \/ ReleaseStep(q) \/ CallFails(q) PROVE q = r
    BY <2>3, AcquireMoves, ReleaseMoves, FailureMoves DEF Moves, Alone
  <2>4. AcquireStep(r) \/ ReleaseStep(r) \/ CallFails(r)
    <3>1. CASE \E i \in Instances : ApplyReload(i) \/ ReloadFails(i) \/ ReloadTimesOut(i)
      BY <3>1 DEF ApplyReload, ReloadFails, ReloadTimesOut, ReloadReturns, Resume
    <3>2. CASE \E i \in Instances : Crash(i)
      BY <3>2 DEF Crash
    <3>3. CASE (\E i \in Instances : SetStrategy(i) \/ \E who \in WantsReload(i) : ListAccounts(i, who))
                 \/ (\E p \in Admins : AdminStep(p)) \/ Tick \/ UNCHANGED vars
      BY <3>3 DEF SetStrategy, ListAccounts, AdminStep, AdminRead, AdminWrite, AdminDelete, RemoveAccount,
                  ClearCooldown, AdminFails, Tick, vars, request
    <3> QED
      BY <2>3, <3>1, <3>2, <3>3 DEF Next
  <2>5. AcquireStep(r)
    BY <2>4, OthersElsewhere DEF Chosen
  <2>6. CheckCooldown(r)
    BY <2>5 DEF AcquireStep, Start, ReadAffinity, FindStaleAffinity, Reserve, NoCandidate, ClearUnavailable,
      AcquireLease, LeaseRefused, Rollback, ReadCredentials, ClearOldBinding, BindSetNX, BindGet, BindExpire,
      ProbeReserve, ProbeRefused
  <2>7. ~CoolingDown(cooling[acct[r]], now)
    BY <2>1, <2>6 DEF CheckCooldown, Goto
  <2> QED
    BY <2>2, <2>7 DEF CoolingDown
<1> QED
  BY <1>1, <1>2, TypeInvariant, DeadlinesStep, PTL DEF Spec, NoAdmissionWhileBlocked

----------------------------------------------------------------------------
(* Bindings of conversations.                                              *)

\* The calls that write a binding, each at the end of a step of its request.
LEMMA BoundCalls ==
  ASSUME TypeInv, NEW r \in Requests, AcquireStep(r) \/ ReleaseStep(r) \/ CallFails(r)
  PROVE  \/ UNCHANGED bound
         \/ /\ pc'[r] # pc[r]
            /\ DeleteBinding(r) \/ CreateBinding(r) \/ RefreshBinding(r) \/ UnbindOwn(r)
<1>1. pc \in [Requests -> Steps]
  BY DEF TypeInv, RequestsOK
<1>2. ASSUME NEW step, Goto(r, step) PROVE pc'[r] = step
  BY <1>1, <1>2 DEF Goto
<1>3. CASE AcquireStep(r)
  <2>1. UNCHANGED bound \/ ClearUnavailable(r) \/ ClearOldBinding(r) \/ BindSetNX(r) \/ BindExpire(r)
    BY <1>3
    DEF AcquireStep, Start, ReadAffinity, FindStaleAffinity, Reserve, NoCandidate, CheckCooldown,
        AcquireLease, LeaseRefused, Rollback, ReadCredentials, BindGet, ProbeReserve, ProbeRefused, TakeSlot, redis
  <2>2. CASE ClearUnavailable(r) \/ ClearOldBinding(r)
    BY <1>2, <2>2 DEF ClearUnavailable, ClearOldBinding
  <2>3. CASE BindSetNX(r)
    BY <1>2, <2>3 DEF BindSetNX
  <2>4. CASE BindExpire(r)
    BY <1>2, <2>4 DEF BindExpire, NextAttempt
  <2> QED
    BY <2>1, <2>2, <2>3, <2>4
<1>4. CASE ReleaseStep(r)
  <2>1. UNCHANGED bound \/ ReleaseAffinity(r)
    BY <1>4
    DEF ReleaseStep, ReleaseSection, ReleaseGone, ReleaseReplaced, ReleaseTerminal, ReleaseRateLimited, ReleaseDenied,
        ReleaseExhausted, ReleaseOldSuccess, ReleaseSuccess, ReleaseIgnored, ReleaseTransient, Applied, ReleaseTo,
        ReleaseCooldown, ReleaseSave, ReleaseSlot, PublishCooldown, GiveSlotBack, redis
  <2> QED
    BY <1>2, <2>1 DEF ReleaseAffinity, AfterAffinity
<1>5. CASE CallFails(r)
  <2>1. UNCHANGED bound \/ AffinityFails(r) \/ OwnedCallFails(r) \/ ReleaseAffinityFails(r)
    BY <1>5
    DEF CallFails, ReservedCallFails, ReleaseCooldownFails, ReleaseSaveFails, ReleaseSlotFails, TakeSlot,
        PublishCooldown, GiveSlotBack, redis
  <2>2. CASE AffinityFails(r)
    BY <1>2, <2>2 DEF AffinityFails, Finish, redis
  <2>3. CASE OwnedCallFails(r)
    BY <1>2, <2>3 DEF OwnedCallFails, BindSteps, redis
  <2>4. CASE ReleaseAffinityFails(r)
    BY <1>2, <2>4 DEF ReleaseAffinityFails, AfterAffinity, redis
  <2> QED
    BY <2>1, <2>2, <2>3, <2>4
<1> QED
  BY <1>3, <1>4, <1>5

\* A live binding is never replaced in one step, and only a request that has seen it, or
\* works on its account, deletes it (redis_coordinator.go: BindAffinity, ClearAffinity).
THEOREM BindingsAreStable == Spec => BindingStable
<1>1. TypeInv /\ [Next]_vars =>
        [\A k \in Keys :
           LET old == GetAffinity(bound[k], now) IN
           old # NoAccount /\ bound'[k].acct # old
             => /\ bound'[k] = NoBinding
                /\ \E r \in Requests : /\ KeyOf[r] = k /\ pc'[r] # pc[r]
                                       /\ old \in {req[r].coord, acct[r]}]_vars
  <2> SUFFICES ASSUME TypeInv, [Next]_vars, NEW k \in Keys,
                      GetAffinity(bound[k], now) # NoAccount, bound'[k].acct # GetAffinity(bound[k], now)
               PROVE  /\ bound'[k] = NoBinding
                      /\ \E r \in Requests : /\ KeyOf[r] = k /\ pc'[r] # pc[r]
                                             /\ GetAffinity(bound[k], now) \in {req[r].coord, acct[r]}
    OBVIOUS
  <2> DEFINE old == GetAffinity(bound[k], now)
  <2>1. bound \in [Keys -> [acct : AccountOrNone, exp : Nat]] /\ now \in Nat
    BY DEF TypeInv, SharedOK, RedisOK
  <2>2. bound[k].acct = old
    BY DEF GetAffinity
  <2>3. ~UNCHANGED bound
    BY <2>2
  <2>4. PICK r \in Requests :
          /\ pc'[r] # pc[r]
          /\ DeleteBinding(r) \/ CreateBinding(r) \/ RefreshBinding(r) \/ UnbindOwn(r)
    <3>1. \E r \in Requests : AcquireStep(r) \/ ReleaseStep(r) \/ CallFails(r)
      BY <2>3 DEF Next, ListAccounts, ApplyReload, ReloadFails, ReloadTimesOut, SetStrategy, Crash, AdminStep,
                  AdminRead, AdminWrite, AdminDelete, RemoveAccount, ClearCooldown, AdminFails, DeleteCooldown,
                  Tick, vars, redis
    <3> QED
      BY <2>3, <3>1, BoundCalls
  <2>5. KeyOf[r] = k
    BY <2>1, <2>2, <2>4 DEF DeleteBinding, CreateBinding, RefreshBinding, UnbindOwn
  <2>6. CASE CreateBinding(r)
    BY <2>1, <2>2, <2>5, <2>6 DEF CreateBinding, SetNX
  <2>7. CASE RefreshBinding(r)
    <3>1. bound'[k] = CompareExpire(bound[k], req[r].seen, AffinityTTL, now)
      BY <2>1, <2>5, <2>7 DEF RefreshBinding
    <3>2. bound'[k].acct = bound[k].acct
      BY <2>1, <3>1 DEF CompareExpire
    <3> QED
      BY <2>2, <3>2
  <2>8. CASE DeleteBinding(r)
    <3>1. bound'[k] = CompareDelete(bound[k], req[r].coord, now)
      BY <2>1, <2>5, <2>8 DEF DeleteBinding
    <3>2. bound'[k] = NoBinding /\ old = req[r].coord
      BY <2>2, <3>1 DEF CompareDelete
    <3> QED
      BY <2>4, <2>5, <3>2
  <2>9. CASE UnbindOwn(r)
    <3>1. bound'[k] = CompareDelete(bound[k], acct[r], now)
      BY <2>1, <2>5, <2>9 DEF UnbindOwn
    <3>2. bound'[k] = NoBinding /\ old = acct[r]
      BY <2>2, <3>1 DEF CompareDelete
    <3> QED
      BY <2>4, <2>5, <3>2
  <2> QED
    BY <2>4, <2>6, <2>7, <2>8, <2>9
<1> QED
  BY <1>1, TypeInvariant, PTL DEF Spec, BindingStable

----------------------------------------------------------------------------
(* Feedback is saved only for the credential it is about.                  *)

\* No whole row that an administrator has read before a refresh is written after it.
NoStaleWriteBack ==
  \/ \A p, q \in Admins : p = q
  \/ "refresh" \notin AdminOps
  \/ AdminOps \subseteq {"refresh", "delete"}

\* The credentials no refresh has written yet.
Unborn == {p \in Admins : adm[p].pc \in {"idle", "write"}}

\* The steps of a request after it has read the credential it sends upstream.
SendSteps == {"clearOld", "held", "relCool", "relAff", "relSave"} \cup BindSteps

\* A credential that nobody has written is in no row, no listing, no pool and no request.
BornOnly ==
  /\ \A a \in Accounts : db[a].cred \notin Unborn
  /\ \A i \in Instances, a \in Accounts :
       states[i][a].cred \notin Unborn /\ reload[i].snap[a].cred \notin Unborn
  /\ \A r \in Requests : req[r].cred \notin Unborn

\* An administrator that is about to write back a row has the credential of that row.
RowsCurrent ==
  \A p \in Admins :
    adm[p].pc = "write" =>
      /\ adm[p].op \in AdminOps \ {"delete"}
      /\ adm[p].op # "refresh" => adm[p].row.cred = db[adm[p].acct].cred

\* A request that was chosen with the credential the row still has has sent this one; what
\* it saves carries the credential it was chosen with.
Sends(r) ==
  /\ pc[r] \in SendSteps /\ req[r].cred = db[acct[r]].cred => req[r].used = req[r].cred
  /\ pc[r] \in {"relCool", "relAff"} /\ req[r].work.save => req[r].work.row.cred = req[r].cred
  /\ pc[r] = "relSave" => req[r].work.row.cred = req[r].cred

CredInv == NoStaleWriteBack => BornOnly /\ RowsCurrent /\ \A r \in Requests : Sends(r)

\* What the critical section of Release computes is about the credential the pool has.
LEMMA AppliedCred ==
  ASSUME NEW r, StateOf(r) \in RuntimeState, StateOf(r).cred = req[r].cred, NEW fb, NEW st, NEW changed, NEW w,
         Applied(r, fb, st, changed, w),
         st = StateOf(r) \/ \E x, y, z : st = [StateOf(r) EXCEPT !.till = x, !.status = y, !.until = z],
         w = NoWork \/ \E x : w = Block(x)
  PROVE  \E new, done : /\ ReleaseTo(r, new, done)
                        /\ new.cred = StateOf(r).cred
                        /\ done.save => done.row.cred = req[r].cred
<1> DEFINE new == [Decrement(st) EXCEPT !.quota = ReportedQuota(StateOf(r), fb)]
<1>1. st.cred = StateOf(r).cred /\ DOMAIN st = DOMAIN NoState
  <2>1. DOMAIN StateOf(r) = DOMAIN NoState /\ "cred" \in DOMAIN StateOf(r)
    BY DEF RuntimeState, NoState
  <2> QED
    BY <2>1
<1>2. Decrement(st).cred = st.cred /\ DOMAIN Decrement(st) = DOMAIN st
  BY <1>1 DEF Decrement, NoState
<1>3. new.cred = st.cred
  BY <1>1, <1>2 DEF NoState
<1> HIDE DEF new
<1>4. PICK save, publish : ReleaseTo(r, new, [w EXCEPT !.save = save, !.publish = publish, !.row = RowOf(new)])
  BY DEF Applied, new
<1> DEFINE done == [w EXCEPT !.save = save, !.publish = publish, !.row = RowOf(new)]
<1>5. DOMAIN w = DOMAIN NoWork /\ "row" \in DOMAIN w
  BY DEF NoWork, Block
<1>6. done.row = RowOf(new)
  BY <1>5
<1>7. RowOf(new).cred = new.cred
  BY DEF RowOf
<1>8. ReleaseTo(r, new, done)
  BY <1>4
<1> HIDE DEF done
<1> QED
  BY <1>1, <1>3, <1>6, <1>7, <1>8

\* Every outcome of the critical section: the state keeps its credential, and what is to be
\* saved carries the credential the request was chosen with.
LEMMA SectionCred ==
  ASSUME TypeInv, NEW r \in Requests, ReleaseSection(r)
  PROVE  /\ pc[r] = "held"
         /\ \E new, done : /\ ReleaseTo(r, new, done)
                           /\ new.cred = StateOf(r).cred
                           /\ done.save => done.row.cred = req[r].cred
<1> DEFINE st == StateOf(r)
<1>1. pc[r] = "held" /\ st \in RuntimeState
  <2>1. pc[r] = "held"
    BY DEF ReleaseSection, ReleaseGone, ReleaseReplaced, ReleaseTerminal, ReleaseRateLimited,
           ReleaseDenied, ReleaseExhausted, ReleaseOldSuccess, ReleaseSuccess, ReleaseIgnored,
           ReleaseTransient, Otherwise, Reports
  <2> QED
    BY <2>1, RequestFacts DEF StateOf, Place, OwnerSteps
<1>2. CASE ReleaseGone(r)
  <2>1. ReleaseTo(r, st, [NoWork EXCEPT !.inval = TRUE])
    BY <1>2 DEF ReleaseGone
  <2>2. ~[NoWork EXCEPT !.inval = TRUE].save
    BY DEF NoWork
  <2> QED
    BY <1>1, <2>1, <2>2
<1>3. CASE ReleaseReplaced(r)
  <2>1. PICK x, y : ReleaseTo(r, Decrement(st), [NoWork EXCEPT !.inval = x, !.cool = y])
    BY <1>3 DEF ReleaseReplaced
  <2>2. ~[NoWork EXCEPT !.inval = x, !.cool = y].save
    BY DEF NoWork
  <2>3. Decrement(st).cred = st.cred
    BY <1>1 DEF Decrement, RuntimeState
  <2> QED
    BY <1>1, <2>1, <2>2, <2>3
<1>4. ASSUME NEW fb, Reports(r, fb), NEW changed, NEW w, w = NoWork \/ (\E x : w = Block(x)), NEW s,
             s = st \/ (\E x, y, z : s = [st EXCEPT !.till = x, !.status = y, !.until = z]),
             Applied(r, fb, s, changed, w)
      PROVE  \E new, done : /\ ReleaseTo(r, new, done)
                            /\ new.cred = StateOf(r).cred
                            /\ done.save => done.row.cred = req[r].cred
  <2>1. st.cred = req[r].cred
    BY <1>4 DEF Reports
  <2> QED
    BY <1>1, <1>4, <2>1, AppliedCred
<1>5. ASSUME NEW fb, NEW until, Reports(r, fb), Applied(r, fb, Cool(st, until), TRUE, Block(until))
      PROVE  \E new, done : /\ ReleaseTo(r, new, done)
                            /\ new.cred = StateOf(r).cred
                            /\ done.save => done.row.cred = req[r].cred
  <2>1. Cool(st, until) = [st EXCEPT !.till = until, !.status = "cooldown", !.until = until]
    BY DEF Cool
  <2>2. \E x, y, z : Cool(st, until) = [st EXCEPT !.till = x, !.status = y, !.until = z]
    BY <2>1
  <2>3. \E x : Block(until) = Block(x)
    OBVIOUS
  <2> HIDE DEF st
  <2> QED
    BY <1>4, <1>5, <2>2, <2>3
<1>6. CASE ReleaseTerminal(r) \/ ReleaseOldSuccess(r) \/ ReleaseIgnored(r)
  <2>1. PICK fb, changed, w : Reports(r, fb) /\ Applied(r, fb, st, changed, w) /\ (w = NoWork \/ \E x : w = Block(x))
    BY <1>6 DEF ReleaseTerminal, ReleaseOldSuccess, ReleaseIgnored, Otherwise
  <2> QED
    BY <1>1, <1>4, <2>1
<1>7. CASE ReleaseRateLimited(r)
  <2>1. PICK fb, until : Reports(r, fb) /\ Applied(r, fb, Cool(st, until), TRUE, Block(until))
    BY <1>7 DEF ReleaseRateLimited
  <2> QED
    BY <1>1, <1>5, <2>1
<1>8. CASE ReleaseExhausted(r)
  <2>1. PICK fb, until : Reports(r, fb) /\ Applied(r, fb, Cool(st, until), TRUE, Block(until))
    BY <1>8 DEF ReleaseExhausted, Otherwise
  <2> QED
    BY <1>1, <1>5, <2>1
<1>9. CASE ReleaseTransient(r)
  <2>1. PICK fb, until : Reports(r, fb) /\ Applied(r, fb, Cool(st, until), TRUE, Block(until))
    BY <1>9 DEF ReleaseTransient, Otherwise
  <2> QED
    BY <1>1, <1>5, <2>1
<1>10. CASE ReleaseDenied(r)
  <2>1. PICK fb, x : Reports(r, fb) /\ Applied(r, fb, [st EXCEPT !.till = 0, !.status = "disabled", !.until = 0], TRUE, Block(x))
    BY <1>10 DEF ReleaseDenied
  <2> QED
    BY <1>1, <1>4, <2>1
<1>11. CASE ReleaseSuccess(r)
  <2>1. PICK fb, changed : Reports(r, fb) /\ Applied(r, fb, [st EXCEPT !.till = 0, !.status = "active", !.until = 0], changed, NoWork)
    BY <1>11 DEF ReleaseSuccess, Otherwise
  <2> QED
    BY <1>1, <1>4, <2>1
<1> QED
  BY <1>1, <1>2, <1>3, <1>6, <1>7, <1>8, <1>9, <1>10, <1>11 DEF ReleaseSection

\* A request writes no credential into a pool or a row.
LEMMA RequestKeepsCreds ==
  ASSUME TypeInv, NEW r \in Requests, AcquireStep(r) \/ ReleaseStep(r) \/ CallFails(r)
  PROVE  /\ UNCHANGED <<reload, adm>>
         /\ \A a \in Accounts : db'[a].cred = db[a].cred
         /\ \A i \in Instances, a \in Accounts : states'[i][a].cred = states[i][a].cred
<1>1. UNCHANGED <<reload, adm>>
  BY RequestKeepsRows
<1>2. \A a \in Accounts : db'[a].cred = db[a].cred
  <2>1. UNCHANGED db \/ \E s \in Requests : (ReleaseSave(s) \/ ReleaseSaveFails(s)) /\ WriteRow(s)
    BY <1>1, RowCalls DEF Next
  <2>2. ASSUME NEW s \in Requests, ReleaseSave(s) \/ ReleaseSaveFails(s), WriteRow(s), NEW a \in Accounts
        PROVE  db'[a].cred = db[a].cred
    <3>1. pc[s] = "relSave" /\ now \in Nat
      BY <2>2 DEF ReleaseSave, ReleaseSaveFails, TypeInv, SharedOK
    <3> QED
      BY <2>2, <3>1, FeedbackRows, UpdateRespects
  <2> QED
    BY <2>1, <2>2
<1>3. states \in [Instances -> [Accounts -> RuntimeState]]
  BY DEF TypeInv, PoolsOK
<1>4. ASSUME NEW i \in Instances, NEW seen, NEW j \in Instances, NEW a \in Accounts
      PROVE  Scanned(i, seen, now)[j][a].cred = states[j][a].cred
  <2>1. Promote(states[j][a], now).cred = states[j][a].cred
    BY <1>3 DEF Promote, RuntimeState
  <2>2. Scanned(i, seen, now)[j][a] \in {states[j][a], Promote(states[j][a], now)}
    BY <1>3 DEF Scanned
  <2> QED
    BY <2>1, <2>2
<1>5. Home[r] \in Instances
  BY RequestFacts
<1>6. ASSUME NEW a, NEW f \in [Instances -> [Accounts -> RuntimeState]], NEW st,
             states' = [f EXCEPT ![Home[r]][a] = st], a \in Accounts => st.cred = f[Home[r]][a].cred,
             NEW j \in Instances, NEW b \in Accounts
      PROVE  states'[j][b].cred = f[j][b].cred
  <2>1. j # Home[r] \/ b # a => states'[j][b] = f[j][b]
    BY <1>5, <1>6
  <2>2. a \in Accounts => states'[Home[r]][a] = st
    BY <1>5, <1>6
  <2> QED
    BY <1>6, <2>1, <2>2
<1>7. CASE AcquireStep(r)
  <2>1. CASE FindStaleAffinity(r) \/ NoCandidate(r)
    <3>1. PICK seen : states' = Scanned(Home[r], seen, now)
      BY <2>1 DEF FindStaleAffinity, NoCandidate
    <3> QED
      BY <1>1, <1>2, <1>4, <1>5, <3>1
  <2>2. CASE Reserve(r)
    <3>1. PICK seen, a : states' = [Scanned(Home[r], seen, now) EXCEPT ![Home[r]][a].inflight = @ + 1]
      BY <2>2 DEF Reserve
    <3> DEFINE f == Scanned(Home[r], seen, now)
               st == [f[Home[r]][a] EXCEPT !.inflight = @ + 1]
    <3>2. f \in [Instances -> [Accounts -> RuntimeState]]
      BY <1>5, ScannedType DEF TypeInv
    <3>3. \A j \in Instances, b \in Accounts : f[j][b].cred = states[j][b].cred
      BY <1>4, <1>5
    <3>4. states' = [f EXCEPT ![Home[r]][a] = st]
      BY <3>1
    <3> HIDE DEF f
    <3>5. a \in Accounts => st.cred = f[Home[r]][a].cred
      BY <1>5, <3>2 DEF RuntimeState
    <3> HIDE DEF st
    <3>6. \A j \in Instances, b \in Accounts : states'[j][b].cred = f[j][b].cred
      BY <1>6, <3>2, <3>4, <3>5
    <3> QED
      BY <1>1, <1>2, <3>3, <3>6
  <2>3. CASE Rollback(r)
    <3> DEFINE old == states[Home[r]][acct[r]]
               st == IF old.present THEN [Decrement(old) EXCEPT !.till = Later(@, req[r].until)] ELSE old
    <3>1. states' = [states EXCEPT ![Home[r]][acct[r]] = st]
      BY <2>3 DEF Rollback
    <3>2. acct[r] \in Accounts => st.cred = states[Home[r]][acct[r]].cred
      <4>1. SUFFICES ASSUME old \in RuntimeState PROVE st.cred = old.cred
        BY <1>3, <1>5
      <4> HIDE DEF old
      <4>2. Decrement(old).cred = old.cred /\ Decrement(old) \in RuntimeState
        BY <4>1, StateTypes, 0 \in Nat DEF Decrement, RuntimeState
      <4>3. ASSUME NEW x PROVE [Decrement(old) EXCEPT !.till = x].cred = Decrement(old).cred
        BY <4>2 DEF RuntimeState
      <4> QED
        BY <4>2, <4>3
    <3> HIDE DEF st
    <3> QED
      BY <1>1, <1>2, <1>3, <1>6, <3>1, <3>2
  <2>4. CASE ProbeReserve(r)
    <3>1. PICK a \in Accounts : states' = [states EXCEPT ![Home[r]][a].inflight = @ + 1]
      BY <2>4 DEF ProbeReserve
    <3> DEFINE st == [states[Home[r]][a] EXCEPT !.inflight = @ + 1]
    <3>2. states' = [states EXCEPT ![Home[r]][a] = st]
      BY <3>1
    <3>3. st.cred = states[Home[r]][a].cred
      BY <1>3, <1>5 DEF RuntimeState
    <3> HIDE DEF st
    <3> QED
      BY <1>1, <1>2, <1>3, <1>6, <3>2, <3>3
  <2>5. CASE ~(FindStaleAffinity(r) \/ NoCandidate(r) \/ Reserve(r) \/ Rollback(r) \/ ProbeReserve(r))
    <3>1. UNCHANGED states
      BY <1>7, <2>5 DEF AcquireStep, Start, ReadAffinity, ClearUnavailable, CheckCooldown, AcquireLease, LeaseRefused,
          ReadCredentials, ClearOldBinding, BindSetNX, BindGet, BindExpire, ProbeRefused, pools
    <3> QED
      BY <1>1, <1>2, <3>1
  <2> QED
    BY <2>1, <2>2, <2>3, <2>4, <2>5
<1>8. CASE ReleaseSection(r)
  <2>1. PICK new, done : ReleaseTo(r, new, done) /\ new.cred = states[Home[r]][acct[r]].cred
    BY <1>8, SectionCred DEF StateOf
  <2>2. states' = [states EXCEPT ![Home[r]][acct[r]] = new]
    BY <2>1 DEF ReleaseTo
  <2> QED
    BY <1>1, <1>2, <1>3, <1>6, <2>1, <2>2
<1>9. CASE (ReleaseStep(r) \/ CallFails(r)) /\ ~ReleaseSection(r)
  <2>1. UNCHANGED states
    BY <1>9 DEF ReleaseStep, ReleaseCooldown, ReleaseAffinity, ReleaseSave, ReleaseSlot, CallFails, AffinityFails,
                ReservedCallFails, OwnedCallFails, ReleaseCooldownFails, ReleaseAffinityFails, ReleaseSaveFails,
                ReleaseSlotFails, pools
  <2> QED
    BY <1>1, <1>2, <2>1
<1> QED
  BY <1>7, <1>8, <1>9 DEF ReleaseStep

\* How a request gets to a step after the read of its credential, or stays at one.
Transmits(r) ==
  \/ pc[r] = "credentials" /\ pc'[r] \notin {"relCool", "relAff", "relSave"} /\ req'[r].cred = req[r].cred
       /\ req'[r].used = db[acct[r]].cred
  \/ pc[r] \in SendSteps /\ pc'[r] \notin {"relCool", "relAff", "relSave"}
       /\ req'[r].cred = req[r].cred /\ req'[r].used = req[r].used
  \/ pc[r] = "held" /\ req'[r].cred = req[r].cred /\ req'[r].used = req[r].used
       /\ (req'[r].work.save => req'[r].work.row.cred = req[r].cred)
       /\ (pc'[r] = "relSave" => req'[r].work.save)
  \/ pc[r] \in {"relCool", "relAff"} /\ req'[r] = req[r] /\ (pc'[r] = "relSave" => req[r].work.save)

\* These are the ways, and a request takes its credential from the pool it is chosen from.
LEMMA RequestTransmits ==
  ASSUME TypeInv, NEW r \in Requests, AcquireStep(r) \/ ReleaseStep(r) \/ CallFails(r)
  PROVE  /\ pc'[r] \in SendSteps => Transmits(r) /\ acct'[r] = acct[r]
         /\ \/ req'[r].cred \in {req[r].cred, InitialCred}
            \/ \E a \in Accounts : req'[r].cred = states[Home[r]][a].cred
<1> USE DEF SendSteps, BindSteps
<1>1. /\ pc \in [Requests -> Steps] /\ req \in [Requests -> RequestState] /\ acct \in [Requests -> AccountOrNone]
      /\ states \in [Instances -> [Accounts -> RuntimeState]] /\ Home[r] \in Instances
  BY RequestFacts DEF TypeInv, RequestsOK, PoolsOK
<1>2. ASSUME NEW step, Goto(r, step) PROVE pc'[r] = step
  BY <1>1, <1>2 DEF Goto
<1>3. ASSUME Finish(r) PROVE pc'[r] = "done" /\ req'[r].cred = InitialCred
  BY <1>1, <1>2, <1>3 DEF Finish, IdleReq
<1>4. CASE Start(r) \/ ReadAffinity(r) \/ FindStaleAffinity(r) \/ ClearUnavailable(r) \/ AcquireLease(r)
  <2>1. PICK step \in {"getAffinity", "select", "clearUnavailable", "credentials"} : Goto(r, step)
    BY <1>4 DEF Start, ReadAffinity, FindStaleAffinity, ClearUnavailable, AcquireLease
  <2>2. req'[r].cred = req[r].cred
    BY <1>1, <1>4 DEF Start, ReadAffinity, FindStaleAffinity, ClearUnavailable, AcquireLease, RequestState
  <2> QED
    BY <1>2, <2>1, <2>2
<1>5. CASE NoCandidate(r) \/ ProbeRefused(r) \/ ReleaseSlot(r) \/ ReleaseSlotFails(r) \/ AffinityFails(r)
  BY <1>3, <1>5 DEF NoCandidate, ProbeRefused, ReleaseSlot, ReleaseSlotFails, AffinityFails
<1>6. CASE Reserve(r)
  <2> DEFINE seen == (Accounts \ req[r].excluded) \cup {req[r].coord}
             scanned == Scanned(Home[r], seen, now)
  <2>1. PICK a \in Choices(r) :
          \E preserve :
            req' = [req EXCEPT ![r].status = scanned[Home[r]][a].status, ![r].cred = scanned[Home[r]][a].cred,
                               ![r].preserve = preserve]
    BY <1>6 DEF Reserve
  <2>2. a \in Accounts
    BY DEF Choices, BestTier, Candidates
  <2>3. scanned[Home[r]][a] \in {states[Home[r]][a], Promote(states[Home[r]][a], now)}
    BY <1>1, <2>2 DEF Scanned
  <2>4. scanned[Home[r]][a].cred = states[Home[r]][a].cred
    <3>1. Promote(states[Home[r]][a], now).cred = states[Home[r]][a].cred
      BY <1>1, <2>2 DEF Promote, RuntimeState
    <3> HIDE DEF scanned
    <3> QED
      BY <2>3, <3>1
  <2> HIDE DEF scanned
  <2>5. req'[r].cred = scanned[Home[r]][a].cred
    BY <1>1, <2>1 DEF RequestState
  <2>6. pc'[r] = "checkCooldown"
    BY <1>2, <1>6 DEF Reserve
  <2> QED
    BY <2>2, <2>4, <2>5, <2>6
<1>7. CASE ProbeReserve(r)
  <2>1. PICK a \in Accounts : \E status : req' = [req EXCEPT ![r].status = status, ![r].cred = states[Home[r]][a].cred]
    BY <1>7 DEF ProbeReserve
  <2>2. req'[r].cred = states[Home[r]][a].cred
    BY <1>1, <2>1 DEF RequestState
  <2>3. pc'[r] = "acquireLease"
    BY <1>2, <1>7 DEF ProbeReserve
  <2> QED
    BY <2>2, <2>3
<1>8. CASE CheckCooldown(r) \/ LeaseRefused(r)
  <2>1. PICK step \in {"undoCooling", "undoRetry", "acquireLease", "undoFail"} : Goto(r, step)
    BY <1>8 DEF CheckCooldown, LeaseRefused
  <2>2. req'[r].cred = req[r].cred
    <3>1. CASE CheckCooldown(r)
      BY <1>1, <3>1 DEF CheckCooldown, RequestState
    <3>2. CASE LeaseRefused(r)
      BY <1>1, <3>2 DEF LeaseRefused, RequestState
    <3> QED
      BY <1>8, <3>1, <3>2
  <2> QED
    BY <1>2, <2>1, <2>2
<1>9. CASE Rollback(r)
  <2>1. Finish(r) \/ ((\E step \in {"clearUnavailable", "select", "dropSlot"} : Goto(r, step)) /\ req'[r].cred = req[r].cred)
    <3>1. CASE pc[r] = "undoFail"
      BY <1>9, <3>1 DEF Rollback
    <3>2. CASE pc[r] \in {"undoRetry", "undoCooling"}
      BY <1>1, <1>9, <3>2 DEF Rollback, RequestState
    <3>3. CASE pc[r] = "undoOwned"
      BY <1>9, <3>3 DEF Rollback
    <3> QED
      BY <1>9, <3>1, <3>2, <3>3 DEF Rollback
  <2> QED
    BY <1>2, <1>3, <2>1
<1>10. CASE ReadCredentials(r)
  <2>1. CASE db[acct[r]].exists
    <3>1. req' = [req EXCEPT ![r].used = db[acct[r]].cred] /\ UNCHANGED acct /\ pc[r] = "credentials"
      BY <1>10, <2>1 DEF ReadCredentials
    <3>2. req'[r].cred = req[r].cred /\ req'[r].used = db[acct[r]].cred
      BY <1>1, <3>1 DEF RequestState
    <3>3. pc'[r] \in {"clearOld", "bindSetNX", "held"}
      BY <1>2, <1>10, <2>1 DEF ReadCredentials, AfterCredentials
    <3> QED
      BY <3>1, <3>2, <3>3 DEF Transmits
  <2>2. CASE ~db[acct[r]].exists
    BY <1>2, <1>10, <2>2 DEF ReadCredentials
  <2> QED
    BY <2>1, <2>2
<1>11. CASE ClearOldBinding(r) \/ BindSetNX(r) \/ BindGet(r) \/ BindExpire(r)
  <2>1. PICK step \in {"bindSetNX", "held", "bindGet", "bindExpire", "undoOwned"} : Goto(r, step)
    BY <1>11 DEF ClearOldBinding, BindSetNX, BindGet, BindExpire, NextAttempt
  <2>2. pc[r] \in SendSteps /\ UNCHANGED acct
    BY <1>11 DEF ClearOldBinding, BindSetNX, BindGet, BindExpire
  <2>3. req'[r].cred = req[r].cred /\ req'[r].used = req[r].used
    <3>1. CASE ClearOldBinding(r)
      BY <1>1, <3>1 DEF ClearOldBinding, RequestState
    <3>2. CASE BindSetNX(r)
      BY <3>2 DEF BindSetNX
    <3>3. CASE BindGet(r)
      BY <1>1, <3>3 DEF BindGet, NextAttempt, RequestState
    <3>4. CASE BindExpire(r)
      BY <1>1, <3>4 DEF BindExpire, NextAttempt, RequestState
    <3> QED
      BY <1>11, <3>1, <3>2, <3>3, <3>4
  <2> QED
    BY <1>2, <2>1, <2>2, <2>3 DEF Transmits
<1>12. CASE ReleaseSection(r)
  <2>1. PICK new, done : ReleaseTo(r, new, done) /\ (done.save => done.row.cred = req[r].cred)
    BY <1>12, SectionCred
  <2>2. pc[r] = "held"
    BY <1>12, SectionCred
  <2>3. req' = [req EXCEPT ![r].work = done] /\ UNCHANGED acct /\ pc'[r] = AfterSection(done, req[r].use)
    BY <1>2, <2>1 DEF ReleaseTo
  <2>4. req'[r].cred = req[r].cred /\ req'[r].used = req[r].used /\ req'[r].work = done
    BY <1>1, <2>3 DEF RequestState
  <2>5. pc'[r] = "relSave" => done.save
    BY <2>3 DEF AfterSection, AfterCool, AfterAffinity
  <2> QED
    BY <2>1, <2>2, <2>3, <2>4, <2>5 DEF Transmits
<1>13. CASE ReleaseCooldown(r) \/ ReleaseCooldownFails(r) \/ ReleaseAffinity(r) \/ ReleaseAffinityFails(r)
  <2>1. pc[r] \in {"relCool", "relAff"} /\ UNCHANGED <<acct, req>>
    BY <1>13 DEF ReleaseCooldown, ReleaseCooldownFails, ReleaseAffinity, ReleaseAffinityFails
  <2>2. pc'[r] \in {AfterCool(req[r].work, req[r].use), AfterAffinity(req[r].work)}
    BY <1>2, <1>13 DEF ReleaseCooldown, ReleaseCooldownFails, ReleaseAffinity, ReleaseAffinityFails
  <2>3. pc'[r] = "relSave" => req[r].work.save
    BY <2>2 DEF AfterCool, AfterAffinity
  <2> QED
    BY <2>1, <2>3 DEF Transmits
<1>14. CASE ReleaseSave(r) \/ ReleaseSaveFails(r) \/ ReservedCallFails(r) \/ OwnedCallFails(r)
  <2>1. PICK step \in {"relReload", "relSlot", "undoFail", "undoOwned"} : Goto(r, step)
    BY <1>14 DEF ReleaseSave, ReleaseSaveFails, ReservedCallFails, OwnedCallFails
  <2>2. UNCHANGED req
    BY <1>14 DEF ReleaseSave, ReleaseSaveFails, ReservedCallFails, OwnedCallFails
  <2> QED
    BY <1>2, <2>1, <2>2
<1> QED
  BY <1>4, <1>5, <1>6, <1>7, <1>8, <1>9, <1>10, <1>11, <1>12, <1>13, <1>14 DEF AcquireStep, ReleaseStep, CallFails

\* A request that so gets on keeps to what it sends, as long as the credentials of rows stay.
LEMMA TransmitsSends ==
  ASSUME NEW r \in Requests, Sends(r), Transmits(r), acct'[r] = acct[r], db'[acct[r]].cred = db[acct[r]].cred
  PROVE  Sends(r)'
<1>1. CASE pc[r] = "credentials" /\ pc'[r] \notin {"relCool", "relAff", "relSave"} /\ req'[r].cred = req[r].cred
             /\ req'[r].used = db[acct[r]].cred
  BY <1>1 DEF Sends
<1>2. CASE pc[r] \in SendSteps /\ pc'[r] \notin {"relCool", "relAff", "relSave"}
             /\ req'[r].cred = req[r].cred /\ req'[r].used = req[r].used
  BY <1>2 DEF Sends
<1>3. CASE pc[r] = "held" /\ req'[r].cred = req[r].cred /\ req'[r].used = req[r].used
             /\ (req'[r].work.save => req'[r].work.row.cred = req[r].cred)
             /\ (pc'[r] = "relSave" => req'[r].work.save)
  BY <1>3 DEF Sends, SendSteps
<1>4. CASE pc[r] \in {"relCool", "relAff"} /\ req'[r] = req[r] /\ (pc'[r] = "relSave" => req[r].work.save)
  BY <1>4 DEF Sends, SendSteps
<1> QED
  BY <1>1, <1>2, <1>3, <1>4 DEF Transmits

\* Credentials that only move between rows, pools and requests stay those somebody has written.
LEMMA BornStays ==
  ASSUME BornOnly,
         \A p \in Admins : adm'[p].pc \in {"idle", "write"} => adm[p].pc \in {"idle", "write"},
         \A a \in Accounts : db'[a].cred = db[a].cred \/ db'[a].cred \notin Unborn',
         \A i \in Instances, a \in Accounts :
           states'[i][a].cred \in {states[i][a].cred, reload[i].snap[a].cred, InitialCred},
         \A i \in Instances, a \in Accounts :
           reload'[i].snap[a].cred \in {reload[i].snap[a].cred, db[a].cred, InitialCred},
         \A r \in Requests :
           \/ req'[r].cred \in {req[r].cred, InitialCred}
           \/ \E a \in Accounts : req'[r].cred = states[Home[r]][a].cred
  PROVE  BornOnly'
<1>1. Unborn' \subseteq Unborn /\ InitialCred \notin Unborn
  BY PoolAssumption DEF Unborn
<1>2. \A r \in Requests : Home[r] \in Instances
  BY PoolAssumption
<1>3. /\ \A a \in Accounts : db[a].cred \notin Unborn
      /\ \A i \in Instances, a \in Accounts :
           states[i][a].cred \notin Unborn /\ reload[i].snap[a].cred \notin Unborn
      /\ \A r \in Requests : req[r].cred \notin Unborn
  BY DEF BornOnly
<1>4. \A a \in Accounts : db'[a].cred \notin Unborn'
  BY <1>1, <1>3
<1>5. \A i \in Instances, a \in Accounts : states'[i][a].cred \notin Unborn'
  BY <1>1, <1>3
<1>6. \A i \in Instances, a \in Accounts : reload'[i].snap[a].cred \notin Unborn'
  BY <1>1, <1>3
<1>7. \A r \in Requests : req'[r].cred \notin Unborn'
  BY <1>1, <1>2, <1>3
<1> QED
  BY <1>4, <1>5, <1>6, <1>7 DEF BornOnly

\* A request keeps to what it sends when the others move and the credentials of rows stay.
LEMMA SendsStays ==
  ASSUME TypeInv, NEW r \in Requests, Sends(r), acct'[r] = acct[r] /\ req'[r] = req[r] /\ pc'[r] = pc[r],
         \A a \in Accounts : db'[a].cred = db[a].cred
  PROVE  Sends(r)'
<1>1. pc[r] \in SendSteps => acct[r] \in Accounts
  BY RequestFacts DEF Place, SendSteps, OwnerSteps, BindSteps
<1> QED
  BY <1>1 DEF Sends

LEMMA SendsElsewhere == ASSUME NEW r \in Requests, pc'[r] \notin SendSteps PROVE Sends(r)'
  BY DEF Sends, SendSteps

LEMMA CredInit == Init => CredInv
<1> SUFFICES ASSUME Init PROVE BornOnly /\ RowsCurrent /\ \A r \in Requests : Sends(r)
  BY DEF CredInv
<1>1. InitialCred \notin Unborn
  BY PoolAssumption DEF Unborn
<1>2. BornOnly
  BY <1>1 DEF Init, BornOnly, InitialRow, NoState, TokenFree, NoSnapshot, IdleReq
<1>3. RowsCurrent
  BY DEF Init, RowsCurrent, IdleAdmin
<1>4. \A r \in Requests : Sends(r)
  BY DEF Init, Sends, SendSteps, BindSteps
<1> QED
  BY <1>2, <1>3, <1>4

\* A request.
LEMMA RequestCred ==
  ASSUME TypeInv, BornOnly, RowsCurrent, \A s \in Requests : Sends(s),
         NEW r \in Requests, AcquireStep(r) \/ ReleaseStep(r) \/ CallFails(r)
  PROVE  BornOnly' /\ RowsCurrent' /\ \A s \in Requests : Sends(s)'
<1>1. /\ UNCHANGED <<reload, adm>>
      /\ \A a \in Accounts : db'[a].cred = db[a].cred
      /\ \A i \in Instances, a \in Accounts : states'[i][a].cred = states[i][a].cred
  BY RequestKeepsCreds
<1>2. Alone(r) /\ \A s \in Requests \ {r} : req'[s] = req[s]
  BY AcquireMoves, ReleaseMoves, FailureMoves, LocalsAlone DEF Moves
<1>3. /\ pc'[r] \in SendSteps => Transmits(r) /\ acct'[r] = acct[r]
      /\ \/ req'[r].cred \in {req[r].cred, InitialCred}
         \/ \E a \in Accounts : req'[r].cred = states[Home[r]][a].cred
  BY RequestTransmits
<1>4. BornOnly'
  <2>1. \A s \in Requests : \/ req'[s].cred \in {req[s].cred, InitialCred}
                            \/ \E a \in Accounts : req'[s].cred = states[Home[s]][a].cred
    BY <1>2, <1>3
  <2> QED
    BY <1>1, <2>1, BornStays
<1>5. RowsCurrent'
  <2>1. \A p \in Admins : adm[p].pc = "write" => adm[p].acct \in Accounts
    BY DEF TypeInv, AdminsOK
  <2> QED
    BY <1>1, <2>1 DEF RowsCurrent
<1>6. ASSUME NEW s \in Requests PROVE Sends(s)'
  <2>1. CASE s # r
    BY <1>1, <1>2, <2>1, SendsStays DEF Alone
  <2>2. CASE s = r /\ pc'[r] \in SendSteps
    <3>1. acct[r] \in Accounts
      <4>1. pc[r] \in OwnerSteps
        BY <1>3, <2>2 DEF Transmits, SendSteps, OwnerSteps, BindSteps
      <4> QED
        BY <4>1, RequestFacts DEF Place
    <3> QED
      BY <1>1, <1>3, <2>2, <3>1, TransmitsSends
  <2>3. CASE s = r /\ pc'[r] \notin SendSteps
    BY <2>3, SendsElsewhere
  <2> QED
    BY <2>1, <2>2, <2>3
<1> QED
  BY <1>4, <1>5, <1>6

\* An instance.
LEMMA InstanceCred ==
  ASSUME TypeInv, BornOnly, RowsCurrent, \A s \in Requests : Sends(s), NEW i \in Instances,
         \/ \E who \in WantsReload(i) : ListAccounts(i, who)
         \/ ApplyReload(i) \/ ReloadFails(i) \/ ReloadTimesOut(i) \/ SetStrategy(i) \/ Crash(i)
  PROVE  BornOnly' /\ RowsCurrent' /\ \A s \in Requests : Sends(s)'
<1>1. /\ states \in [Instances -> [Accounts -> RuntimeState]] /\ adm \in [Admins -> AdminState]
      /\ reload \in [Instances -> [by : TokenHolders, snap : [Accounts -> Row]]]
  BY DEF TypeInv, PoolsOK, AdminsOK
<1>2. UNCHANGED db
  BY DEF ListAccounts, ApplyReload, ReloadFails, ReloadTimesOut, SetStrategy, Crash
<1>3. \A p \in Admins : adm'[p] = adm[p] \/ adm'[p].pc = "done"
  <2>1. ASSUME NEW who, Resume(who), NEW p \in Admins PROVE adm'[p] = adm[p] \/ adm'[p].pc = "done"
    BY <1>1, <2>1 DEF Resume, AdminState
  <2>2. CASE Crash(i)
    BY <2>2 DEF Crash, IdleAdmin
  <2>3. CASE ~Crash(i)
    BY <2>1, <2>3 DEF ListAccounts, ApplyReload, ReloadFails, ReloadTimesOut, SetStrategy, ReloadReturns
  <2> QED
    BY <2>2, <2>3
<1>4. ASSUME NEW s \in Requests
      PROVE  \/ acct'[s] = acct[s] /\ req'[s] = req[s] /\ pc'[s] = pc[s]
             \/ pc'[s] \notin SendSteps /\ req'[s].cred \in {req[s].cred, InitialCred}
  <2>1. CASE Crash(i)
    <3>1. \/ acct'[s] = acct[s] /\ req'[s] = req[s] /\ pc'[s] = pc[s]
          \/ pc'[s] = "done" /\ req'[s] = IdleReq
      BY <2>1 DEF Crash
    <3> QED
      BY <3>1 DEF SendSteps, BindSteps, IdleReq
  <2>2. CASE ApplyReload(i) \/ ReloadFails(i) \/ ReloadTimesOut(i)
    <3>1. UNCHANGED <<acct, req>> /\ pc'[s] \in {pc[s], "relSlot"}
      BY <2>2 DEF ApplyReload, ReloadFails, ReloadTimesOut, ReloadReturns, Resume
    <3> QED
      BY <3>1 DEF SendSteps, BindSteps
  <2>3. CASE ~(Crash(i) \/ ApplyReload(i) \/ ReloadFails(i) \/ ReloadTimesOut(i))
    BY <2>3 DEF ListAccounts, SetStrategy, request
  <2> QED
    BY <2>1, <2>2, <2>3
<1>5. ASSUME NEW j \in Instances, NEW a \in Accounts
      PROVE  /\ states'[j][a].cred \in {states[j][a].cred, reload[j].snap[a].cred, InitialCred}
             /\ reload'[j].snap[a].cred \in {reload[j].snap[a].cred, db[a].cred, InitialCred}
  <2>1. TokenFree.snap[a].cred = InitialCred /\ NoState.cred = InitialCred
    BY DEF TokenFree, NoSnapshot, InitialRow, NoState
  <2>2. Reconciled(i)[a].cred \in {reload[i].snap[a].cred, InitialCred}
    BY <2>1 DEF Reconciled, Reconcile
  <2>3. states'[j][a].cred \in {states[j][a].cred, reload[j].snap[a].cred, InitialCred}
    <3>1. CASE ApplyReload(i)
      <4>1. states'[j] = IF j = i THEN Reconciled(i) ELSE states[j]
        BY <1>1, <3>1 DEF ApplyReload
      <4> QED
        BY <2>2, <4>1
    <3>2. CASE Crash(i)
      <4>1. states'[j] = IF j = i THEN [b \in Accounts |-> NoState] ELSE states[j]
        BY <1>1, <3>2 DEF Crash
      <4> QED
        BY <2>1, <4>1
    <3>3. CASE ~(ApplyReload(i) \/ Crash(i))
      BY <3>3 DEF ListAccounts, ReloadFails, ReloadTimesOut, SetStrategy, pools
    <3> QED
      BY <3>1, <3>2, <3>3
  <2>4. reload'[j].snap[a].cred \in {reload[j].snap[a].cred, db[a].cred, InitialCred}
    <3>1. ASSUME NEW who, ListAccounts(i, who) PROVE reload'[j].snap \in {reload[j].snap, db}
      BY <1>1, <3>1 DEF ListAccounts
    <3>2. CASE ApplyReload(i) \/ ReloadFails(i) \/ Crash(i)
      <4>1. reload' = [reload EXCEPT ![i] = TokenFree]
        BY <3>2 DEF ApplyReload, ReloadFails, ReloadReturns, Crash
      <4>2. reload'[j] \in {reload[j], TokenFree}
        BY <1>1, <4>1
      <4> QED
        BY <2>1, <4>2
    <3>3. CASE ReloadTimesOut(i) \/ SetStrategy(i)
      BY <3>3 DEF ReloadTimesOut, SetStrategy, pools
    <3> QED
      BY <3>1, <3>2, <3>3
  <2> QED
    BY <2>3, <2>4
<1>6. BornOnly'
  <2>1. \A p \in Admins : adm'[p].pc \in {"idle", "write"} => adm[p].pc \in {"idle", "write"}
    BY <1>3
  <2>2. \A s \in Requests : req'[s].cred \in {req[s].cred, InitialCred}
    BY <1>4
  <2> QED
    BY <1>2, <1>5, <2>1, <2>2, BornStays
<1>7. RowsCurrent'
  BY <1>2, <1>3 DEF RowsCurrent
<1>8. \A s \in Requests : Sends(s)'
  BY <1>2, <1>4, SendsStays, SendsElsewhere
<1> QED
  BY <1>6, <1>7, <1>8

\* An administrator changes the credential of one row at most, to the one of its refresh.
LEMMA AdminNewCred ==
  ASSUME TypeInv, RowsCurrent, NEW p \in Admins, AdminStep(p)
  PROVE  /\ \A q \in Admins \ {p} : adm'[q] = adm[q]
         /\ adm'[p].pc \in {"idle", "write"} =>
              /\ adm[p].pc = "idle" /\ UNCHANGED db
              /\ \E op \in AdminOps \ {"delete"}, a \in Accounts :
                   adm'[p] = [pc |-> "write", op |-> op, acct |-> a, row |-> db[a]]
         /\ \A a \in Accounts :
              \/ db'[a].cred = db[a].cred
              \/ adm[p].pc = "write" /\ adm[p].op = "refresh" /\ db'[a].cred = p
<1>1. /\ db \in [Accounts -> Row] /\ adm \in [Admins -> AdminState]
      /\ \A q \in Admins :
           adm[q].pc \in {"write", "delete", "remove", "clear"} => adm[q].acct \in Accounts
  BY DEF TypeInv, SharedOK, AdminsOK
<1>2. adm[p] \in AdminState /\ adm[p].row \in Row
  BY <1>1 DEF AdminState
<1>3. ASSUME AdminStatement(p), adm[p].pc \in {"write", "delete"}, NEW a \in Accounts
      PROVE  \/ db'[a].cred = db[a].cred
             \/ adm[p].pc = "write" /\ adm[p].op = "refresh" /\ db'[a].cred = p
  <2> DEFINE b == adm[p].acct
  <2>1. b \in Accounts /\ db[a] \in Row
    BY <1>1, <1>3
  <2>2. CASE a # b \/ ~db[b].exists
    BY <1>1, <1>3, <2>1, <2>2 DEF AdminStatement
  <2>3. CASE a = b /\ db[b].exists /\ adm[p].pc = "delete"
    <3>1. db'[a] = [db[a] EXCEPT !.exists = FALSE]
      BY <1>1, <1>3, <2>1, <2>3 DEF AdminStatement
    <3> QED
      BY <2>1, <3>1 DEF Row
  <2>4. CASE a = b /\ db[b].exists /\ adm[p].pc = "write"
    <3>1. db'[a] = PrepareAccountUpdate(adm[p].row, adm[p].op, p)
      BY <1>1, <1>3, <2>1, <2>4 DEF AdminStatement
    <3>2. ASSUME NEW row \in Row, NEW op
          PROVE  PrepareAccountUpdate(row, op, p).cred = IF op = "refresh" THEN p ELSE row.cred
      BY DEF PrepareAccountUpdate, Row
    <3>3. db'[a].cred = IF adm[p].op = "refresh" THEN p ELSE adm[p].row.cred
      BY <1>2, <3>1, <3>2
    <3>4. adm[p].op # "refresh" => adm[p].row.cred = db[a].cred
      BY <2>4 DEF RowsCurrent
    <3> QED
      BY <2>4, <3>3, <3>4
  <2> QED
    BY <1>3, <2>2, <2>3, <2>4
<1>4. CASE AdminRead(p)
  <2>1. PICK op \in AdminOps, a \in Accounts :
          adm' = [adm EXCEPT ![p] =
            [pc |-> IF op = "delete" THEN "delete" ELSE "write", op |-> op, acct |-> a,
             row |-> IF op = "delete" THEN InitialRow ELSE db[a]]]
    BY <1>4 DEF AdminRead
  <2>2. adm[p].pc = "idle" /\ UNCHANGED db
    BY <1>4 DEF AdminRead
  <2>3. \A q \in Admins \ {p} : adm'[q] = adm[q]
    BY <1>1, <2>1
  <2>4. CASE op = "delete"
    <3>1. adm'[p].pc = "delete"
      BY <1>1, <2>1, <2>4
    <3> QED
      BY <2>2, <2>3, <3>1
  <2>5. CASE op # "delete"
    <3>1. adm'[p] = [pc |-> "write", op |-> op, acct |-> a, row |-> db[a]]
      BY <1>1, <2>1, <2>5
    <3> QED
      BY <2>2, <2>3, <2>5, <3>1
  <2> QED
    BY <2>4, <2>5
<1>5. CASE ~AdminRead(p)
  <2>1. PICK step \in {"clear", "remove", "reload", "done"} :
          \/ AdminGoto(p, step)
          \/ step = "done" /\ AdminDone(p)
          \/ adm' = [adm EXCEPT ![p].pc = step, ![p].row = InitialRow]
    BY <1>5 DEF AdminStep, AdminWrite, AdminDelete, RemoveAccount, ClearCooldown, AdminFails, AfterWrite
  <2>2. adm'[p].pc = step /\ \A q \in Admins \ {p} : adm'[q] = adm[q]
    BY <1>1, <2>1 DEF AdminGoto, AdminDone, AdminState, IdleAdmin
  <2>3. UNCHANGED db \/ (AdminStatement(p) /\ adm[p].pc \in {"write", "delete"})
    BY <1>5 DEF AdminStep, AdminWrite, AdminDelete, RemoveAccount, ClearCooldown, AdminFails
  <2> QED
    BY <1>3, <2>2, <2>3
<1> QED
  BY <1>4, <1>5

\* An administrator.
LEMMA AdminCred ==
  ASSUME TypeInv, NoStaleWriteBack, BornOnly, RowsCurrent, \A s \in Requests : Sends(s),
         NEW p \in Admins, AdminStep(p)
  PROVE  BornOnly' /\ RowsCurrent' /\ \A s \in Requests : Sends(s)'
<1>1. /\ \A q \in Admins \ {p} : adm'[q] = adm[q]
      /\ adm'[p].pc \in {"idle", "write"} =>
           /\ adm[p].pc = "idle" /\ UNCHANGED db
           /\ \E op \in AdminOps \ {"delete"}, a \in Accounts :
                adm'[p] = [pc |-> "write", op |-> op, acct |-> a, row |-> db[a]]
      /\ \A a \in Accounts :
           \/ db'[a].cred = db[a].cred
           \/ adm[p].pc = "write" /\ adm[p].op = "refresh" /\ db'[a].cred = p
  BY AdminNewCred
<1>2. UNCHANGED <<reload, pc, acct, req>>
  BY DEF AdminStep, AdminRead, AdminWrite, AdminDelete, RemoveAccount, ClearCooldown, AdminFails, pools, request
<1>3. adm[p].pc = "write" => adm'[p].pc \notin {"idle", "write"}
  BY <1>1
<1>4. BornOnly'
  <2>1. \A q \in Admins : adm'[q].pc \in {"idle", "write"} => adm[q].pc \in {"idle", "write"}
    BY <1>1
  <2>2. \A a \in Accounts : db'[a].cred = db[a].cred \/ db'[a].cred \notin Unborn'
    BY <1>1, <1>3 DEF Unborn
  <2>3. ASSUME NEW i \in Instances, NEW a \in Accounts PROVE states'[i][a].cred \in {states[i][a].cred, InitialCred}
    <3>1. CASE RemoveAccount(p)
      <4>1. states' = [states EXCEPT ![Home[p]][adm[p].acct] = NoState]
        BY <3>1 DEF RemoveAccount
      <4>2. states \in [Instances -> [Accounts -> RuntimeState]]
        BY DEF TypeInv, PoolsOK
      <4>3. states'[i][a] \in {states[i][a], NoState}
        BY <4>1, <4>2
      <4> QED
        BY <4>3 DEF NoState
    <3>2. CASE ~RemoveAccount(p)
      BY <3>2 DEF AdminStep, AdminRead, AdminWrite, AdminDelete, ClearCooldown, AdminFails, pools
    <3> QED
      BY <3>1, <3>2
  <2> QED
    BY <1>2, <2>1, <2>2, <2>3, BornStays
<1>5. RowsCurrent'
  <2> SUFFICES ASSUME NEW q \in Admins, adm'[q].pc = "write"
               PROVE  /\ adm'[q].op \in AdminOps \ {"delete"}
                      /\ adm'[q].op # "refresh" => adm'[q].row.cred = db'[adm'[q].acct].cred
    BY DEF RowsCurrent
  <2>1. CASE q = p
    <3>1. UNCHANGED db
      BY <1>1, <2>1
    <3>2. PICK op \in AdminOps \ {"delete"}, a \in Accounts :
            adm'[p] = [pc |-> "write", op |-> op, acct |-> a, row |-> db[a]]
      BY <1>1, <2>1
    <3>3. adm'[p].op = op /\ adm'[p].acct = a /\ adm'[p].row = db[a]
      BY <3>2
    <3> QED
      BY <2>1, <3>1, <3>3
  <2>2. CASE q # p
    <3>1. adm'[q] = adm[q] /\ adm[q].pc = "write"
      BY <1>1, <2>2
    <3>2. adm[q].op \in AdminOps \ {"delete"} /\ (adm[q].op # "refresh" => adm[q].row.cred = db[adm[q].acct].cred)
      BY <3>1 DEF RowsCurrent
    <3>3. adm[q].acct \in Accounts
      BY <3>1 DEF TypeInv, AdminsOK
    <3>4. CASE adm[p].pc = "write" /\ adm[p].op = "refresh"
      <4>1. "refresh" \in AdminOps
        BY <3>4 DEF RowsCurrent
      <4>2. adm[q].op = "refresh"
        BY <2>2, <3>2, <4>1 DEF NoStaleWriteBack
      <4> QED
        BY <3>1, <3>2, <4>2
    <3>5. CASE ~(adm[p].pc = "write" /\ adm[p].op = "refresh")
      <4>1. db'[adm[q].acct].cred = db[adm[q].acct].cred
        BY <1>1, <3>3, <3>5
      <4> QED
        BY <3>1, <3>2, <4>1
    <3> QED
      BY <3>4, <3>5
  <2> QED
    BY <2>1, <2>2
<1>6. ASSUME NEW s \in Requests PROVE Sends(s)'
  <2>1. CASE pc[s] \notin SendSteps
    BY <1>2, <2>1, SendsElsewhere
  <2>2. CASE pc[s] \in SendSteps
    <3>1. acct[s] \in Accounts
      BY <2>2, RequestFacts DEF Place, SendSteps, OwnerSteps, BindSteps
    <3>2. CASE db'[acct[s]].cred = db[acct[s]].cred
      BY <1>2, <3>2 DEF Sends
    <3>3. CASE adm[p].pc = "write" /\ db'[acct[s]].cred = p
      <4>1. req[s].cred # p
        BY <3>3 DEF BornOnly, Unborn
      <4> QED
        BY <1>2, <3>3, <4>1 DEF Sends
    <3> QED
      BY <1>1, <3>1, <3>2, <3>3
  <2> QED
    BY <2>1, <2>2
<1> QED
  BY <1>4, <1>5, <1>6

LEMMA CredStep == TypeInv /\ CredInv /\ [Next]_vars => CredInv'
<1> SUFFICES ASSUME TypeInv, NoStaleWriteBack, BornOnly, RowsCurrent, \A s \in Requests : Sends(s), [Next]_vars
             PROVE  BornOnly' /\ RowsCurrent' /\ \A s \in Requests : Sends(s)'
  BY DEF CredInv, NoStaleWriteBack
<1>1. CASE \E r \in Requests : AcquireStep(r) \/ ReleaseStep(r) \/ CallFails(r)
  BY <1>1, RequestCred
<1>2. CASE \E i \in Instances : \/ \E who \in WantsReload(i) : ListAccounts(i, who)
                               \/ ApplyReload(i) \/ ReloadFails(i) \/ ReloadTimesOut(i)
                               \/ SetStrategy(i) \/ Crash(i)
  <2>1. PICK i \in Instances : \/ \E who \in WantsReload(i) : ListAccounts(i, who)
                               \/ ApplyReload(i) \/ ReloadFails(i) \/ ReloadTimesOut(i)
                               \/ SetStrategy(i) \/ Crash(i)
    BY <1>2
  <2> QED
    BY <2>1, InstanceCred
<1>3. CASE \E p \in Admins : AdminStep(p)
  BY <1>3, AdminCred
<1>4. CASE Tick \/ UNCHANGED vars
  <2>1. UNCHANGED <<db, states, reload, adm, pc, acct, req>>
    BY <1>4 DEF Tick, vars, pools, request
  <2>2. BornOnly'
    BY <2>1 DEF BornOnly, Unborn
  <2>3. RowsCurrent' /\ \A s \in Requests : Sends(s)'
    BY <2>1 DEF RowsCurrent, Sends
  <2> QED
    BY <2>2, <2>3
<1> QED
  BY <1>1, <1>2, <1>3, <1>4 DEF Next

\* As long as no whole row that was read before a refresh is written after it, feedback
\* changes a row only while the row has the credential that the request sent upstream, and
\* never takes an account out of a terminal state (store/accounts.go: UpdateAccountRuntime,
\* pool.go: Release).
THEOREM FeedbackRespectsRows ==
  ASSUME NoStaleWriteBack PROVE Spec => FeedbackRespectsRow
<1>1. TypeInv /\ CredInv /\ [Next]_vars =>
        [\A r \in Requests :
           pc[r] = "relSave" /\ pc'[r] # "relSave" /\ db'[acct[r]] # db[acct[r]]
             => db[acct[r]].cred = req[r].used]_vars
  <2> SUFFICES ASSUME TypeInv, CredInv, [Next]_vars, NEW r \in Requests,
                      pc[r] = "relSave", pc'[r] # "relSave", db'[acct[r]] # db[acct[r]]
               PROVE  db[acct[r]].cred = req[r].used
    OBVIOUS
  <2>1. WriteRow(r)
    <3>1. CASE \E s \in Requests : AcquireStep(s) \/ ReleaseStep(s) \/ CallFails(s)
      <4>1. PICK s \in Requests : AcquireStep(s) \/ ReleaseStep(s) \/ CallFails(s)
        BY <3>1
      <4>2. s = r
        BY <4>1, AcquireMoves, ReleaseMoves, FailureMoves DEF Moves, Alone
      <4>3. UNCHANGED adm
        BY <4>1, RequestKeepsRows
      <4>4. PICK q \in Requests : (ReleaseSave(q) \/ ReleaseSaveFails(q)) /\ WriteRow(q)
        BY <4>3, RowCalls
      <4>5. pc[q] = "relSave" /\ pc'[q] # "relSave"
        BY <4>4 DEF ReleaseSave, ReleaseSaveFails, Goto, TypeInv, RequestsOK
      <4>6. q = r
        BY <4>1, <4>2, <4>5, AcquireMoves, ReleaseMoves, FailureMoves DEF Moves, Alone
      <4> QED
        BY <4>4, <4>6
    <3>2. CASE \E p \in Admins : AdminStep(p)
      BY <3>2 DEF AdminStep, AdminRead, AdminWrite, AdminDelete, RemoveAccount, ClearCooldown, AdminFails, request
    <3>3. CASE ~((\E s \in Requests : AcquireStep(s) \/ ReleaseStep(s) \/ CallFails(s)) \/ (\E p \in Admins : AdminStep(p)))
      BY <3>3 DEF Next, ListAccounts, ApplyReload, ReloadFails, ReloadTimesOut, SetStrategy, Crash, Tick, vars
    <3> QED
      BY <3>1, <3>2, <3>3
  <2>2. acct[r] \in Accounts /\ now \in Nat
    BY RequestFacts DEF Place, OwnerSteps
  <2>3. /\ req[r].work.row \in Row /\ db[acct[r]] \in Row
        /\ db'[acct[r]] = UpdateAccountRuntime(db[acct[r]], req[r].work.row, now)
    BY <2>1, <2>2, FeedbackRows
  <2>4. db[acct[r]].cred = req[r].work.row.cred
    BY <2>2, <2>3, UpdateRespects
  <2>5. Sends(r)
    BY DEF CredInv
  <2> QED
    BY <2>4, <2>5 DEF Sends, SendSteps
<1>2. Spec => []CredInv
  BY TypeInvariant, CredInit, CredStep, PTL DEF Spec
<1>3. Spec => FeedbackMatchesCredential
  BY <1>1, <1>2, TypeInvariant, PTL DEF Spec, FeedbackMatchesCredential
<1> QED
  BY <1>3, TerminalStaysTerminal, PTL DEF FeedbackRespectsRow
=============================================================================
