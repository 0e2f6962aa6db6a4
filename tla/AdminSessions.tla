---------------------------- MODULE AdminSessions ----------------------------
(***************************************************************************)
(* The sessions of one administrator (internal/admin/auth.go and           *)
(* redis_auth.go, internal/store/admin.go): PostgreSQL keeps the rows,     *)
(* Redis a copy of each, a tombstone for each session that was logged out  *)
(* and the revision that a change of the administrator's credentials       *)
(* rotates.  Logins, checks of a session token, logouts and credential     *)
(* changes run concurrently on any instance; a step is one Redis command   *)
(* or one SQL statement.                                                   *)
(*                                                                         *)
(* Every process runs once.  A login and the session it creates share      *)
(* their name, and a revision is named after the process that created it.  *)
(* The times of a session never change, so a copy of it is its name and    *)
(* the row keeps them when it is deleted.                                  *)
(***************************************************************************)
EXTENDS Naturals, FiniteSets

CONSTANTS
  Logins, Checks, Logouts, Changes,
  None,           \* no session, and the value of an absent revision
  First,          \* the credential the administrator starts with
  SessionTTL,
  MaxAttempts, AttemptWindow,   \* LoginRateLimit
  MaxStarted,     \* bound on the processes that begin
  MaxFaults,      \* bound on the Redis and PostgreSQL calls that fail
  MaxTime         \* bound on the clock

Procs   == Logins \cup Checks \cup Logouts \cup Changes
Holders == Logins \cup Checks       \* the callers of CurrentSessionRevision

ASSUME SessionAssumption ==
  /\ Logins \cap (Checks \cup Logouts \cup Changes) = {}
  /\ Checks \cap (Logouts \cup Changes) = {} /\ Logouts \cap Changes = {}
  /\ None \notin Procs /\ First \notin Changes
  /\ SessionTTL \in Nat \ {0} /\ AttemptWindow \in Nat \ {0}
  /\ MaxAttempts \in Nat \ {0} /\ MaxTime \in Nat
  /\ MaxStarted \in Nat /\ MaxFaults \in Nat

VARIABLES
  now,
  rows,       \* PostgreSQL: admin_sessions
  secret,     \* PostgreSQL: the credentials of the administrator
  cache,      \* Redis: admin:session, the revision each copy was saved under
  tomb,       \* Redis: admin:session-revoked, deadline of each tombstone
  revision,   \* Redis: admin:session-revision
  attempts,   \* Redis: admin:login, count and deadline of the window
  pc,         \* per process: next step
  token,      \* per check and logout: the session it is about
  rev,        \* per login and check: the revision it has read
  copy,       \* per check: the revision of the cached copy it has read
  change,     \* per change: its NotBefore and the sessions that existed then
  dead,       \* sessions that a logout or a change has ended (history)
  late,       \* per check: did it begin after its session had ended? (history)
  faults      \* number of calls that have failed so far

redis == <<cache, tomb, revision, attempts>>
local == <<token, rev, copy, change, late>>
vars  == <<now, rows, secret, redis, pc, local, dead, faults>>

Revision   == [value : Holders \cup Changes \cup {None}, notBefore : Nat]
NoRevision == [value |-> None, notBefore |-> 0]

LoginSteps  == {"register", "verify", "rev", "revNX", "revGet", "create", "save", "undo",
                "clear", "done", "failed"}
CheckSteps  == {"begin", "cached", "rev", "revNX", "revGet", "row", "rowAgain", "restore",
                "expiry", "revoke", "uncache", "drop", "accepted", "rejected"}
LogoutSteps == {"begin", "uncache", "drop", "done"}
ChangeSteps == {"begin", "rotate", "update", "dropAll", "done"}

TypeOK ==
  /\ now \in Nat
  /\ rows \in [Logins -> [exists : BOOLEAN, created : Nat, expires : Nat]]
  /\ secret \in Changes \cup {First}
  /\ cache \in [Logins -> [value : Holders \cup Changes \cup {None}, exp : Nat]]
  /\ tomb \in [Logins -> Nat]
  /\ revision \in Revision
  /\ attempts \in [n : Nat, exp : Nat]
  /\ pc \in [Procs -> LoginSteps \cup CheckSteps \cup LogoutSteps \cup ChangeSteps]
  /\ \A p \in Procs : pc[p] \in CASE p \in Logins  -> LoginSteps
                                  [] p \in Checks  -> CheckSteps
                                  [] p \in Logouts -> LogoutSteps
                                  [] OTHER         -> ChangeSteps
  /\ token \in [Checks \cup Logouts -> Logins \cup {None}]
  /\ rev \in [Holders -> Revision]
  /\ copy \in [Checks -> Holders \cup Changes \cup {None}]
  /\ change \in [Changes -> [notBefore : Nat, old : SUBSET Logins]]
  /\ dead \in SUBSET Logins
  /\ late \in [Checks -> BOOLEAN]
  /\ faults \in 0..MaxFaults

Init ==
  /\ now = 1
  /\ rows = [l \in Logins |-> [exists |-> FALSE, created |-> 0, expires |-> 0]]
  /\ secret = First
  /\ cache = [l \in Logins |-> [value |-> None, exp |-> 0]]
  /\ tomb = [l \in Logins |-> 0]
  /\ revision = NoRevision
  /\ attempts = [n |-> 0, exp |-> 0]
  /\ pc = [p \in Procs |-> IF p \in Logins THEN "register" ELSE "begin"]
  /\ token = [p \in Checks \cup Logouts |-> None]
  /\ rev = [p \in Holders |-> NoRevision]
  /\ copy = [k \in Checks |-> None]
  /\ change = [c \in Changes |-> [notBefore |-> 0, old |-> {}]]
  /\ dead = {}
  /\ late = [k \in Checks |-> FALSE]
  /\ faults = 0

Goto(p, step) == pc' = [pc EXCEPT ![p] = step]

\* The processes that have yet to begin, and the bound on the others.
Waiting  == {p \in Procs : pc[p] \in {"register", "begin"}}
MayBegin == Cardinality(Procs \ Waiting) < MaxStarted

\* The sessions whose login has answered: only these have a token to present.
Issued == {l \in Logins : pc[l] = "done"}

----------------------------------------------------------------------------
(* CurrentSessionRevision: GET, then SETNX of a new one, then GET again.   *)

\* Where the caller goes on: a login creates its row, a check compares the
\* revision with the one of the cached copy, or saves the row it has read.
WithRevision(p, r) ==
  /\ rev' = [rev EXCEPT ![p] = r]
  /\ Goto(p, IF p \in Logins THEN "create"
             ELSE IF copy[p] = None THEN "restore"
             ELSE IF copy[p] = r.value THEN "expiry" ELSE "rowAgain")

GetRevision(p) ==
  /\ pc[p] = "rev"
  /\ IF revision.value = None
       THEN Goto(p, "revNX") /\ UNCHANGED rev
       ELSE WithRevision(p, revision)
  /\ UNCHANGED <<now, rows, secret, redis, token, copy, change, late, dead>>

CreateRevision(p) ==
  LET new == [value |-> p, notBefore |-> 0] IN
  /\ pc[p] = "revNX"
  /\ IF revision.value = None
       THEN revision' = new /\ WithRevision(p, new)
       ELSE Goto(p, "revGet") /\ UNCHANGED <<revision, rev>>
  /\ UNCHANGED <<now, rows, secret, cache, tomb, attempts, token, copy, change, late, dead>>

GetRevisionAgain(p) ==
  /\ pc[p] = "revGet"
  /\ WithRevision(p, revision)
  /\ UNCHANGED <<now, rows, secret, redis, token, copy, change, late, dead>>

RevisionStep(p) == GetRevision(p) \/ CreateRevision(p) \/ GetRevisionAgain(p)

----------------------------------------------------------------------------
(* Login and issueSession.                                                 *)

\* AddWindow with a delta of 1: the first attempt of a window starts it.
AddWindow(w, ttl, t) ==
  IF w.exp > t THEN [w EXCEPT !.n = @ + 1] ELSE [n |-> 1, exp |-> t + ttl]

RegisterLoginAttempt(l) ==
  /\ pc[l] = "register" /\ MayBegin
  /\ attempts' = AddWindow(attempts, AttemptWindow, now)
  /\ Goto(l, IF attempts'.n > MaxAttempts THEN "failed" ELSE "verify")
  /\ UNCHANGED <<now, rows, secret, cache, tomb, revision, local, dead>>

\* The credentials given are some the administrator once had.  The deadline of the
\* session is computed before anything about it is stored.
VerifyCredentials(l) ==
  /\ pc[l] = "verify"
  /\ \E given \in Changes \cup {First} :
       IF given = secret
         THEN Goto(l, "rev") /\ rows' = [rows EXCEPT ![l].expires = now + SessionTTL]
         ELSE Goto(l, "failed") /\ UNCHANGED rows
  /\ UNCHANGED <<now, secret, redis, local, dead>>

InsertSession(l) == rows' = [rows EXCEPT ![l].exists = TRUE, ![l].created = now]

CreateAdminSession(l) ==
  /\ pc[l] = "create"
  /\ InsertSession(l)
  /\ Goto(l, "save")
  /\ UNCHANGED <<now, secret, redis, local, dead>>

\* Redis SET of the copy under the revision that the caller has read, until the
\* session expires.
SaveSession(s, r) ==
  cache' = [cache EXCEPT ![s] = [value |-> r.value, exp |-> rows[s].expires]]

CacheNewSession(l) ==
  /\ pc[l] = "save"
  /\ IF rows[l].expires > now
       THEN SaveSession(l, rev[l]) /\ Goto(l, "clear")
       ELSE UNCHANGED cache /\ Goto(l, "undo")
  /\ UNCHANGED <<now, rows, secret, tomb, revision, attempts, local, dead>>

\* The session could not be cached: its row is deleted and the login fails.
UndoSession(l) ==
  /\ pc[l] = "undo"
  /\ rows' = [rows EXCEPT ![l].exists = FALSE]
  /\ Goto(l, "failed")
  /\ UNCHANGED <<now, secret, redis, local, dead>>

ClearLoginAttempts(l) ==
  /\ pc[l] = "clear"
  /\ attempts' = [n |-> 0, exp |-> 0]
  /\ Goto(l, "done")
  /\ UNCHANGED <<now, rows, secret, cache, tomb, revision, local, dead>>

LoginStep(l) ==
  \/ RegisterLoginAttempt(l) \/ VerifyCredentials(l) \/ RevisionStep(l)
  \/ CreateAdminSession(l) \/ CacheNewSession(l) \/ UndoSession(l) \/ ClearLoginAttempts(l)

----------------------------------------------------------------------------
(* loadSession: what every authenticated request runs.                     *)

\* LoadSession looks at the tombstone first.
LoadTombstone(k) ==
  /\ pc[k] = "begin" /\ MayBegin
  /\ \E s \in Issued :
       /\ token' = [token EXCEPT ![k] = s]
       /\ late' = [late EXCEPT ![k] = s \in dead]
       /\ Goto(k, IF tomb[s] > now THEN "rejected" ELSE "cached")
  /\ UNCHANGED <<now, rows, secret, redis, rev, copy, change, dead>>

LoadCached(k) ==
  LET c == cache[token[k]] IN
  /\ pc[k] = "cached"
  /\ IF c.exp > now
       THEN copy' = [copy EXCEPT ![k] = c.value] /\ Goto(k, "rev")
       ELSE UNCHANGED copy /\ Goto(k, "row")
  /\ UNCHANGED <<now, rows, secret, redis, token, rev, change, late, dead>>

\* loadDatabaseSessionWithRevision after a miss, loadDatabaseSession when the
\* copy has another revision than the current one.
LoadDatabaseSession(k) ==
  /\ pc[k] \in {"row", "rowAgain"}
  /\ Goto(k, IF ~rows[token[k]].exists THEN "rejected"
             ELSE IF pc[k] = "row" THEN "rev" ELSE "restore")
  /\ UNCHANGED <<now, rows, secret, redis, local, dead>>

RevokedByRevision(s, r) == r.notBefore # 0 /\ rows[s].created <= r.notBefore

Refused(k) == RevokedByRevision(token[k], rev[k]) \/ rows[token[k]].expires <= now

RestoreDatabaseSession(k) ==
  /\ pc[k] = "restore"
  /\ IF Refused(k)
       THEN UNCHANGED cache /\ Goto(k, "drop")
       ELSE SaveSession(token[k], rev[k]) /\ Goto(k, "expiry")
  /\ UNCHANGED <<now, rows, secret, tomb, revision, attempts, local, dead>>

\* An expired session is revoked and deleted; otherwise the administrator is
\* loaded and the request goes on.
CheckExpiry(k) ==
  /\ pc[k] = "expiry"
  /\ Goto(k, IF rows[token[k]].expires > now THEN "accepted" ELSE "revoke")
  /\ UNCHANGED <<now, rows, secret, redis, local, dead>>

CheckStep(k) ==
  \/ LoadTombstone(k) \/ LoadCached(k) \/ LoadDatabaseSession(k) \/ RevisionStep(k)
  \/ RestoreDatabaseSession(k) \/ CheckExpiry(k)

----------------------------------------------------------------------------
(* RevokeSession, then the deletion of the row: Logout, and loadSession    *)
(* when it finds an expired session.                                       *)

WriteTombstone(s) ==
  /\ tomb' = [tomb EXCEPT ![s] = now + SessionTTL]
  /\ UNCHANGED <<cache, revision, attempts>>

\* Mutant: only the copy and the row are removed.
LogoutWithoutTombstone(o) ==
  /\ pc[o] = "begin" /\ MayBegin
  /\ \E s \in Issued : token' = [token EXCEPT ![o] = s] /\ dead' = dead \cup {s}
  /\ Goto(o, "uncache")
  /\ UNCHANGED <<now, rows, secret, redis, rev, copy, change, late>>

Logout(o) ==
  /\ pc[o] = "begin" /\ MayBegin
  /\ \E s \in Issued :
       /\ token' = [token EXCEPT ![o] = s]
       /\ WriteTombstone(s)
       /\ dead' = dead \cup {s}
  /\ Goto(o, "uncache")
  /\ UNCHANGED <<now, rows, secret, rev, copy, change, late>>

RevokeExpired(k) ==
  /\ pc[k] = "revoke"
  /\ WriteTombstone(token[k])
  /\ Goto(k, "uncache")
  /\ UNCHANGED <<now, rows, secret, local, dead>>

DeleteCached(p) ==
  /\ pc[p] = "uncache"
  /\ cache' = [cache EXCEPT ![token[p]] = [value |-> None, exp |-> 0]]
  /\ Goto(p, "drop")
  /\ UNCHANGED <<now, rows, secret, tomb, revision, attempts, local, dead>>

AfterDrop(p) == IF p \in Checks THEN "rejected" ELSE "done"

DeleteRow(p) ==
  /\ pc[p] = "drop"
  /\ rows' = [rows EXCEPT ![token[p]].exists = FALSE]
  /\ Goto(p, AfterDrop(p))
  /\ UNCHANGED <<now, secret, redis, local, dead>>

RevokeStep(p) == RevokeExpired(p) \/ DeleteCached(p) \/ DeleteRow(p)

----------------------------------------------------------------------------
(* ChangePassword, ChangeEmail and DisableTOTP: rotate the revision, write *)
(* the credentials, delete the rows.                                       *)

\* The administrator has verified the current credentials and the clock is read.
BeginChange(c) ==
  /\ pc[c] = "begin" /\ MayBegin
  /\ change' = [change EXCEPT ![c] = [notBefore |-> now, old |-> Issued]]
  /\ Goto(c, "rotate")
  /\ UNCHANGED <<now, rows, secret, redis, token, rev, copy, late, dead>>

\* The sessions that existed when the oldest change still running began.
Ended == {l \in Logins : \A c \in Changes :
                           pc[c] \in {"rotate", "update", "dropAll"} => l \in change[c].old}

RotateSessionRevision(c) ==
  /\ pc[c] = "rotate"
  /\ revision' = [value |-> c, notBefore |-> change[c].notBefore]
  /\ dead' = dead \cup Ended
  /\ Goto(c, "update")
  /\ UNCHANGED <<now, rows, secret, cache, tomb, attempts, local>>

UpdateAdmin(c) ==
  /\ pc[c] = "update"
  /\ secret' = c
  /\ Goto(c, "dropAll")
  /\ UNCHANGED <<now, rows, redis, local, dead>>

DeleteAdminSessions(c) ==
  /\ pc[c] = "dropAll"
  /\ rows' = [l \in Logins |-> [rows[l] EXCEPT !.exists = FALSE]]
  /\ Goto(c, "done")
  /\ UNCHANGED <<now, secret, redis, local, dead>>

ChangeStep(c) ==
  \/ BeginChange(c) \/ RotateSessionRevision(c) \/ UpdateAdmin(c) \/ DeleteAdminSessions(c)

----------------------------------------------------------------------------
(* Calls that fail.  Their effect may have taken place or not; here are    *)
(* the outcomes that differ from a success.                                *)

\* SETNX creates the first revision, but its caller does not learn of it.
RevisionCreatedUnseen(p) ==
  /\ pc[p] = "revNX" /\ revision.value = None
  /\ revision' = [value |-> p, notBefore |-> 0]
  /\ UNCHANGED <<rows, cache, tomb, attempts>>

\* A check fails closed on every error but those of the clean-up it ignores.
CheckFails(k) ==
  /\ pc[k] \in CheckSteps \ {"begin", "accepted", "rejected"}
  /\ \/ UNCHANGED <<rows, redis>>
     \/ RevisionCreatedUnseen(k)
     \/ /\ pc[k] = "restore" /\ ~Refused(k)
        /\ SaveSession(token[k], rev[k]) /\ UNCHANGED <<rows, tomb, revision, attempts>>
     \/ pc[k] = "revoke" /\ WriteTombstone(token[k]) /\ UNCHANGED rows
  /\ Goto(k, IF pc[k] \in {"revoke", "uncache"} THEN "drop" ELSE "rejected")
  /\ UNCHANGED <<now, secret, local, dead>>

\* A login whose copy could not be saved deletes its row, if it can.
LoginFails(l) ==
  /\ pc[l] \in LoginSteps \ {"done", "failed"}
  /\ pc[l] = "register" => MayBegin
  /\ \/ UNCHANGED <<rows, redis>>
     \/ RevisionCreatedUnseen(l)
     \/ pc[l] = "create" /\ InsertSession(l) /\ UNCHANGED redis
     \/ pc[l] = "save" /\ SaveSession(l, rev[l]) /\ UNCHANGED <<rows, tomb, revision, attempts>>
     \/ /\ pc[l] = "register" /\ attempts' = AddWindow(attempts, AttemptWindow, now)
        /\ UNCHANGED <<rows, cache, tomb, revision>>
  /\ Goto(l, CASE pc[l] = "save"  -> "undo"
               [] pc[l] = "clear" -> "done"
               [] OTHER           -> "failed")
  /\ UNCHANGED <<now, secret, local, dead>>

\* A logout ends with an error unless only the copy could not be deleted.
LogoutFails(o) ==
  /\ \/ /\ pc[o] = "begin" /\ MayBegin
        /\ \E s \in Issued : WriteTombstone(s)
        /\ Goto(o, "done")
     \/ pc[o] = "uncache" /\ UNCHANGED redis /\ Goto(o, "drop")
     \/ pc[o] = "drop" /\ UNCHANGED redis /\ Goto(o, "done")
  /\ UNCHANGED <<now, rows, secret, local, dead>>

\* A change stops where it fails, its earlier steps stay.
ChangeFails(c) ==
  /\ pc[c] \in {"rotate", "update", "dropAll"}
  /\ \/ pc[c] = "rotate" /\ UNCHANGED secret
          /\ revision' = [value |-> c, notBefore |-> change[c].notBefore]
          /\ dead' = dead \cup Ended
     \/ pc[c] = "update" /\ secret' = c /\ UNCHANGED <<revision, dead>>
     \/ UNCHANGED <<secret, revision, dead>>
  /\ Goto(c, "done")
  /\ UNCHANGED <<now, rows, cache, tomb, attempts, local>>

CallFails ==
  /\ faults < MaxFaults
  /\ faults' = faults + 1
  /\ \/ \E l \in Logins : LoginFails(l)
     \/ \E k \in Checks : CheckFails(k)
     \/ \E o \in Logouts : LogoutFails(o)
     \/ \E c \in Changes : ChangeFails(c)

----------------------------------------------------------------------------
\* Mutant: the clean-up takes sessions that are about to expire.
DeleteExpiringSessions ==
  /\ \E l \in Logins : rows[l].exists /\ rows[l].expires <= now + 1
  /\ rows' = [l \in Logins |-> [rows[l] EXCEPT !.exists = @ /\ rows[l].expires > now + 1]]
  /\ UNCHANGED <<now, secret, redis, pc, local, dead>>

\* The hourly clean-up deletes the rows that have expired.
DeleteExpiredSessions ==
  /\ \E l \in Logins : rows[l].exists /\ rows[l].expires <= now
  /\ rows' = [l \in Logins |-> [rows[l] EXCEPT !.exists = @ /\ rows[l].expires > now]]
  /\ UNCHANGED <<now, secret, redis, pc, local, dead>>

\* Redis drops the copy of a session; tombstones and revisions it keeps.
LoseCopy ==
  /\ \E l \in Logins : cache[l].exp > now
       /\ cache' = [cache EXCEPT ![l] = [value |-> None, exp |-> 0]]
  /\ UNCHANGED <<now, rows, secret, tomb, revision, attempts, pc, local, dead>>

Tick ==
  /\ now < MaxTime
  /\ now' = now + 1
  /\ UNCHANGED <<rows, secret, redis, pc, local, dead>>

Next ==
  \/ /\ \/ \E l \in Logins : LoginStep(l)
        \/ \E k \in Checks : CheckStep(k) \/ RevokeStep(k)
        \/ \E o \in Logouts : Logout(o) \/ RevokeStep(o)
        \/ \E c \in Changes : ChangeStep(c)
        \/ DeleteExpiredSessions \/ LoseCopy \/ Tick
     /\ UNCHANGED faults
  \/ CallFails

Spec == Init /\ [][Next]_vars

----------------------------------------------------------------------------
\* A session that a logout has ended, or that existed when a change of the
\* credentials began, is never accepted by a request that comes later: neither a
\* copy saved late, nor a row not yet deleted, nor an expired tombstone brings it
\* back.
RevokedStaysRevoked == \A k \in Checks : pc[k] = "accepted" => ~late[k]

\* As long as no call has failed and no change has begun, a request is rejected only
\* because its session was logged out or has expired: losing the copy, cleaning up
\* rows or creating the first revision concurrently never ends a session.
NoSpuriousRejection ==
  faults = 0 /\ (\A c \in Changes : pc[c] = "begin") =>
    \A k \in Checks : pc[k] = "rejected" =>
      token[k] \in dead \/ rows[token[k]].expires <= now

\* Callers that create the first revision concurrently go on with the same one, so
\* the copy of a session just issued is not stale from the start.
OneFirstRevision ==
  \A p, q \in Holders :
    rev[p].value \in Holders /\ rev[q].value \in Holders => rev[p] = rev[q]

\* The state is well formed, callers agree on the first revision, and so no session ends
\* without a reason.
SessionsConsistent == TypeOK /\ OneFirstRevision /\ NoSpuriousRejection
=============================================================================
