------------------------ MODULE AdminSessionsProofs ------------------------
(***************************************************************************)
(* The invariants of AdminSessions, for any number of logins, checks,      *)
(* logouts and changes of the credentials.                                 *)
(*                                                                         *)
(* A session that was logged out has a tombstone that outlives it.  A      *)
(* session that existed when a change began is never cached under the      *)
(* revision of that change, and each revision written after the change's   *)
(* belongs to one it existed for as well: a copy of it is stale, and its   *)
(* row is older than the revision.                                         *)
(***************************************************************************)
EXTENDS AdminSessions, TLAPS

\* The change has written its revision, or has failed.
Begun(c) == pc[c] \notin {"begin", "rotate"}

\* Clocks: nothing lies in the future, and nothing outlives a tombstone written now.
Clocks ==
  /\ now >= 1
  /\ \A l \in Logins : /\ rows[l].created <= now /\ rows[l].expires <= now + SessionTTL
                       /\ tomb[l] <= now + SessionTTL
  /\ \A c \in Changes : pc[c] # "begin" => change[c].notBefore >= 1
  /\ \A c \in Changes : \A l \in change[c].old : pc[l] = "done" /\ rows[l].created <= change[c].notBefore

\* A revision that was read or is stored: whose it is, and what it ends.
Genuine(r) ==
  /\ r.value \in Changes => Begun(r.value) /\ r.notBefore = change[r.value].notBefore
  /\ r.value \notin Changes => r.notBefore = 0
Revisions ==
  /\ Genuine(revision) /\ \A p \in Holders : Genuine(rev[p])
  /\ \A l \in Logins : cache[l].value \in Changes => Begun(cache[l].value)
  /\ \A k \in Checks : copy[k] \in Changes => Begun(copy[k])

\* No copy of a session carries the revision of a change the session existed for.
Fresh ==
  /\ \A l \in Logins : /\ cache[l].value \in Changes => l \notin change[cache[l].value].old
                       /\ rev[l].value \in Changes => l \notin change[rev[l].value].old
  /\ \A k \in Checks : copy[k] \in Changes => token[k] \notin change[copy[k]].old

\* The token a process is about was issued, and stays so.
Tokens ==
  /\ \A k \in Checks : /\ pc[k] # "begin" => token[k] \in Issued
                       /\ pc[k] \in {"begin", "cached"} => copy[k] = None
  /\ \A o \in Logouts : pc[o] \notin {"begin", "done"} => token[o] \in Issued
  /\ \A l \in Logins : tomb[l] > 0 => l \in Issued

\* A revision ends s: it is of a change that s existed for.
Ends(r, s) == r.value \in Changes /\ s \in change[r.value].old

\* A session has ended: its tombstone outlives it, or the current revision and those to come end it.
LoggedOut(s) == rows[s].expires <= tomb[s]
ChangedAway(s) == Ends(revision, s) /\ \A c \in Changes : pc[c] = "rotate" => s \in change[c].old
Ending == \A s \in dead : s \in Issued /\ (LoggedOut(s) \/ ChangedAway(s))

\* A check that came too late finds the session expired, or a revision that ends it.
Late ==
  \A k \in Checks : late[k] /\ pc[k] \notin {"begin", "rejected"} =>
    /\ token[k] \in dead /\ pc[k] # "accepted"
    /\ \/ rows[token[k]].expires <= now
       \/ /\ ChangedAway(token[k])
          /\ pc[k] \in {"cached", "row", "rev", "revNX", "revGet", "rowAgain", "restore", "drop"}
          /\ pc[k] \in {"rowAgain", "restore"} => Ends(rev[k], token[k])

\* There is one first revision, and whoever has read it has read this one.
FirstRevision ==
  /\ \A p \in Holders : rev[p].value \in Holders =>
       revision.value # None /\ (revision.value \in Holders => revision = rev[p])
  /\ OneFirstRevision

\* A session that is not used any more, for a reason.
Over(s) == s \in dead \/ rows[s].expires <= now

\* While no call has failed and no change has begun, a session ends for a reason only.
Reasons ==
  faults = 0 /\ (\A c \in Changes : pc[c] = "begin") =>
    /\ \A l \in Logins : /\ tomb[l] > now => Over(l)
                         /\ pc[l] \in {"save", "clear", "done"} => rows[l].exists \/ Over(l)
    /\ \A k \in Checks : pc[k] \in {"revoke", "uncache", "drop", "rejected"} => Over(token[k])
    /\ \A o \in Logouts : pc[o] \in {"uncache", "drop"} => token[o] \in dead

\* The inductive invariant.
SessionInv ==
  /\ TypeOK /\ Clocks /\ Revisions /\ Fresh /\ Tokens /\ Ending /\ Late /\ FirstRevision /\ Reasons

----------------------------------------------------------------------------
(* The state's types, process by process.                                  *)

LEMMA Apart ==
  /\ \A l \in Logins : l \in Procs /\ l \in Holders /\ l \notin Checks /\ l \notin Logouts /\ l \notin Changes
  /\ \A k \in Checks : k \in Procs /\ k \in Holders /\ k \notin Logins /\ k \notin Logouts /\ k \notin Changes
  /\ \A o \in Logouts : o \in Procs /\ o \notin Logins /\ o \notin Checks /\ o \notin Changes
  /\ \A c \in Changes : c \in Procs /\ c \notin Logins /\ c \notin Checks /\ c \notin Logouts /\ c \notin Holders
  /\ None \notin Holders /\ None \notin Changes /\ None \notin Logins
  /\ SessionTTL \in Nat /\ SessionTTL > 0 /\ AttemptWindow \in Nat /\ MaxFaults \in Nat
BY SessionAssumption DEF Procs, Holders

StepsOf(p) == CASE p \in Logins  -> LoginSteps
                [] p \in Checks  -> CheckSteps
                [] p \in Logouts -> LogoutSteps
                [] OTHER         -> ChangeSteps

AllSteps == LoginSteps \cup CheckSteps \cup LogoutSteps \cup ChangeSteps
PcTyped  == pc \in [Procs -> AllSteps] /\ \A p \in Procs : pc[p] \in StepsOf(p)

LEMMA StepsOfEach ==
  /\ \A l \in Logins : StepsOf(l) = LoginSteps
  /\ \A k \in Checks : StepsOf(k) = CheckSteps
  /\ \A o \in Logouts : StepsOf(o) = LogoutSteps
  /\ \A c \in Changes : StepsOf(c) = ChangeSteps
  /\ \A p \in Procs : StepsOf(p) \subseteq AllSteps
<1>1. /\ \A l \in Logins : StepsOf(l) = LoginSteps
      /\ \A k \in Checks : StepsOf(k) = CheckSteps
      /\ \A o \in Logouts : StepsOf(o) = LogoutSteps
      /\ \A c \in Changes : StepsOf(c) = ChangeSteps
  BY Apart DEF StepsOf
<1>2. \A p \in Procs : StepsOf(p) \subseteq AllSteps
  BY <1>1 DEF AllSteps, Procs
<1> QED
  BY <1>1, <1>2

LEMMA Typed ==
  ASSUME TypeOK
  PROVE  /\ PcTyped
         /\ \A l \in Logins : pc[l] \in LoginSteps
         /\ \A k \in Checks : pc[k] \in CheckSteps
         /\ \A o \in Logouts : pc[o] \in LogoutSteps
         /\ \A c \in Changes : pc[c] \in ChangeSteps
         /\ \A l \in Logins : /\ rows[l].created \in Nat /\ rows[l].expires \in Nat /\ rows[l].exists \in BOOLEAN
                              /\ tomb[l] \in Nat /\ cache[l].exp \in Nat
                              /\ cache[l].value \in Holders \cup Changes \cup {None}
         /\ \A p \in Holders : rev[p] \in Revision /\ rev[p].notBefore \in Nat
         /\ \A c \in Changes : change[c].notBefore \in Nat /\ change[c].old \subseteq Logins
         /\ revision.notBefore \in Nat
<1>1. PcTyped
  BY DEF TypeOK, PcTyped, StepsOf, AllSteps
<1>2. /\ \A l \in Logins : pc[l] \in LoginSteps
      /\ \A k \in Checks : pc[k] \in CheckSteps
      /\ \A o \in Logouts : pc[o] \in LogoutSteps
      /\ \A c \in Changes : pc[c] \in ChangeSteps
  BY <1>1, StepsOfEach, Apart DEF PcTyped
<1>3. \A l \in Logins : /\ rows[l].created \in Nat /\ rows[l].expires \in Nat /\ rows[l].exists \in BOOLEAN
                        /\ tomb[l] \in Nat /\ cache[l].exp \in Nat
                        /\ cache[l].value \in Holders \cup Changes \cup {None}
  BY DEF TypeOK
<1>4. \A p \in Holders : rev[p] \in Revision /\ rev[p].notBefore \in Nat
  BY DEF TypeOK, Revision
<1>5. \A c \in Changes : change[c].notBefore \in Nat /\ change[c].old \subseteq Logins
  BY DEF TypeOK
<1>6. revision.notBefore \in Nat
  BY DEF TypeOK, Revision
<1> QED
  BY <1>1, <1>2, <1>3, <1>4, <1>5, <1>6

\* What a process that goes on does to the control state.
LEMMA Going ==
  ASSUME TypeOK, NEW p \in Procs, NEW step, Goto(p, step)
  PROVE  /\ pc'[p] = step
         /\ \A q \in Procs : q # p => pc'[q] = pc[q]
         /\ step \in StepsOf(p) => PcTyped'
<1>1. pc \in [Procs -> AllSteps] /\ (\A q \in Procs : pc[q] \in StepsOf(q)) /\ pc' = [pc EXCEPT ![p] = step]
  BY Typed DEF Goto, PcTyped
<1>2. pc'[p] = step /\ \A q \in Procs : q # p => pc'[q] = pc[q]
  BY <1>1
<1>3. ASSUME step \in StepsOf(p) PROVE PcTyped'
  <2>1. step \in AllSteps
    BY <1>3, StepsOfEach
  <2>2. \A q \in Procs : pc'[q] \in StepsOf(q)
    BY <1>1, <1>2, <1>3
  <2>3. pc' \in [Procs -> AllSteps]
    BY <1>1, <2>1
  <2> QED
    BY <2>2, <2>3 DEF PcTyped, StepsOf
<1> QED
  BY <1>2, <1>3

----------------------------------------------------------------------------
(* TypeOK is kept.                                                         *)

\* The types of all but the control state.
DataTyped ==
  /\ now \in Nat
  /\ rows \in [Logins -> [exists : BOOLEAN, created : Nat, expires : Nat]]
  /\ secret \in Changes \cup {First}
  /\ cache \in [Logins -> [value : Holders \cup Changes \cup {None}, exp : Nat]]
  /\ tomb \in [Logins -> Nat]
  /\ revision \in Revision
  /\ attempts \in [n : Nat, exp : Nat]
  /\ token \in [Checks \cup Logouts -> Logins \cup {None}]
  /\ rev \in [Holders -> Revision]
  /\ copy \in [Checks -> Holders \cup Changes \cup {None}]
  /\ change \in [Changes -> [notBefore : Nat, old : SUBSET Logins]]
  /\ dead \in SUBSET Logins
  /\ late \in [Checks -> BOOLEAN]
  /\ faults \in 0..MaxFaults

LEMMA TypeParts == TypeOK <=> DataTyped /\ PcTyped
BY DEF TypeOK, DataTyped, PcTyped, StepsOf, AllSteps

LEMMA TypeInit == Init => TypeOK
<1> SUFFICES ASSUME Init PROVE TypeOK
  OBVIOUS
<1>1. DataTyped
  BY SessionAssumption, Apart DEF Init, DataTyped, Revision, NoRevision
<1>2. PcTyped
  <2>1. \A p \in Procs : pc[p] = IF p \in Logins THEN "register" ELSE "begin"
    BY DEF Init
  <2>2. \A p \in Procs : pc[p] \in StepsOf(p)
    <3> SUFFICES ASSUME NEW p \in Procs PROVE pc[p] \in StepsOf(p)
      OBVIOUS
    <3>1. CASE p \in Logins
      BY <2>1, <3>1, StepsOfEach DEF LoginSteps
    <3>2. CASE p \in Checks
      BY <2>1, <3>2, StepsOfEach, Apart DEF CheckSteps
    <3>3. CASE p \in Logouts
      BY <2>1, <3>3, StepsOfEach, Apart DEF LogoutSteps
    <3>4. CASE p \in Changes
      BY <2>1, <3>4, StepsOfEach, Apart DEF ChangeSteps
    <3> QED
      BY <3>1, <3>2, <3>3, <3>4 DEF Procs
  <2> QED
    BY <2>2, StepsOfEach DEF Init, PcTyped
<1> QED
  BY <1>1, <1>2, TypeParts

\* Where the reading of the revision leads.
LEMMA ReadRevision ==
  ASSUME TypeOK, NEW p \in Holders, NEW r \in Revision, WithRevision(p, r)
  PROVE  /\ rev' = [rev EXCEPT ![p] = r]
         /\ \A q \in Procs : q # p => pc'[q] = pc[q]
         /\ p \in Logins => pc'[p] = "create"
         /\ p \in Checks => /\ copy[p] = None => pc'[p] = "restore"
                            /\ copy[p] # None /\ copy[p] = r.value => pc'[p] = "expiry"
                            /\ copy[p] # None /\ copy[p] # r.value => pc'[p] = "rowAgain"
         /\ PcTyped'
<1> DEFINE next == IF p \in Logins THEN "create"
                   ELSE IF copy[p] = None THEN "restore"
                   ELSE IF copy[p] = r.value THEN "expiry" ELSE "rowAgain"
<1>1. rev' = [rev EXCEPT ![p] = r] /\ Goto(p, next) /\ p \in Procs
  BY DEF WithRevision, Holders, Procs
<1>2. p \in Logins => next = "create"
  OBVIOUS
<1>3. p \notin Logins => /\ copy[p] = None => next = "restore"
                         /\ copy[p] # None /\ copy[p] = r.value => next = "expiry"
                         /\ copy[p] # None /\ copy[p] # r.value => next = "rowAgain"
  OBVIOUS
<1> HIDE DEF next
<1>4. next \in StepsOf(p)
  <2>1. CASE p \in Logins
    BY <2>1, <1>2, StepsOfEach DEF LoginSteps
  <2>2. CASE p \in Checks
    BY <2>2, <1>3, StepsOfEach, Apart DEF CheckSteps
  <2> QED
    BY <2>1, <2>2 DEF Holders
<1> QED
  BY <1>1, <1>2, <1>3, <1>4, Going, Apart

----------------------------------------------------------------------------
(* What a step may do to each part of the state, whatever its action.      *)

RowsEffect == \A l \in Logins :
  /\ rows'[l].created = rows[l].created \/ (pc[l] = "create" /\ rows'[l].created = now)
  /\ rows'[l].expires = rows[l].expires \/ (pc[l] = "verify" /\ rows'[l].expires = now + SessionTTL)

TombEffect == \A l \in Logins : tomb'[l] = tomb[l] \/ (l \in Issued /\ tomb'[l] = now + SessionTTL)

\* A copy is written by its login, or by a check that does not refuse its row.
CacheEffect == \A l \in Logins :
  \/ cache'[l].value \in {cache[l].value, rev[l].value, None}
  \/ \E k \in Checks : token[k] = l /\ ~Refused(k) /\ cache'[l].value = rev[k].value

RevisionEffect ==
  \/ revision' = revision
  \/ \E p \in Holders : revision.value = None /\ revision' = [value |-> p, notBefore |-> 0]
  \/ \E c \in Changes : /\ pc[c] = "rotate" /\ pc'[c] \in {"update", "done"}
                        /\ revision' = [value |-> c, notBefore |-> change[c].notBefore]

ReadEffect == \A p \in Holders :
  rev'[p] = rev[p] \/ (rev'[p] = revision' /\ pc'[p] # "done")

ChangeEffect == \A c \in Changes :
  \/ change'[c] = change[c] /\ (pc'[c] = pc[c] \/ (pc[c] # "begin" /\ pc'[c] \notin {"begin", "rotate"}))
  \/ pc[c] = "begin" /\ pc'[c] = "rotate" /\ change'[c] = [notBefore |-> now, old |-> Issued]

IssuedEffect == \A l \in Logins : pc[l] = "done" => pc'[l] = "done"

TokenEffect == \A k \in Checks :
  \/ /\ (pc'[k] = "begin" <=> pc[k] = "begin") /\ (pc'[k] = "cached" => pc[k] = "cached")
     /\ token'[k] = token[k] /\ late'[k] = late[k]
     /\ copy'[k] = copy[k] \/ (pc[k] = "cached" /\ pc'[k] = "rev" /\ copy'[k] = cache[token[k]].value)
  \/ /\ pc[k] = "begin" /\ pc'[k] \in {"cached", "rejected"} /\ token'[k] \in Issued
     /\ late'[k] = (token'[k] \in dead) /\ copy'[k] = copy[k]
     /\ pc'[k] = "cached" => tomb[token'[k]] <= now

DeadEffect ==
  \/ dead' = dead
  \/ \E s \in Issued : dead' = dead \cup {s} /\ tomb'[s] = now + SessionTTL
  \/ \E c \in Changes : /\ pc[c] = "rotate" /\ pc'[c] # "rotate" /\ dead' = dead \cup Ended
                        /\ revision' = [value |-> c, notBefore |-> change[c].notBefore]

\* A logout clears up what it has ended.
LogoutEffect == \A o \in Logouts : pc'[o] \in {"uncache", "drop"} =>
  \/ pc[o] \in {"uncache", "drop"} /\ token'[o] = token[o]
  \/ token'[o] \in Issued /\ token'[o] \in dead'

Effect ==
  /\ now' \in {now, now + 1}
  /\ RowsEffect /\ TombEffect /\ CacheEffect /\ RevisionEffect /\ ReadEffect
  /\ ChangeEffect /\ IssuedEffect /\ TokenEffect /\ LogoutEffect /\ DeadEffect

\* No check begins.
CheckWaits == \A k \in Checks : /\ pc'[k] = "begin" <=> pc[k] = "begin"
                                /\ pc'[k] = "cached" => pc[k] = "cached"

\* A part of the state that an action leaves alone.
LEMMA Frame ==
  /\ UNCHANGED rows => RowsEffect
  /\ UNCHANGED tomb => TombEffect
  /\ UNCHANGED cache => CacheEffect
  /\ UNCHANGED revision => RevisionEffect
  /\ UNCHANGED rev => ReadEffect
  /\ UNCHANGED change /\ (\A c \in Changes : pc'[c] = pc[c]) => ChangeEffect
  /\ (\A l \in Logins : pc[l] = "done" => pc'[l] = pc[l]) => IssuedEffect
  /\ UNCHANGED <<token, late, copy>> /\ CheckWaits => TokenEffect
  /\ UNCHANGED dead => DeadEffect
  /\ (\A o \in Logouts : pc'[o] = pc[o] /\ token'[o] = token[o]) => LogoutEffect
<1>1. UNCHANGED rows => RowsEffect
  BY DEF RowsEffect
<1>2. UNCHANGED tomb => TombEffect
  BY DEF TombEffect
<1>3. UNCHANGED cache => CacheEffect
  BY DEF CacheEffect
<1>4. UNCHANGED revision => RevisionEffect
  BY DEF RevisionEffect
<1>5. UNCHANGED rev => ReadEffect
  BY DEF ReadEffect
<1>6. UNCHANGED change /\ (\A c \in Changes : pc'[c] = pc[c]) => ChangeEffect
  BY DEF ChangeEffect
<1>7. (\A l \in Logins : pc[l] = "done" => pc'[l] = pc[l]) => IssuedEffect
  BY DEF IssuedEffect
<1>8. UNCHANGED <<token, late, copy>> /\ CheckWaits => TokenEffect
  BY DEF TokenEffect, CheckWaits
<1>9. UNCHANGED dead => DeadEffect
  BY DEF DeadEffect
<1>10. (\A o \in Logouts : pc'[o] = pc[o] /\ token'[o] = token[o]) => LogoutEffect
  BY DEF LogoutEffect
<1> QED
  BY <1>1, <1>2, <1>3, <1>4, <1>5, <1>6, <1>7, <1>8, <1>9, <1>10

\* A login goes on: nothing else does.
LEMMA LoginGoing ==
  ASSUME TypeOK, NEW l \in Logins, NEW step, Goto(l, step), step \in LoginSteps, pc[l] # "done",
         UNCHANGED <<token, late, copy, change>>
  PROVE  PcTyped' /\ ChangeEffect /\ IssuedEffect /\ TokenEffect /\ LogoutEffect /\ pc'[l] = step
BY Going, StepsOfEach, Apart, Frame DEF CheckWaits

\* What may be written to a row, and to a copy.
Row  == [exists : BOOLEAN, created : Nat, expires : Nat]
Copy == [value : Holders \cup Changes \cup {None}, exp : Nat]

LEMMA RowValues ==
  ASSUME NEW r \in Row, now \in Nat, NEW b \in BOOLEAN
  PROVE  [r EXCEPT !.exists = b] \in Row /\ [r EXCEPT !.created = now] \in Row
BY DEF Row

LEMMA RowWritten ==
  ASSUME rows \in [Logins -> Row], now \in Nat, NEW s \in Logins
  PROVE  /\ [rows EXCEPT ![s].exists = FALSE] \in [Logins -> Row]
         /\ [rows EXCEPT ![s].exists = TRUE, ![s].created = now] \in [Logins -> Row]
<1>1. [rows EXCEPT ![s].exists = FALSE] \in [Logins -> Row]
  BY RowValues
<1>2. [rows EXCEPT ![s].exists = TRUE] \in [Logins -> Row]
  BY RowValues
<1>3. [rows EXCEPT ![s].exists = TRUE, ![s].created = now] \in [Logins -> Row]
  BY <1>2, RowValues
<1> QED
  BY <1>1, <1>3

LEMMA CopyWritten ==
  ASSUME DataTyped, NEW s \in Logins, NEW p \in Holders, SaveSession(s, rev[p])
  PROVE  /\ cache' \in [Logins -> Copy]
         /\ cache'[s].value = rev[p].value
         /\ \A l \in Logins : l # s => cache'[l] = cache[l]
<1> DEFINE r == [value |-> rev[p].value, exp |-> rows[s].expires]
<1>1. rev[p] \in Revision /\ rows[s].expires \in Nat
  BY DEF DataTyped
<1>2. rev[p].value \in Holders \cup Changes \cup {None}
  BY <1>1 DEF Revision
<1>3. r \in Copy /\ r.value = rev[p].value
  BY <1>1, <1>2 DEF Copy
<1>4. cache \in [Logins -> Copy] /\ cache' = [cache EXCEPT ![s] = r]
  BY DEF DataTyped, Copy, SaveSession
<1> HIDE DEF r
<1> QED
  BY <1>3, <1>4

LEMMA WindowTyped ==
  ASSUME NEW w \in [n : Nat, exp : Nat], now \in Nat
  PROVE  AddWindow(w, AttemptWindow, now) \in [n : Nat, exp : Nat]
<1>1. CASE w.exp > now
  <2>1. AddWindow(w, AttemptWindow, now) = [w EXCEPT !.n = w.n + 1] /\ w.n + 1 \in Nat
    BY <1>1 DEF AddWindow
  <2> QED
    BY <2>1
<1>2. CASE ~(w.exp > now)
  BY <1>2, Apart DEF AddWindow
<1> QED
  BY <1>1, <1>2

\* A check goes on once it has begun: it keeps its token.
LEMMA CheckGoing ==
  ASSUME TypeOK, NEW k \in Checks, NEW step, Goto(k, step), step \in CheckSteps \ {"begin", "cached"}, pc[k] # "begin",
         UNCHANGED <<token, late, copy, change>>
  PROVE  PcTyped' /\ ChangeEffect /\ IssuedEffect /\ TokenEffect /\ LogoutEffect /\ pc'[k] = step
BY Going, StepsOfEach, Apart, Frame DEF CheckWaits

LEMMA ReadEffects ==
  ASSUME TypeOK, NEW p \in Holders, pc[p] \in {"rev", "revNX", "revGet"}, NEW r \in Revision,
         WithRevision(p, r), revision' = r, UNCHANGED <<token, late, copy, change>>
  PROVE  /\ PcTyped' /\ ChangeEffect /\ IssuedEffect /\ TokenEffect /\ LogoutEffect /\ ReadEffect
         /\ rev' \in [Holders -> Revision]
<1>1. /\ \A q \in Procs : q # p => pc'[q] = pc[q]
      /\ pc'[p] \in {"create", "restore", "expiry", "rowAgain"}
      /\ rev' = [rev EXCEPT ![p] = r] /\ PcTyped'
  BY ReadRevision DEF Holders
<1>2. ChangeEffect /\ IssuedEffect /\ TokenEffect /\ LogoutEffect
  <2>1. CheckWaits
    BY <1>1, Apart DEF CheckWaits
  <2>2. pc[p] # "done" /\ \A q \in Procs : pc[q] = "done" => pc'[q] = pc[q]
    BY <1>1
  <2> QED
    BY <1>1, <2>1, <2>2, Apart, Frame DEF Holders
<1>3. rev \in [Holders -> Revision]
  BY DEF TypeOK
<1>4. ReadEffect
  BY <1>1, <1>3 DEF ReadEffect
<1> QED
  BY <1>1, <1>2, <1>3, <1>4

\* The revision is to be fetched once more.
LEMMA Rereading ==
  ASSUME TypeOK, NEW p \in Holders, NEW step \in {"revNX", "revGet"}, Goto(p, step),
         pc[p] \notin {"begin", "done"}, UNCHANGED <<token, late, copy, change>>
  PROVE  PcTyped' /\ ChangeEffect /\ IssuedEffect /\ TokenEffect /\ LogoutEffect
BY LoginGoing, CheckGoing DEF Holders, LoginSteps, CheckSteps

LEMMA RevisionStepEffect ==
  ASSUME TypeOK, NEW p \in Holders, RevisionStep(p), UNCHANGED faults
  PROVE  DataTyped' /\ PcTyped' /\ Effect
<1> USE Apart, Typed, Frame
<1> DataTyped
  BY TypeParts
<1>1. CASE GetRevision(p)
  <2>1. /\ rev' \in [Holders -> Revision]
        /\ PcTyped' /\ ChangeEffect /\ IssuedEffect /\ TokenEffect /\ LogoutEffect /\ ReadEffect
    <3>1. CASE revision.value = None
      BY <1>1, <3>1, Rereading DEF GetRevision, DataTyped
    <3>2. CASE revision.value # None
      BY <1>1, <3>2, ReadEffects DEF GetRevision, DataTyped, redis
    <3> QED
      BY <3>1, <3>2
  <2>2. DataTyped'
    BY <1>1, <2>1 DEF GetRevision, DataTyped, redis
  <2> QED
    BY <1>1, <2>1, <2>2 DEF GetRevision, redis, Effect
<1>2. CASE CreateRevision(p)
  <2> DEFINE new == [value |-> p, notBefore |-> 0]
  <2>1. new \in Revision
    BY DEF Revision
  <2>2. revision' \in Revision /\ RevisionEffect
    BY <1>2, <2>1 DEF CreateRevision, DataTyped, RevisionEffect
  <2>3. /\ rev' \in [Holders -> Revision]
        /\ PcTyped' /\ ChangeEffect /\ IssuedEffect /\ TokenEffect /\ LogoutEffect /\ ReadEffect
    <3>1. CASE revision.value = None
      <4>1. WithRevision(p, new) /\ revision' = new /\ pc[p] \in {"rev", "revNX", "revGet"}
            /\ UNCHANGED <<token, late, copy, change>>
        BY <1>2, <3>1 DEF CreateRevision
      <4> HIDE DEF new
      <4> QED
        BY <4>1, <2>1, ReadEffects
    <3>2. CASE revision.value # None
      BY <1>2, <3>2, Rereading DEF CreateRevision, DataTyped
    <3> QED
      BY <3>1, <3>2
  <2>4. DataTyped'
    BY <1>2, <2>2, <2>3 DEF CreateRevision, DataTyped
  <2> QED
    BY <1>2, <2>2, <2>3, <2>4 DEF CreateRevision, Effect
<1>3. CASE GetRevisionAgain(p)
  <2>1. /\ rev' \in [Holders -> Revision]
        /\ PcTyped' /\ ChangeEffect /\ IssuedEffect /\ TokenEffect /\ LogoutEffect /\ ReadEffect
    BY <1>3, ReadEffects DEF GetRevisionAgain, DataTyped, redis
  <2>2. DataTyped'
    BY <1>3, <2>1 DEF GetRevisionAgain, DataTyped, redis
  <2> QED
    BY <1>3, <2>1, <2>2 DEF GetRevisionAgain, redis, Effect
<1> QED
  BY <1>1, <1>2, <1>3 DEF RevisionStep

LEMMA LoginEffect ==
  ASSUME TypeOK, Tokens, NEW l \in Logins, LoginStep(l), UNCHANGED faults
  PROVE  DataTyped' /\ PcTyped' /\ Effect
<1> USE Apart, Typed, Frame
<1> DataTyped
  BY TypeParts
<1>1. CASE RegisterLoginAttempt(l)
  <2>1. DataTyped'
    <3>1. attempts' \in [n : Nat, exp : Nat]
      BY <1>1, WindowTyped DEF DataTyped, RegisterLoginAttempt
    <3> QED
      BY <1>1, <3>1 DEF DataTyped, RegisterLoginAttempt, redis, local
  <2>2. PcTyped' /\ ChangeEffect /\ IssuedEffect /\ TokenEffect /\ LogoutEffect
    BY <1>1, LoginGoing DEF RegisterLoginAttempt, LoginSteps, local
  <2> QED
    BY <1>1, <2>1, <2>2 DEF RegisterLoginAttempt, local, Effect
<1>2. CASE VerifyCredentials(l)
  <2>1. DataTyped'
    <3>1. rows' \in [Logins -> [exists : BOOLEAN, created : Nat, expires : Nat]]
      BY <1>2 DEF DataTyped, VerifyCredentials
    <3> QED
      BY <1>2, <3>1 DEF DataTyped, VerifyCredentials, redis, local
  <2>2. PcTyped' /\ ChangeEffect /\ IssuedEffect /\ TokenEffect /\ LogoutEffect
    BY <1>2, LoginGoing DEF VerifyCredentials, LoginSteps, local
  <2>3. RowsEffect
    <3>1. UNCHANGED rows \/ (pc[l] = "verify" /\ rows' = [rows EXCEPT ![l].expires = now + SessionTTL])
      BY <1>2 DEF VerifyCredentials
    <3> QED
      BY <3>1 DEF DataTyped, RowsEffect
  <2> QED
    BY <1>2, <2>1, <2>2, <2>3 DEF VerifyCredentials, redis, local, Effect
<1>3. CASE RevisionStep(l)
  BY <1>3, RevisionStepEffect
<1>4. CASE CreateAdminSession(l)
  <2>1. pc[l] = "create" /\ rows' = [rows EXCEPT ![l].exists = TRUE, ![l].created = now]
    BY <1>4 DEF CreateAdminSession, InsertSession
  <2>2. DataTyped'
    <3>1. rows' \in [Logins -> [exists : BOOLEAN, created : Nat, expires : Nat]]
      BY <2>1, RowWritten DEF DataTyped, Row
    <3> QED
      BY <1>4, <3>1 DEF DataTyped, CreateAdminSession, redis, local
  <2>3. PcTyped' /\ ChangeEffect /\ IssuedEffect /\ TokenEffect /\ LogoutEffect
    BY <1>4, LoginGoing DEF CreateAdminSession, LoginSteps, local
  <2>4. RowsEffect
    BY <2>1 DEF DataTyped, RowsEffect
  <2> QED
    BY <1>4, <2>2, <2>3, <2>4 DEF CreateAdminSession, redis, local, Effect
<1>5. CASE CacheNewSession(l)
  <2>1. UNCHANGED cache \/ SaveSession(l, rev[l])
    BY <1>5 DEF CacheNewSession
  <2>2. DataTyped'
    <3>1. cache' \in [Logins -> Copy]
      BY <2>1, CopyWritten DEF DataTyped, Copy
    <3> QED
      BY <1>5, <3>1 DEF DataTyped, CacheNewSession, redis, local, Copy
  <2>3. PcTyped' /\ ChangeEffect /\ IssuedEffect /\ TokenEffect /\ LogoutEffect
    BY <1>5, LoginGoing DEF CacheNewSession, LoginSteps, local
  <2>4. CacheEffect
    <3>1. CASE SaveSession(l, rev[l])
      BY <3>1, CopyWritten DEF CacheEffect
    <3> QED
      BY <2>1, <3>1
  <2> QED
    BY <1>5, <2>2, <2>3, <2>4 DEF CacheNewSession, local, Effect
<1>6. CASE UndoSession(l)
  <2>1. rows' = [rows EXCEPT ![l].exists = FALSE]
    BY <1>6 DEF UndoSession
  <2>2. DataTyped'
    <3>1. rows' \in [Logins -> [exists : BOOLEAN, created : Nat, expires : Nat]]
      BY <2>1, RowWritten DEF DataTyped, Row
    <3> QED
      BY <1>6, <3>1 DEF DataTyped, UndoSession, redis, local
  <2>3. PcTyped' /\ ChangeEffect /\ IssuedEffect /\ TokenEffect /\ LogoutEffect
    BY <1>6, LoginGoing DEF UndoSession, LoginSteps, local
  <2>4. RowsEffect
    BY <2>1 DEF DataTyped, RowsEffect
  <2> QED
    BY <1>6, <2>2, <2>3, <2>4 DEF UndoSession, redis, local, Effect
<1>7. CASE ClearLoginAttempts(l)
  <2>1. DataTyped'
    BY <1>7 DEF DataTyped, ClearLoginAttempts, redis, local
  <2>2. PcTyped' /\ ChangeEffect /\ IssuedEffect /\ TokenEffect /\ LogoutEffect
    BY <1>7, LoginGoing DEF ClearLoginAttempts, LoginSteps, local
  <2> QED
    BY <1>7, <2>1, <2>2 DEF ClearLoginAttempts, local, Effect
<1> QED
  BY <1>1, <1>2, <1>3, <1>4, <1>5, <1>6, <1>7 DEF LoginStep

\* The token of a process that has one is a session that was issued.
LEMMA TokenIssued ==
  ASSUME TypeOK, Tokens
  PROVE  /\ \A k \in Checks : pc[k] # "begin" => token[k] \in Logins /\ token[k] \in Issued
         /\ \A o \in Logouts : pc[o] \notin {"begin", "done"} => token[o] \in Logins /\ token[o] \in Issued
BY DEF Tokens, Issued

LEMMA CheckEffect ==
  ASSUME TypeOK, Tokens, NEW k \in Checks, CheckStep(k), UNCHANGED faults
  PROVE  DataTyped' /\ PcTyped' /\ Effect
<1> USE Apart, Typed, Frame
<1> DataTyped
  BY TypeParts
<1>1. CASE LoadTombstone(k)
  <2>1. PICK s \in Issued : /\ token' = [token EXCEPT ![k] = s]
                            /\ late' = [late EXCEPT ![k] = s \in dead]
                            /\ Goto(k, IF tomb[s] > now THEN "rejected" ELSE "cached")
    BY <1>1 DEF LoadTombstone
  <2>2. s \in Logins /\ pc[k] = "begin" /\ UNCHANGED <<copy, change>>
    BY <1>1 DEF Issued, LoadTombstone
  <2>3. DataTyped'
    <3>1. token' \in [Checks \cup Logouts -> Logins \cup {None}]
      BY <2>1, <2>2 DEF DataTyped
    <3>2. late' \in [Checks -> BOOLEAN]
      <4>1. late \in [Checks -> BOOLEAN] /\ (s \in dead) \in BOOLEAN
        BY DEF DataTyped
      <4> QED
        BY <2>1, <4>1, Zenon
    <3> QED
      BY <1>1, <3>1, <3>2 DEF DataTyped, LoadTombstone, redis
  <2>4. PcTyped' /\ (\A q \in Procs : q # k => pc'[q] = pc[q])
        /\ pc'[k] = IF tomb[s] > now THEN "rejected" ELSE "cached"
    BY <2>1, Going, StepsOfEach DEF CheckSteps
  <2>5. ChangeEffect /\ IssuedEffect
    BY <2>2, <2>4
  <2>6. TokenEffect
    <3>1. /\ token'[k] = s /\ late'[k] = (s \in dead)
          /\ \A j \in Checks : j # k => token'[j] = token[j] /\ late'[j] = late[j] /\ pc'[j] = pc[j]
      <4>1. token \in [Checks \cup Logouts -> Logins \cup {None}] /\ late \in [Checks -> BOOLEAN]
        BY DEF DataTyped
      <4>2. late'[k] = (s \in dead) /\ \A j \in Checks : j # k => late'[j] = late[j]
        BY <2>1, <4>1
      <4> QED
        BY <2>1, <2>4, <4>1, <4>2
    <3>2. pc'[k] \in {"cached", "rejected"} /\ (pc'[k] = "cached" => tomb[s] <= now)
      BY <2>2, <2>4 DEF DataTyped
    <3> QED
      BY <2>2, <3>1, <3>2 DEF TokenEffect
  <2> QED
    BY <1>1, <2>3, <2>4, <2>5, <2>6 DEF LoadTombstone, redis, Effect
<1>2. CASE LoadCached(k)
  <2>1. pc[k] = "cached" /\ token[k] \in Logins
    BY <1>2, TokenIssued DEF LoadCached
  <2>2. \/ copy' = [copy EXCEPT ![k] = cache[token[k]].value] /\ Goto(k, "rev")
        \/ UNCHANGED copy /\ Goto(k, "row")
    BY <1>2 DEF LoadCached
  <2>3. copy' \in [Checks -> Holders \cup Changes \cup {None}]
    BY <2>1, <2>2 DEF DataTyped
  <2>4. DataTyped'
    BY <1>2, <2>3 DEF DataTyped, LoadCached, redis
  <2>5. /\ PcTyped' /\ (\A q \in Procs : q # k => pc'[q] = pc[q])
        /\ pc'[k] \in {"rev", "row"} /\ (UNCHANGED copy \/ pc'[k] = "rev")
    BY <2>2, Going, StepsOfEach DEF CheckSteps
  <2>6. ChangeEffect /\ IssuedEffect
    BY <1>2, <2>5 DEF LoadCached
  <2>7. TokenEffect
    BY <1>2, <2>1, <2>2, <2>5 DEF LoadCached, TokenEffect, DataTyped
  <2> QED
    BY <1>2, <2>4, <2>5, <2>6, <2>7 DEF LoadCached, redis, Effect
<1>3. CASE LoadDatabaseSession(k)
  <2>1. DataTyped'
    BY <1>3 DEF DataTyped, LoadDatabaseSession, redis, local
  <2>2. PcTyped' /\ ChangeEffect /\ IssuedEffect /\ TokenEffect /\ LogoutEffect
    BY <1>3, CheckGoing DEF LoadDatabaseSession, CheckSteps, local
  <2> QED
    BY <1>3, <2>1, <2>2 DEF LoadDatabaseSession, redis, local, Effect
<1>4. CASE RevisionStep(k)
  BY <1>4, RevisionStepEffect
<1>5. CASE RestoreDatabaseSession(k)
  <2>1. UNCHANGED cache \/ (~Refused(k) /\ SaveSession(token[k], rev[k]))
    BY <1>5 DEF RestoreDatabaseSession
  <2>2. token[k] \in Logins
    BY <1>5, TokenIssued DEF RestoreDatabaseSession
  <2>3. DataTyped'
    <3>1. cache' \in [Logins -> Copy]
      BY <2>1, <2>2, CopyWritten DEF DataTyped, Copy
    <3> QED
      BY <1>5, <3>1 DEF DataTyped, RestoreDatabaseSession, redis, local, Copy
  <2>4. PcTyped' /\ ChangeEffect /\ IssuedEffect /\ TokenEffect /\ LogoutEffect
    BY <1>5, CheckGoing DEF RestoreDatabaseSession, CheckSteps, local
  <2>5. CacheEffect
    <3>1. CASE ~Refused(k) /\ SaveSession(token[k], rev[k])
      BY <2>2, <3>1, CopyWritten DEF CacheEffect
    <3> QED
      BY <2>1, <3>1
  <2> QED
    BY <1>5, <2>3, <2>4, <2>5 DEF RestoreDatabaseSession, local, Effect
<1>6. CASE CheckExpiry(k)
  <2>1. DataTyped'
    BY <1>6 DEF DataTyped, CheckExpiry, redis, local
  <2>2. PcTyped' /\ ChangeEffect /\ IssuedEffect /\ TokenEffect /\ LogoutEffect
    BY <1>6, CheckGoing DEF CheckExpiry, CheckSteps, local
  <2> QED
    BY <1>6, <2>1, <2>2 DEF CheckExpiry, redis, local, Effect
<1> QED
  BY <1>1, <1>2, <1>3, <1>4, <1>5, <1>6 DEF CheckStep

\* A tombstone written for a session that was issued.
LEMMA TombWritten ==
  ASSUME DataTyped, NEW s \in Issued, WriteTombstone(s)
  PROVE  tomb' \in [Logins -> Nat] /\ TombEffect /\ tomb'[s] = now + SessionTTL /\ UNCHANGED <<cache, revision, attempts>>
<1>1. s \in Logins
  BY DEF Issued
<1> QED
  BY <1>1, Apart DEF DataTyped, WriteTombstone, TombEffect

\* A logout goes on.
LEMMA LogoutGoing ==
  ASSUME TypeOK, NEW o \in Logouts, NEW step, Goto(o, step), step \in LogoutSteps,
         UNCHANGED <<change, late, copy>>, \A q \in Checks \cup Logouts : q # o => token'[q] = token[q],
         \/ pc[o] \in {"uncache", "drop"} /\ token'[o] = token[o]
         \/ token'[o] \in Issued /\ token'[o] \in dead'
         \/ step = "done"
  PROVE  PcTyped' /\ ChangeEffect /\ IssuedEffect /\ TokenEffect /\ LogoutEffect /\ pc'[o] = step
<1>1. PcTyped' /\ (\A q \in Procs : q # o => pc'[q] = pc[q]) /\ pc'[o] = step
  BY Going, StepsOfEach, Apart
<1>2. TokenEffect
  BY <1>1, Apart DEF TokenEffect
<1>3. LogoutEffect
  BY <1>1, Apart DEF LogoutEffect
<1> QED
  BY <1>1, <1>2, <1>3, Apart, Frame

LEMMA LogoutBeginEffect ==
  ASSUME TypeOK, Tokens, NEW o \in Logouts, Logout(o), UNCHANGED faults
  PROVE  DataTyped' /\ PcTyped' /\ Effect
<1> USE Apart, Typed, Frame
<1> DataTyped
  BY TypeParts
<1>1. PICK s \in Issued : token' = [token EXCEPT ![o] = s] /\ WriteTombstone(s) /\ dead' = dead \cup {s}
  BY DEF Logout
<1>2. s \in Logins
  BY DEF Issued
<1>3. tomb' \in [Logins -> Nat] /\ TombEffect /\ tomb'[s] = now + SessionTTL /\ UNCHANGED <<cache, revision, attempts>>
  BY <1>1, TombWritten
<1>4. token' \in [Checks \cup Logouts -> Logins \cup {None}] /\ dead' \in SUBSET Logins
  BY <1>1, <1>2 DEF DataTyped
<1>5. DataTyped'
  BY <1>3, <1>4 DEF Logout, DataTyped
<1>6. PcTyped' /\ ChangeEffect /\ IssuedEffect /\ TokenEffect /\ LogoutEffect
  <2>1. \A q \in Checks \cup Logouts : q # o => token'[q] = token[q]
    BY <1>1 DEF DataTyped
  <2>2. token'[o] \in Issued /\ token'[o] \in dead'
    BY <1>1, <1>2 DEF DataTyped
  <2> QED
    BY <2>1, <2>2, LogoutGoing DEF Logout, LogoutSteps
<1>7. DeadEffect
  BY <1>1, <1>3 DEF DeadEffect
<1> QED
  BY <1>3, <1>5, <1>6, <1>7 DEF Logout, Effect

LEMMA RevokeEffect ==
  ASSUME TypeOK, Tokens, NEW p \in Checks \cup Logouts, RevokeStep(p), UNCHANGED faults
  PROVE  DataTyped' /\ PcTyped' /\ Effect
<1> USE Apart, Typed, Frame
<1> DataTyped
  BY TypeParts
<1>1. CASE RevokeExpired(p)
  <2>1. p \in Checks /\ pc[p] = "revoke"
    BY <1>1 DEF RevokeExpired, LogoutSteps
  <2>2. tomb' \in [Logins -> Nat] /\ TombEffect /\ UNCHANGED <<cache, revision, attempts>>
    BY <1>1, <2>1, TokenIssued, TombWritten DEF RevokeExpired
  <2>3. DataTyped'
    BY <1>1, <2>2 DEF DataTyped, RevokeExpired, local
  <2>4. PcTyped' /\ ChangeEffect /\ IssuedEffect /\ TokenEffect /\ LogoutEffect
    BY <1>1, <2>1, CheckGoing DEF RevokeExpired, CheckSteps, local
  <2> QED
    BY <1>1, <2>2, <2>3, <2>4 DEF RevokeExpired, local, Effect
<1>2. CASE DeleteCached(p)
  <2>1. pc[p] = "uncache" /\ token[p] \in Logins
    BY <1>2, TokenIssued DEF DeleteCached
  <2>2. cache' = [cache EXCEPT ![token[p]] = [value |-> None, exp |-> 0]]
    BY <1>2 DEF DeleteCached
  <2>3. DataTyped'
    <3>1. cache' \in [Logins -> Copy]
      BY <2>2 DEF DataTyped, Copy
    <3> QED
      BY <1>2, <3>1 DEF DataTyped, DeleteCached, local, Copy
  <2>4. PcTyped' /\ ChangeEffect /\ IssuedEffect /\ TokenEffect /\ LogoutEffect
    <3>1. CASE p \in Checks
      BY <1>2, <2>1, <3>1, CheckGoing DEF DeleteCached, CheckSteps, local
    <3>2. CASE p \in Logouts
      BY <1>2, <2>1, <3>2, LogoutGoing DEF DeleteCached, LogoutSteps, local
    <3> QED
      BY <3>1, <3>2
  <2>5. CacheEffect
    BY <2>2 DEF CacheEffect, DataTyped
  <2> QED
    BY <1>2, <2>3, <2>4, <2>5 DEF DeleteCached, local, Effect
<1>3. CASE DeleteRow(p)
  <2>1. pc[p] = "drop" /\ token[p] \in Logins
    BY <1>3, TokenIssued DEF DeleteRow
  <2>2. rows' = [rows EXCEPT ![token[p]].exists = FALSE]
    BY <1>3 DEF DeleteRow
  <2>3. DataTyped'
    <3>1. rows' \in [Logins -> [exists : BOOLEAN, created : Nat, expires : Nat]]
      BY <2>1, <2>2, RowWritten DEF DataTyped, Row
    <3> QED
      BY <1>3, <3>1 DEF DataTyped, DeleteRow, redis, local
  <2>4. PcTyped' /\ ChangeEffect /\ IssuedEffect /\ TokenEffect /\ LogoutEffect
    <3>1. CASE p \in Checks
      BY <1>3, <2>1, <3>1, CheckGoing DEF DeleteRow, AfterDrop, CheckSteps, local
    <3>2. CASE p \in Logouts
      BY <1>3, <2>1, <3>2, LogoutGoing DEF DeleteRow, AfterDrop, LogoutSteps, local
    <3> QED
      BY <3>1, <3>2
  <2>5. RowsEffect
    BY <2>2 DEF RowsEffect, DataTyped
  <2> QED
    BY <1>3, <2>3, <2>4, <2>5 DEF DeleteRow, redis, local, Effect
<1> QED
  BY <1>1, <1>2, <1>3 DEF RevokeStep

\* A change goes on to a step after its rotation, or stops.
LEMMA ChangeGoing ==
  ASSUME TypeOK, NEW c \in Changes, NEW step, Goto(c, step), step \in {"update", "dropAll", "done"},
         pc[c] # "begin", UNCHANGED <<change, token, late, copy>>
  PROVE  PcTyped' /\ ChangeEffect /\ IssuedEffect /\ TokenEffect /\ LogoutEffect /\ pc'[c] = step
<1>1. PcTyped' /\ (\A q \in Procs : q # c => pc'[q] = pc[q]) /\ pc'[c] = step
  BY Going, StepsOfEach, Apart DEF ChangeSteps
<1>2. ChangeEffect
  BY <1>1, Apart DEF ChangeEffect
<1> QED
  BY <1>1, <1>2, Apart, Frame DEF CheckWaits

\* The revision of a change is written.
LEMMA Rotated ==
  ASSUME DataTyped, NEW c \in Changes, pc[c] = "rotate", pc'[c] \in {"update", "done"},
         revision' = [value |-> c, notBefore |-> change[c].notBefore], dead' = dead \cup Ended
  PROVE  revision' \in Revision /\ RevisionEffect /\ dead' \in SUBSET Logins /\ DeadEffect
<1>1. revision' \in Revision
  BY DEF DataTyped, Revision
<1>2. RevisionEffect
  BY DEF RevisionEffect
<1>3. dead' \in SUBSET Logins
  BY DEF DataTyped, Ended
<1>4. DeadEffect
  BY DEF DeadEffect
<1> QED
  BY <1>1, <1>2, <1>3, <1>4

LEMMA ChangeStepEffect ==
  ASSUME TypeOK, Tokens, NEW c \in Changes, ChangeStep(c), UNCHANGED faults
  PROVE  DataTyped' /\ PcTyped' /\ Effect
<1> USE Apart, Typed, Frame
<1> DataTyped
  BY TypeParts
<1>1. CASE BeginChange(c)
  <2>1. pc[c] = "begin" /\ Goto(c, "rotate") /\ change' = [change EXCEPT ![c] = [notBefore |-> now, old |-> Issued]]
    BY <1>1 DEF BeginChange
  <2>2. DataTyped'
    <3>1. [notBefore |-> now, old |-> Issued] \in [notBefore : Nat, old : SUBSET Logins]
      BY DEF DataTyped, Issued
    <3>2. change' \in [Changes -> [notBefore : Nat, old : SUBSET Logins]]
      BY <2>1, <3>1 DEF DataTyped
    <3> QED
      BY <1>1, <3>2 DEF DataTyped, BeginChange, redis
  <2>3. PcTyped' /\ (\A q \in Procs : q # c => pc'[q] = pc[q]) /\ pc'[c] = "rotate"
    BY <2>1, Going, StepsOfEach DEF ChangeSteps
  <2>4. IssuedEffect /\ TokenEffect /\ LogoutEffect
    BY <1>1, <2>3 DEF BeginChange, CheckWaits
  <2>5. ChangeEffect
    BY <2>1, <2>3 DEF ChangeEffect, DataTyped
  <2> QED
    BY <1>1, <2>2, <2>3, <2>4, <2>5 DEF BeginChange, redis, Effect
<1>2. CASE RotateSessionRevision(c)
  <2>1. PcTyped' /\ ChangeEffect /\ IssuedEffect /\ TokenEffect /\ LogoutEffect /\ pc'[c] = "update"
    BY <1>2, ChangeGoing DEF RotateSessionRevision, local
  <2>2. revision' \in Revision /\ RevisionEffect /\ dead' \in SUBSET Logins /\ DeadEffect
    BY <1>2, <2>1, Rotated DEF RotateSessionRevision
  <2>3. DataTyped'
    BY <1>2, <2>2 DEF DataTyped, RotateSessionRevision, local
  <2> QED
    BY <1>2, <2>1, <2>2, <2>3 DEF RotateSessionRevision, local, Effect
<1>3. CASE UpdateAdmin(c)
  <2>1. PcTyped' /\ ChangeEffect /\ IssuedEffect /\ TokenEffect /\ LogoutEffect
    BY <1>3, ChangeGoing DEF UpdateAdmin, local
  <2>2. DataTyped'
    BY <1>3 DEF DataTyped, UpdateAdmin, redis, local
  <2> QED
    BY <1>3, <2>1, <2>2 DEF UpdateAdmin, redis, local, Effect
<1>4. CASE DeleteAdminSessions(c)
  <2>1. PcTyped' /\ ChangeEffect /\ IssuedEffect /\ TokenEffect /\ LogoutEffect
    BY <1>4, ChangeGoing DEF DeleteAdminSessions, local
  <2>2. rows' = [l \in Logins |-> [rows[l] EXCEPT !.exists = FALSE]]
    BY <1>4 DEF DeleteAdminSessions
  <2>3. DataTyped'
    <3>1. rows' \in [Logins -> [exists : BOOLEAN, created : Nat, expires : Nat]]
      <4>1. \A l \in Logins : [rows[l] EXCEPT !.exists = FALSE] \in [exists : BOOLEAN, created : Nat, expires : Nat]
        <5> SUFFICES ASSUME NEW l \in Logins PROVE [rows[l] EXCEPT !.exists = FALSE] \in Row
          BY DEF Row
        <5>1. rows[l] \in Row /\ FALSE \in BOOLEAN /\ now \in Nat
          BY DEF DataTyped, Row
        <5> QED
          BY <5>1, RowValues
      <4> QED
        BY <2>2, <4>1
    <3> QED
      BY <1>4, <3>1 DEF DataTyped, DeleteAdminSessions, redis, local
  <2>4. RowsEffect
    BY <2>2 DEF RowsEffect, DataTyped
  <2> QED
    BY <1>4, <2>1, <2>3, <2>4 DEF DeleteAdminSessions, redis, local, Effect
<1> QED
  BY <1>1, <1>2, <1>3, <1>4 DEF ChangeStep

\* A copy saved by the login itself, or by a check.
LEMMA SaveEffect ==
  ASSUME DataTyped, NEW s \in Logins, NEW p \in Holders, SaveSession(s, rev[p]),
         p = s \/ (p \in Checks /\ token[p] = s /\ ~Refused(p))
  PROVE  cache' \in [Logins -> [value : Holders \cup Changes \cup {None}, exp : Nat]] /\ CacheEffect
BY CopyWritten DEF CacheEffect, Copy

LEMMA CreatedUnseen ==
  ASSUME DataTyped, NEW p \in Holders, RevisionCreatedUnseen(p)
  PROVE  revision' \in Revision /\ RevisionEffect /\ UNCHANGED <<rows, cache, tomb, attempts>>
<1>1. [value |-> p, notBefore |-> 0] \in Revision
  BY DEF Revision
<1> QED
  BY <1>1 DEF RevisionCreatedUnseen, RevisionEffect

LEMMA FaultTyped == faults \in 0..MaxFaults /\ faults < MaxFaults /\ faults' = faults + 1 => faults' \in 0..MaxFaults
BY Apart

LEMMA CheckFailsEffect ==
  ASSUME TypeOK, Tokens, NEW k \in Checks, CheckFails(k), faults' \in 0..MaxFaults
  PROVE  DataTyped' /\ PcTyped' /\ Effect
<1> USE Apart, Typed, Frame
<1> DataTyped
  BY TypeParts
<1>1. PcTyped' /\ ChangeEffect /\ IssuedEffect /\ TokenEffect /\ LogoutEffect
  BY CheckGoing DEF CheckFails, CheckSteps, local
<1>2. token[k] \in Issued /\ token[k] \in Logins
  BY TokenIssued DEF CheckFails
<1>3. UNCHANGED <<now, secret, token, rev, copy, change, late, dead>>
  BY DEF CheckFails, local
<1>4. /\ cache' \in [Logins -> [value : Holders \cup Changes \cup {None}, exp : Nat]] /\ CacheEffect
      /\ tomb' \in [Logins -> Nat] /\ TombEffect
      /\ revision' \in Revision /\ RevisionEffect
      /\ UNCHANGED <<rows, attempts>>
  <2>1. CASE UNCHANGED <<rows, redis>>
    BY <2>1 DEF redis, DataTyped
  <2>2. CASE RevisionCreatedUnseen(k)
    BY <2>2, CreatedUnseen DEF DataTyped
  <2>3. CASE ~Refused(k) /\ SaveSession(token[k], rev[k]) /\ UNCHANGED <<rows, tomb, revision, attempts>>
    BY <2>3, <1>2, SaveEffect DEF DataTyped
  <2>4. CASE WriteTombstone(token[k]) /\ UNCHANGED rows
    BY <2>4, <1>2, TombWritten DEF DataTyped
  <2> QED
    BY <2>1, <2>2, <2>3, <2>4 DEF CheckFails
<1>5. DataTyped'
  BY <1>3, <1>4 DEF DataTyped
<1> QED
  BY <1>1, <1>3, <1>4, <1>5 DEF Effect

LEMMA LoginFailsEffect ==
  ASSUME TypeOK, Tokens, NEW l \in Logins, LoginFails(l), faults' \in 0..MaxFaults
  PROVE  DataTyped' /\ PcTyped' /\ Effect
<1> USE Apart, Typed, Frame
<1> DataTyped
  BY TypeParts
<1>1. PcTyped' /\ ChangeEffect /\ IssuedEffect /\ TokenEffect /\ LogoutEffect
  <2> DEFINE next == CASE pc[l] = "save"  -> "undo"
                       [] pc[l] = "clear" -> "done"
                       [] OTHER           -> "failed"
  <2>1. next \in {"undo", "done", "failed"}
    OBVIOUS
  <2>2. Goto(l, next) /\ pc[l] # "done" /\ UNCHANGED <<token, late, copy, change>>
    BY DEF LoginFails, local
  <2> HIDE DEF next
  <2> QED
    BY <2>1, <2>2, LoginGoing DEF LoginSteps
<1>2. UNCHANGED <<now, secret, token, rev, copy, change, late, dead>>
  BY DEF LoginFails, local
<1>3. /\ rows' \in [Logins -> [exists : BOOLEAN, created : Nat, expires : Nat]] /\ RowsEffect
      /\ cache' \in [Logins -> [value : Holders \cup Changes \cup {None}, exp : Nat]] /\ CacheEffect
      /\ revision' \in Revision /\ RevisionEffect
      /\ attempts' \in [n : Nat, exp : Nat]
      /\ UNCHANGED tomb
  <2>1. CASE UNCHANGED <<rows, redis>>
    BY <2>1 DEF redis, DataTyped
  <2>2. CASE RevisionCreatedUnseen(l)
    BY <2>2, CreatedUnseen DEF DataTyped
  <2>3. CASE pc[l] = "create" /\ InsertSession(l) /\ UNCHANGED redis
    <3>1. rows' = [rows EXCEPT ![l].exists = TRUE, ![l].created = now]
      BY <2>3 DEF InsertSession
    <3>2. rows' \in [Logins -> [exists : BOOLEAN, created : Nat, expires : Nat]]
      BY <3>1, RowWritten DEF DataTyped, Row
    <3>3. RowsEffect
      BY <2>3, <3>1 DEF RowsEffect, DataTyped
    <3> QED
      BY <2>3, <3>2, <3>3 DEF redis, DataTyped
  <2>4. CASE SaveSession(l, rev[l]) /\ UNCHANGED <<rows, tomb, revision, attempts>>
    BY <2>4, SaveEffect DEF DataTyped
  <2>5. CASE attempts' = AddWindow(attempts, AttemptWindow, now) /\ UNCHANGED <<rows, cache, tomb, revision>>
    BY <2>5, WindowTyped DEF DataTyped
  <2> QED
    BY <2>1, <2>2, <2>3, <2>4, <2>5 DEF LoginFails
<1>4. DataTyped'
  BY <1>2, <1>3 DEF DataTyped
<1> QED
  BY <1>1, <1>2, <1>3, <1>4 DEF Effect

LEMMA LogoutFailsEffect ==
  ASSUME TypeOK, Tokens, NEW o \in Logouts, LogoutFails(o), faults' \in 0..MaxFaults
  PROVE  DataTyped' /\ PcTyped' /\ Effect
<1> USE Apart, Typed, Frame
<1> DataTyped
  BY TypeParts
<1>1. PcTyped' /\ ChangeEffect /\ IssuedEffect /\ TokenEffect /\ LogoutEffect
  <2>1. UNCHANGED <<change, token, late, copy>>
    BY DEF LogoutFails, local
  <2>2. Goto(o, "done") \/ (pc[o] = "uncache" /\ Goto(o, "drop"))
    BY DEF LogoutFails
  <2> QED
    BY <2>1, <2>2, LogoutGoing DEF LogoutSteps
<1>2. UNCHANGED <<now, rows, secret, token, rev, copy, change, late, dead>>
  BY DEF LogoutFails, local
<1>3. tomb' \in [Logins -> Nat] /\ TombEffect /\ UNCHANGED <<cache, revision, attempts>>
  <2>1. CASE UNCHANGED redis
    BY <2>1 DEF redis, DataTyped
  <2>2. CASE \E s \in Issued : WriteTombstone(s)
    BY <2>2, TombWritten
  <2> QED
    BY <2>1, <2>2 DEF LogoutFails
<1>4. DataTyped'
  BY <1>2, <1>3 DEF DataTyped
<1> QED
  BY <1>1, <1>2, <1>3, <1>4 DEF Effect

LEMMA ChangeFailsEffect ==
  ASSUME TypeOK, Tokens, NEW c \in Changes, ChangeFails(c), faults' \in 0..MaxFaults
  PROVE  DataTyped' /\ PcTyped' /\ Effect
<1> USE Apart, Typed, Frame
<1> DataTyped
  BY TypeParts
<1>1. PcTyped' /\ ChangeEffect /\ IssuedEffect /\ TokenEffect /\ LogoutEffect /\ pc'[c] = "done"
  BY ChangeGoing DEF ChangeFails, local
<1>2. UNCHANGED <<now, rows, cache, tomb, attempts, token, rev, copy, change, late>>
  BY DEF ChangeFails, local
<1>3. /\ secret' \in Changes \cup {First}
      /\ revision' \in Revision /\ RevisionEffect
      /\ dead' \in SUBSET Logins /\ DeadEffect
  <2>1. CASE /\ pc[c] = "rotate" /\ UNCHANGED secret
             /\ revision' = [value |-> c, notBefore |-> change[c].notBefore] /\ dead' = dead \cup Ended
    BY <1>1, <2>1, Rotated DEF DataTyped
  <2>2. CASE secret' = c /\ UNCHANGED <<revision, dead>>
    BY <2>2 DEF DataTyped
  <2>3. CASE UNCHANGED <<secret, revision, dead>>
    BY <2>3 DEF DataTyped
  <2> QED
    BY <2>1, <2>2, <2>3 DEF ChangeFails
<1>4. DataTyped'
  BY <1>2, <1>3 DEF DataTyped
<1> QED
  BY <1>1, <1>2, <1>3, <1>4 DEF Effect

LEMMA OtherEffect ==
  ASSUME TypeOK, DeleteExpiredSessions \/ LoseCopy \/ Tick, UNCHANGED faults
  PROVE  DataTyped' /\ PcTyped' /\ Effect
<1> USE Frame
<1> DataTyped /\ PcTyped
  BY TypeParts
<1>1. UNCHANGED <<secret, pc, token, rev, copy, change, late, dead, attempts, revision, tomb>>
  BY DEF DeleteExpiredSessions, LoseCopy, Tick, redis, local
<1>2. PcTyped' /\ ChangeEffect /\ IssuedEffect /\ TokenEffect /\ LogoutEffect
  BY <1>1 DEF PcTyped, CheckWaits
<1>3. CASE DeleteExpiredSessions
  <2>1. rows' = [l \in Logins |-> [rows[l] EXCEPT !.exists = rows[l].exists /\ rows[l].expires > now]]
    BY <1>3 DEF DeleteExpiredSessions
  <2>2. \A l \in Logins : rows'[l] \in Row
    <3> SUFFICES ASSUME NEW l \in Logins PROVE rows'[l] \in Row
      OBVIOUS
    <3>1. rows[l] \in Row
      BY DEF DataTyped, Row
    <3>2. (rows[l].exists /\ rows[l].expires > now) \in BOOLEAN
      BY Zenon
    <3> QED
      BY <2>1, <3>1, <3>2, RowValues DEF DataTyped
  <2>3. rows' \in [Logins -> [exists : BOOLEAN, created : Nat, expires : Nat]]
    BY <2>1, <2>2 DEF Row
  <2>4. RowsEffect
    BY <2>1 DEF RowsEffect, DataTyped
  <2>5. UNCHANGED <<now, cache>>
    BY <1>3 DEF DeleteExpiredSessions, redis
  <2> QED
    BY <1>1, <1>2, <2>3, <2>4, <2>5 DEF DataTyped, Effect
<1>4. CASE LoseCopy
  <2>1. PICK l \in Logins : cache' = [cache EXCEPT ![l] = [value |-> None, exp |-> 0]]
    BY <1>4 DEF LoseCopy
  <2>2. cache' \in [Logins -> [value : Holders \cup Changes \cup {None}, exp : Nat]]
    BY <2>1 DEF DataTyped
  <2>3. CacheEffect
    BY <2>1 DEF CacheEffect, DataTyped
  <2> QED
    BY <1>1, <1>2, <1>4, <2>2, <2>3 DEF LoseCopy, DataTyped, Effect
<1>5. CASE Tick
  BY <1>1, <1>2, <1>5 DEF Tick, redis, DataTyped, Effect
<1> QED
  BY <1>3, <1>4, <1>5

\* Every step keeps the types, and has no other effects than these.
LEMMA StepEffect ==
  ASSUME TypeOK, Tokens, Next
  PROVE  TypeOK' /\ Effect
<1>1. DataTyped' /\ PcTyped' /\ Effect
  <2>1. CASE CallFails
    <3>1. faults' \in 0..MaxFaults
      BY <2>1, FaultTyped DEF CallFails, TypeOK
    <3> QED
      BY <2>1, <3>1, LoginFailsEffect, CheckFailsEffect, LogoutFailsEffect, ChangeFailsEffect DEF CallFails
  <2>2. CASE UNCHANGED faults /\ \E l \in Logins : LoginStep(l)
    BY <2>2, LoginEffect
  <2>3. CASE UNCHANGED faults /\ \E k \in Checks : CheckStep(k) \/ RevokeStep(k)
    BY <2>3, CheckEffect, RevokeEffect
  <2>4. CASE UNCHANGED faults /\ \E o \in Logouts : Logout(o) \/ RevokeStep(o)
    BY <2>4, LogoutBeginEffect, RevokeEffect
  <2>5. CASE UNCHANGED faults /\ \E c \in Changes : ChangeStep(c)
    BY <2>5, ChangeStepEffect
  <2>6. CASE UNCHANGED faults /\ (DeleteExpiredSessions \/ LoseCopy \/ Tick)
    BY <2>6, OtherEffect
  <2> QED
    BY <2>1, <2>2, <2>3, <2>4, <2>5, <2>6 DEF Next
<1>2. TypeOK'
  BY <1>1, TypeParts, PTL
<1> QED
  BY <1>1, <1>2

----------------------------------------------------------------------------
(* The parts of the invariant that follow from the effects of a step.      *)

\* A change that has begun keeps its NotBefore and its sessions; an issued session
\* keeps its times.
LEMMA Monotone ==
  ASSUME TypeOK, Effect
  PROVE  /\ \A c \in Changes : pc[c] # "begin" => change'[c] = change[c] /\ pc'[c] # "begin"
         /\ \A c \in Changes : Begun(c) => Begun(c)' /\ change'[c] = change[c]
         /\ \A c \in Changes : pc'[c] = "rotate" =>
              pc[c] = "rotate" \/ (pc[c] = "begin" /\ change'[c].old = Issued)
         /\ \A l \in Issued : l \in Issued' /\ rows'[l].created = rows[l].created /\ rows'[l].expires = rows[l].expires
<1>1. /\ \A c \in Changes : pc[c] # "begin" => change'[c] = change[c] /\ pc'[c] # "begin"
      /\ \A c \in Changes : pc'[c] = "rotate" =>
           pc[c] = "rotate" \/ (pc[c] = "begin" /\ change'[c].old = Issued)
      /\ \A c \in Changes : pc[c] \notin {"begin", "rotate"} => pc'[c] \notin {"begin", "rotate"}
  BY DEF Effect, ChangeEffect
<1>2. \A l \in Issued : l \in Issued' /\ rows'[l].created = rows[l].created /\ rows'[l].expires = rows[l].expires
  BY DEF Effect, IssuedEffect, RowsEffect, Issued
<1> QED
  BY <1>1, <1>2 DEF Begun

LEMMA ClocksKept ==
  ASSUME TypeOK, TypeOK', Clocks, Effect
  PROVE  Clocks'
<1> USE Apart, Typed, Monotone
<1>1. now \in Nat /\ now' \in Nat /\ now' >= now /\ now >= 1
  BY DEF Effect, Clocks, TypeOK
<1>2. \A l \in Logins : rows'[l].created <= now' /\ rows'[l].expires <= now' + SessionTTL /\ tomb'[l] <= now' + SessionTTL
  <2> SUFFICES ASSUME NEW l \in Logins
               PROVE  rows'[l].created <= now' /\ rows'[l].expires <= now' + SessionTTL /\ tomb'[l] <= now' + SessionTTL
    OBVIOUS
  <2>1. rows[l].created <= now /\ rows[l].expires <= now + SessionTTL /\ tomb[l] <= now + SessionTTL
    BY DEF Clocks
  <2>2. /\ rows'[l].created \in {rows[l].created, now}
        /\ rows'[l].expires \in {rows[l].expires, now + SessionTTL}
        /\ tomb'[l] \in {tomb[l], now + SessionTTL}
    BY DEF Effect, RowsEffect, TombEffect
  <2> QED
    BY <1>1, <2>1, <2>2
<1>3. \A c \in Changes : pc'[c] # "begin" => change'[c].notBefore >= 1
  <2> SUFFICES ASSUME NEW c \in Changes, pc'[c] # "begin" PROVE change'[c].notBefore >= 1
    OBVIOUS
  <2>1. CASE pc[c] = "begin"
    BY <1>1, <2>1 DEF Effect, ChangeEffect
  <2>2. CASE pc[c] # "begin"
    BY <2>2 DEF Clocks
  <2> QED
    BY <2>1, <2>2
<1>4. \A c \in Changes : \A l \in change'[c].old : pc'[l] = "done" /\ rows'[l].created <= change'[c].notBefore
  <2> SUFFICES ASSUME NEW c \in Changes, NEW l \in change'[c].old
               PROVE  pc'[l] = "done" /\ rows'[l].created <= change'[c].notBefore
    OBVIOUS
  <2>1. CASE change'[c] = change[c]
    <3>1. l \in Issued /\ rows[l].created <= change[c].notBefore
      BY <2>1 DEF Clocks, Issued
    <3> QED
      BY <2>1, <3>1 DEF Issued
  <2>2. CASE change'[c] = [notBefore |-> now, old |-> Issued]
    <3>1. l \in Issued /\ rows[l].created <= now /\ change'[c].notBefore = now
      BY <2>2 DEF Clocks, Issued
    <3> QED
      BY <3>1 DEF Issued
  <2> QED
    BY <2>1, <2>2 DEF Effect, ChangeEffect
<1> QED
  BY <1>1, <1>2, <1>3, <1>4 DEF Clocks

LEMMA RevisionsKept ==
  ASSUME TypeOK, Revisions, Tokens, Effect
  PROVE  Revisions'
<1> USE Apart, Typed, Monotone
<1>1. ASSUME NEW r, Genuine(r)
      PROVE  /\ r.value \in Changes => (pc'[r.value] \notin {"begin", "rotate"} /\ r.notBefore = change'[r.value].notBefore)
             /\ r.value \notin Changes => r.notBefore = 0
  BY <1>1 DEF Genuine, Begun
<1>2. /\ revision'.value \in Changes => (pc'[revision'.value] \notin {"begin", "rotate"}
                                         /\ revision'.notBefore = change'[revision'.value].notBefore)
      /\ revision'.value \notin Changes => revision'.notBefore = 0
  <2>1. CASE revision' = revision
    BY <2>1, <1>1 DEF Revisions
  <2>2. CASE \E p \in Holders : revision' = [value |-> p, notBefore |-> 0]
    BY <2>2
  <2>3. CASE \E c \in Changes : /\ pc[c] = "rotate" /\ pc'[c] \in {"update", "done"}
                                /\ revision' = [value |-> c, notBefore |-> change[c].notBefore]
    BY <2>3
  <2> QED
    BY <2>1, <2>2, <2>3 DEF Effect, RevisionEffect
<1>3. \A p \in Holders :
        /\ rev'[p].value \in Changes => (pc'[rev'[p].value] \notin {"begin", "rotate"}
                                         /\ rev'[p].notBefore = change'[rev'[p].value].notBefore)
        /\ rev'[p].value \notin Changes => rev'[p].notBefore = 0
  BY <1>1, <1>2 DEF Effect, ReadEffect, Revisions
<1>4. \A l \in Logins : cache'[l].value \in Changes => pc'[cache'[l].value] \notin {"begin", "rotate"}
  <2> SUFFICES ASSUME NEW l \in Logins, cache'[l].value \in Changes
               PROVE  pc'[cache'[l].value] \notin {"begin", "rotate"}
    OBVIOUS
  <2>1. cache'[l].value = cache[l].value \/ \E p \in Holders : cache'[l].value = rev[p].value
    BY DEF Effect, CacheEffect
  <2> QED
    BY <2>1 DEF Revisions, Genuine, Begun
<1>5. \A k \in Checks : copy'[k] \in Changes => pc'[copy'[k]] \notin {"begin", "rotate"}
  <2> SUFFICES ASSUME NEW k \in Checks, copy'[k] \in Changes
               PROVE  pc'[copy'[k]] \notin {"begin", "rotate"}
    OBVIOUS
  <2>1. copy'[k] = copy[k] \/ (pc[k] = "cached" /\ copy'[k] = cache[token[k]].value)
    BY DEF Effect, TokenEffect
  <2> QED
    BY <2>1, TokenIssued DEF Revisions, Begun
<1> QED
  BY <1>2, <1>3, <1>4, <1>5 DEF Revisions, Genuine, Begun

LEMMA TokensKept ==
  ASSUME TypeOK, TypeOK', Clocks, Tokens, Effect
  PROVE  Tokens'
<1> USE Apart, Typed, Monotone
<1>1. \A k \in Checks : /\ pc'[k] # "begin" => token'[k] \in Issued'
                        /\ pc'[k] \in {"begin", "cached"} => copy'[k] = None
  <2> SUFFICES ASSUME NEW k \in Checks
               PROVE  /\ pc'[k] # "begin" => token'[k] \in Issued'
                      /\ pc'[k] \in {"begin", "cached"} => copy'[k] = None
    OBVIOUS
  <2>1. CASE /\ (pc'[k] = "begin" <=> pc[k] = "begin") /\ (pc'[k] = "cached" => pc[k] = "cached")
             /\ token'[k] = token[k]
             /\ copy'[k] = copy[k] \/ (pc[k] = "cached" /\ pc'[k] = "rev")
    BY <2>1 DEF Tokens
  <2>2. CASE pc[k] = "begin" /\ pc'[k] # "begin" /\ token'[k] \in Issued /\ copy'[k] = copy[k]
    BY <2>2 DEF Tokens
  <2> QED
    BY <2>1, <2>2 DEF Effect, TokenEffect
<1>2. \A o \in Logouts : pc'[o] \notin {"begin", "done"} => token'[o] \in Issued'
  <2> SUFFICES ASSUME NEW o \in Logouts, pc'[o] \notin {"begin", "done"} PROVE token'[o] \in Issued'
    OBVIOUS
  <2>1. pc'[o] \in {"uncache", "drop"}
    BY DEF TypeOK, LogoutSteps
  <2>2. token'[o] \in Issued
    BY <2>1 DEF Effect, LogoutEffect, Tokens
  <2> QED
    BY <2>2
<1>3. \A l \in Logins : tomb'[l] > 0 => l \in Issued'
  BY DEF Effect, TombEffect, Tokens
<1> QED
  BY <1>1, <1>2, <1>3 DEF Tokens

\* A check does not save a copy of a session that its revision ends.
LEMMA NotRefused ==
  ASSUME TypeOK, Clocks, Revisions, NEW k \in Checks, token[k] \in Logins, rev[k].value \in Changes, ~Refused(k)
  PROVE  token[k] \notin change[rev[k].value].old
<1> DEFINE c == rev[k].value
<1>1. pc[c] # "begin" /\ rev[k].notBefore = change[c].notBefore
  BY Apart DEF Revisions, Genuine, Begun
<1>2. change[c].notBefore >= 1 /\ change[c].notBefore \in Nat /\ rows[token[k]].created \in Nat
  BY <1>1, Typed DEF Clocks
<1>3. ~(rows[token[k]].created <= change[c].notBefore)
  BY <1>1, <1>2 DEF Refused, RevokedByRevision
<1> QED
  BY <1>3 DEF Clocks

LEMMA FreshKept ==
  ASSUME TypeOK, Clocks, Clocks', Revisions, Revisions', Fresh, Tokens, Effect
  PROVE  Fresh'
<1> USE Apart, Typed, Monotone
<1>1. \A l \in Logins : cache'[l].value \in Changes => l \notin change'[cache'[l].value].old
  <2> SUFFICES ASSUME NEW l \in Logins, cache'[l].value \in Changes
               PROVE  l \notin change'[cache'[l].value].old
    OBVIOUS
  <2>1. CASE cache'[l].value = cache[l].value
    BY <2>1 DEF Fresh, Revisions
  <2>2. CASE cache'[l].value = rev[l].value
    BY <2>2 DEF Fresh, Revisions, Genuine
  <2>3. CASE \E k \in Checks : token[k] = l /\ ~Refused(k) /\ cache'[l].value = rev[k].value
    BY <2>3, NotRefused DEF Revisions, Genuine
  <2> QED
    BY <2>1, <2>2, <2>3 DEF Effect, CacheEffect
<1>2. \A l \in Logins : rev'[l].value \in Changes => l \notin change'[rev'[l].value].old
  <2> SUFFICES ASSUME NEW l \in Logins, rev'[l].value \in Changes
               PROVE  l \notin change'[rev'[l].value].old
    OBVIOUS
  <2>1. CASE rev'[l] = rev[l]
    BY <2>1 DEF Fresh, Revisions, Genuine
  <2>2. CASE pc'[l] # "done"
    BY <2>2 DEF Clocks
  <2> QED
    BY <2>1, <2>2 DEF Effect, ReadEffect
<1>3. \A k \in Checks : copy'[k] \in Changes => token'[k] \notin change'[copy'[k]].old
  <2> SUFFICES ASSUME NEW k \in Checks, copy'[k] \in Changes
               PROVE  token'[k] \notin change'[copy'[k]].old
    OBVIOUS
  <2>1. CASE copy'[k] = copy[k] /\ token'[k] = token[k]
    BY <2>1 DEF Fresh, Revisions
  <2>2. CASE pc[k] = "cached" /\ copy'[k] = cache[token[k]].value /\ token'[k] = token[k]
    BY <2>2, TokenIssued DEF Fresh, Revisions
  <2>3. CASE pc[k] = "begin" /\ copy'[k] = copy[k]
    BY <2>3 DEF Tokens
  <2> QED
    BY <2>1, <2>2, <2>3 DEF Effect, TokenEffect
<1> QED
  BY <1>1, <1>2, <1>3 DEF Fresh

\* Once ended by the revision, a session stays ended: those that rotate it next have
\* found the session as well.
LEMMA ChangedAwayKept ==
  ASSUME TypeOK, Revisions, Effect, NEW s \in Issued, ChangedAway(s)
  PROVE  /\ revision'.value \in Changes /\ s \in change'[revision'.value].old
         /\ \A c \in Changes : pc'[c] = "rotate" => s \in change'[c].old
<1> USE Apart, Typed, Monotone
<1>1. \A c \in Changes : pc'[c] = "rotate" => s \in change'[c].old
  BY DEF ChangedAway
<1>2. revision'.value \in Changes /\ s \in change'[revision'.value].old
  <2>1. CASE revision' = revision
    BY <2>1 DEF ChangedAway, Ends, Revisions, Genuine
  <2>2. CASE revision.value = None
    BY <2>2 DEF ChangedAway, Ends
  <2>3. CASE \E c \in Changes : pc[c] = "rotate" /\ revision' = [value |-> c, notBefore |-> change[c].notBefore]
    BY <2>3 DEF ChangedAway
  <2> QED
    BY <2>1, <2>2, <2>3 DEF Effect, RevisionEffect
<1> QED
  BY <1>1, <1>2

LEMMA EndingKept ==
  ASSUME TypeOK, TypeOK', Clocks, Revisions, Tokens, Ending, Effect
  PROVE  Ending'
<1> USE Apart, Typed, Monotone
<1>1. \A s \in dead : s \in Issued' /\ (LoggedOut(s) \/ ChangedAway(s))'
  <2> SUFFICES ASSUME NEW s \in dead PROVE s \in Issued' /\ (LoggedOut(s) \/ ChangedAway(s))'
    OBVIOUS
  <2>1. s \in Issued /\ s \in Logins
    BY DEF Ending, Issued
  <2>2. CASE LoggedOut(s)
    <3>1. tomb'[s] \in {tomb[s], now + SessionTTL} /\ rows[s].expires <= now + SessionTTL
      BY <2>1 DEF Effect, TombEffect, Clocks
    <3> QED
      BY <2>1, <2>2, <3>1 DEF LoggedOut
  <2>3. CASE ChangedAway(s)
    BY <2>1, <2>3, ChangedAwayKept DEF ChangedAway, Ends
  <2> QED
    BY <2>1, <2>2, <2>3 DEF Ending
<1>2. \A s \in dead' \ dead : s \in Issued' /\ (LoggedOut(s) \/ ChangedAway(s))'
  <2>1. CASE \E s \in Issued : dead' = dead \cup {s} /\ tomb'[s] = now + SessionTTL
    <3> SUFFICES ASSUME NEW s \in dead' \ dead PROVE s \in Issued' /\ LoggedOut(s)'
      OBVIOUS
    <3>1. s \in Issued /\ tomb'[s] = now + SessionTTL /\ s \in Logins
      BY <2>1 DEF Issued
    <3> QED
      BY <3>1 DEF LoggedOut, Clocks
  <2>2. ASSUME NEW c \in Changes, pc[c] = "rotate", pc'[c] # "rotate", dead' = dead \cup Ended,
               revision' = [value |-> c, notBefore |-> change[c].notBefore]
        PROVE  \A s \in dead' \ dead : s \in Issued' /\ ChangedAway(s)'
    <3> SUFFICES ASSUME NEW s \in dead' \ dead PROVE s \in Issued' /\ ChangedAway(s)'
      OBVIOUS
    <3>1. s \in Ended
      BY <2>2
    <3>2. s \in Logins /\ s \in change[c].old /\ \A d \in Changes : pc[d] = "rotate" => s \in change[d].old
      BY <2>2, <3>1 DEF Ended
    <3>3. s \in Issued
      BY <3>2 DEF Clocks, Issued
    <3>4. revision'.value = c /\ change'[c] = change[c]
      BY <2>2
    <3> QED
      BY <3>2, <3>3, <3>4 DEF ChangedAway, Ends
  <2> QED
    BY <2>1, <2>2 DEF Effect, DeadEffect
<1> QED
  BY <1>1, <1>2 DEF Ending

LEMMA FirstRevisionKept ==
  ASSUME TypeOK, TypeOK', FirstRevision, Effect
  PROVE  FirstRevision'
<1> USE Apart, Typed
<1> DEFINE Agrees(p) == rev'[p].value \in Holders =>
                          revision'.value # None /\ (revision'.value \in Holders => revision' = rev'[p])
<1>1. \A p \in Holders : rev'[p] = rev[p] => Agrees(p)
  <2> SUFFICES ASSUME NEW p \in Holders, rev'[p] = rev[p], rev[p].value \in Holders
               PROVE  revision'.value # None /\ (revision'.value \in Holders => revision' = rev[p])
    OBVIOUS
  <2>1. revision.value # None /\ (revision.value \in Holders => revision = rev[p])
    BY DEF FirstRevision
  <2>2. revision' = revision \/ revision'.value \in Changes
    BY <2>1 DEF Effect, RevisionEffect
  <2> QED
    BY <2>1, <2>2
<1>2. \A p \in Holders : rev'[p] = revision' => Agrees(p)
  OBVIOUS
<1>3. \A p \in Holders : rev'[p] = rev[p] \/ rev'[p] = revision'
  BY DEF Effect, ReadEffect
<1>4. \A p \in Holders : Agrees(p)
  BY <1>1, <1>2, <1>3
<1>5. ASSUME NEW p \in Holders, NEW q \in Holders, rev'[p].value \in Holders, rev'[q].value \in Holders
      PROVE  rev'[p] = rev'[q]
  <2>1. CASE rev'[p] = revision' \/ rev'[q] = revision'
    BY <2>1, <1>4, <1>5
  <2>2. CASE rev'[p] = rev[p] /\ rev'[q] = rev[q]
    BY <2>2, <1>5 DEF FirstRevision, OneFirstRevision
  <2> QED
    BY <2>1, <2>2, <1>3
<1> QED
  BY <1>4, <1>5 DEF FirstRevision, OneFirstRevision

----------------------------------------------------------------------------
(* A check that came too late.                                             *)

\* What a step does to a check that does not take it.
Idle(k) == pc'[k] = pc[k] /\ token'[k] = token[k] /\ rev'[k] = rev[k] /\ late'[k] = late[k]

LEMMA WhoseStep ==
  ASSUME TypeOK, Next, NEW k \in Checks
  PROVE  CheckStep(k) \/ RevokeStep(k) \/ (CallFails /\ CheckFails(k)) \/ Idle(k)
<1> USE Apart
<1>1. ASSUME NEW l \in Logins, LoginStep(l) PROVE Idle(k)
  <2>1. CASE RevisionStep(l)
    <3>1. UNCHANGED <<token, late>>
      BY <2>1 DEF RevisionStep, GetRevision, CreateRevision, GetRevisionAgain
    <3>2. CASE \E r \in Revision : WithRevision(l, r)
      <4>1. PICK r \in Revision : WithRevision(l, r)
        BY <3>2
      <4>2. rev' = [rev EXCEPT ![l] = r] /\ \A q \in Procs : q # l => pc'[q] = pc[q]
        BY <4>1, ReadRevision
      <4> QED
        BY <3>1, <4>2 DEF TypeOK, Idle
    <3>3. CASE UNCHANGED rev /\ \E step : Goto(l, step)
      BY <3>1, <3>3, Going DEF Idle
    <3>4. revision \in Revision /\ [value |-> l, notBefore |-> 0] \in Revision
      BY DEF TypeOK, Revision
    <3> QED
      BY <2>1, <3>2, <3>3, <3>4 DEF RevisionStep, GetRevision, CreateRevision, GetRevisionAgain
  <2>2. CASE \/ RegisterLoginAttempt(l) \/ CreateAdminSession(l) \/ UndoSession(l) \/ ClearLoginAttempts(l)
    <3>1. UNCHANGED <<token, rev, late>> /\ \E step : Goto(l, step)
      BY <2>2 DEF RegisterLoginAttempt, CreateAdminSession, UndoSession, ClearLoginAttempts, local
    <3> QED
      BY <3>1, Going DEF Idle
  <2>3. CASE VerifyCredentials(l) \/ CacheNewSession(l)
    <3>1. UNCHANGED <<token, rev, late>> /\ \E step : Goto(l, step)
      BY <2>3 DEF VerifyCredentials, CacheNewSession, local
    <3> QED
      BY <3>1, Going DEF Idle
  <2> QED
    BY <1>1, <2>1, <2>2, <2>3 DEF LoginStep
<1>2. ASSUME NEW j \in Checks, j # k, CheckStep(j) PROVE Idle(k)
  <2>1. CASE RevisionStep(j)
    <3>1. UNCHANGED <<token, late>>
      BY <2>1 DEF RevisionStep, GetRevision, CreateRevision, GetRevisionAgain
    <3>2. CASE \E r \in Revision : WithRevision(j, r)
      <4>1. PICK r \in Revision : WithRevision(j, r)
        BY <3>2
      <4>2. rev' = [rev EXCEPT ![j] = r] /\ \A q \in Procs : q # j => pc'[q] = pc[q]
        BY <4>1, ReadRevision
      <4> QED
        BY <1>2, <3>1, <4>2 DEF TypeOK, Idle
    <3>3. CASE UNCHANGED rev /\ \E step : Goto(j, step)
      BY <1>2, <3>1, <3>3, Going DEF Idle
    <3>4. revision \in Revision /\ [value |-> j, notBefore |-> 0] \in Revision
      BY DEF TypeOK, Revision
    <3> QED
      BY <2>1, <3>2, <3>3, <3>4 DEF RevisionStep, GetRevision, CreateRevision, GetRevisionAgain
  <2>2. CASE LoadTombstone(j)
    <3>1. PICK s \in Issued : /\ token' = [token EXCEPT ![j] = s]
                              /\ late' = [late EXCEPT ![j] = s \in dead]
                              /\ Goto(j, IF tomb[s] > now THEN "rejected" ELSE "cached")
      BY <2>2 DEF LoadTombstone
    <3>2. UNCHANGED rev /\ pc'[k] = pc[k] /\ token'[k] = token[k]
      BY <1>2, <2>2, <3>1, Going DEF LoadTombstone, TypeOK
    <3>3. late'[k] = late[k]
      BY <1>2, <3>1 DEF TypeOK
    <3> QED
      BY <3>2, <3>3 DEF Idle
  <2>3. CASE LoadCached(j) \/ RestoreDatabaseSession(j)
    <3>1. UNCHANGED <<token, rev, late>> /\ \E step : Goto(j, step)
      BY <2>3 DEF LoadCached, RestoreDatabaseSession, local
    <3> QED
      BY <1>2, <3>1, Going DEF Idle
  <2>4. CASE LoadDatabaseSession(j) \/ CheckExpiry(j)
    <3>1. UNCHANGED <<token, rev, late>> /\ \E step : Goto(j, step)
      BY <2>4 DEF LoadDatabaseSession, CheckExpiry, local
    <3> QED
      BY <1>2, <3>1, Going DEF Idle
  <2> QED
    BY <1>2, <2>1, <2>2, <2>3, <2>4 DEF CheckStep
<1>3. ASSUME NEW p \in Checks \cup Logouts, p # k, RevokeStep(p) PROVE Idle(k)
  <2>1. UNCHANGED <<token, rev, late>> /\ \E step : Goto(p, step)
    BY <1>3 DEF RevokeStep, RevokeExpired, DeleteCached, DeleteRow, local
  <2> QED
    BY <1>3, <2>1, Going DEF Idle
<1>4. ASSUME NEW o \in Logouts, Logout(o) PROVE Idle(k)
  <2>1. PICK s \in Issued : token' = [token EXCEPT ![o] = s]
    BY <1>4 DEF Logout
  <2> QED
    BY <1>4, <2>1, Going DEF Logout, TypeOK, Idle
<1>5. ASSUME NEW c \in Changes, ChangeStep(c) PROVE Idle(k)
  <2>1. UNCHANGED <<token, rev, late>> /\ \E step : Goto(c, step)
    BY <1>5 DEF ChangeStep, BeginChange, RotateSessionRevision, UpdateAdmin, DeleteAdminSessions, local
  <2> QED
    BY <2>1, Going DEF Idle
<1>6. ASSUME CallFails PROVE (CallFails /\ CheckFails(k)) \/ Idle(k)
  <2>1. ASSUME NEW p \in Procs, p # k, UNCHANGED local, \E step : Goto(p, step) PROVE Idle(k)
    BY <2>1, Going DEF Idle, local
  <2>2. ASSUME NEW l \in Logins, LoginFails(l) PROVE Idle(k)
    <3>1. UNCHANGED local /\ \E step : Goto(l, step)
      BY <2>2 DEF LoginFails
    <3> QED
      BY <2>1, <3>1
  <2>3. ASSUME NEW j \in Checks, j # k, CheckFails(j) PROVE Idle(k)
    <3>1. UNCHANGED local /\ \E step : Goto(j, step)
      BY <2>3 DEF CheckFails
    <3> QED
      BY <2>1, <2>3, <3>1
  <2>4. ASSUME NEW o \in Logouts, LogoutFails(o) PROVE Idle(k)
    <3>1. UNCHANGED local /\ \E step : Goto(o, step)
      BY <2>4 DEF LogoutFails
    <3> QED
      BY <2>1, <3>1
  <2>5. ASSUME NEW c \in Changes, ChangeFails(c) PROVE Idle(k)
    <3>1. UNCHANGED local /\ \E step : Goto(c, step)
      BY <2>5 DEF ChangeFails
    <3> QED
      BY <2>1, <3>1
  <2> QED
    BY <1>6, <2>2, <2>3, <2>4, <2>5 DEF CallFails
<1>7. ASSUME DeleteExpiredSessions \/ LoseCopy \/ Tick PROVE Idle(k)
  BY <1>7 DEF DeleteExpiredSessions, LoseCopy, Tick, local, Idle
<1> QED
  BY <1>1, <1>2, <1>3, <1>4, <1>5, <1>6, <1>7 DEF Next

\* While its session is ended by the revision, a check goes on as follows.
AwaySteps == {"cached", "row", "rev", "revNX", "revGet", "rowAgain", "restore", "drop"}

LEMMA LateReads ==
  ASSUME TypeOK, Fresh, Tokens, NEW k \in Checks, RevisionStep(k), ChangedAway(token[k])
  PROVE  /\ pc'[k] \in AwaySteps /\ UNCHANGED <<token, late, now>>
         /\ pc'[k] \in {"rowAgain", "restore"} => rev'[k] = revision
<1> USE Apart, Typed
<1>1. revision.value \in Changes /\ revision.value # None /\ copy[k] # revision.value
  BY DEF ChangedAway, Ends, Fresh
<1>2. UNCHANGED <<token, late, now>>
  BY DEF RevisionStep, GetRevision, CreateRevision, GetRevisionAgain
<1>3. CASE WithRevision(k, revision)
  <2>1. revision \in Revision /\ rev \in [Holders -> Revision]
    BY DEF TypeOK
  <2>2. pc'[k] \in {"restore", "rowAgain"} /\ rev' = [rev EXCEPT ![k] = revision]
    BY <1>1, <1>3, <2>1, ReadRevision
  <2> QED
    BY <1>2, <2>1, <2>2 DEF AwaySteps
<1>4. CASE Goto(k, "revGet")
  BY <1>2, <1>4, Going DEF AwaySteps
<1> QED
  BY <1>1, <1>3, <1>4 DEF RevisionStep, GetRevision, CreateRevision, GetRevisionAgain

LEMMA LateKept ==
  ASSUME TypeOK, TypeOK', Clocks, Revisions, Revisions', Fresh, Tokens, Ending, Late, Next, Effect
  PROVE  Late'
<1> USE Apart, Typed, Monotone
<1> SUFFICES ASSUME NEW k \in Checks, NEW s, s = token'[k], late'[k], pc'[k] \notin {"begin", "rejected"}
             PROVE  /\ s \in dead' /\ pc'[k] # "accepted"
                    /\ \/ rows'[s].expires <= now'
                       \/ /\ revision'.value \in Changes /\ s \in change'[revision'.value].old
                          /\ \A c \in Changes : pc'[c] = "rotate" => s \in change'[c].old
                          /\ pc'[k] \in AwaySteps
                          /\ pc'[k] \in {"rowAgain", "restore"} =>
                               rev'[k].value \in Changes /\ s \in change'[rev'[k].value].old
  BY DEF Late, ChangedAway, Ends, AwaySteps
<1>1. s \in dead => s \in dead'
  BY DEF Effect, DeadEffect
<1>2. s \in Issued => (rows[s].expires <= now => rows'[s].expires <= now')
  BY DEF Effect, Issued, TypeOK
<1>3. s \in Issued /\ rev'[k] = rev[k] /\ Ends(rev[k], s) =>
        rev'[k].value \in Changes /\ s \in change'[rev'[k].value].old
  BY DEF Ends, Revisions, Genuine
<1>4. CASE LoadTombstone(k)
  <2>1. PICK r \in Issued : /\ token' = [token EXCEPT ![k] = r]
                            /\ late' = [late EXCEPT ![k] = r \in dead]
                            /\ Goto(k, IF tomb[r] > now THEN "rejected" ELSE "cached")
    BY <1>4 DEF LoadTombstone
  <2>2. r = s /\ r \in dead
    <3>1. r = s
      BY <2>1 DEF TypeOK
    <3>2. late'[k] = (r \in dead)
      BY <2>1 DEF TypeOK
    <3> QED
      BY <3>1, <3>2
  <2>3. pc'[k] = "cached" /\ ~(tomb[s] > now)
    BY <2>1, <2>2, Going
  <2>4. s \in dead /\ s \in Issued /\ s \in Logins
    BY <2>2 DEF Issued
  <2>5. CASE LoggedOut(s)
    <3>1. tomb[s] <= now /\ rows[s].expires <= tomb[s]
      BY <2>3, <2>4, <2>5 DEF LoggedOut, TypeOK
    <3>2. rows[s].expires <= now
      BY <3>1, <2>4 DEF TypeOK
    <3> QED
      BY <1>1, <1>2, <2>3, <2>4, <3>2
  <2>6. CASE ChangedAway(s)
    BY <1>1, <2>3, <2>4, <2>6, ChangedAwayKept DEF AwaySteps
  <2> QED
    BY <2>4, <2>5, <2>6 DEF Ending
<1>5. CASE Idle(k)
  <2>1. /\ s = token[k] /\ late[k] /\ pc[k] \notin {"begin", "rejected"} /\ pc'[k] = pc[k] /\ rev'[k] = rev[k]
        /\ s \in Issued
    BY <1>5 DEF Idle, Tokens
  <2>2. CASE rows[s].expires <= now
    BY <1>1, <1>2, <2>1, <2>2 DEF Late
  <2>3. CASE ChangedAway(s) /\ pc[k] \in AwaySteps /\ (pc[k] \in {"rowAgain", "restore"} => Ends(rev[k], s))
    BY <1>1, <1>3, <2>1, <2>3, ChangedAwayKept DEF Late
  <2> QED
    BY <2>1, <2>2, <2>3 DEF Late, AwaySteps
<1>6. CASE /\ ~LoadTombstone(k)
           /\ CheckStep(k) \/ RevokeStep(k) \/ CheckFails(k)
  <2>1. UNCHANGED <<token, late, now>> /\ pc[k] \notin {"begin", "rejected"}
    BY <1>6 DEF CheckStep, RevokeStep, CheckFails, LoadCached, LoadDatabaseSession, RevisionStep, GetRevision,
                CreateRevision, GetRevisionAgain, RestoreDatabaseSession, CheckExpiry, RevokeExpired,
                DeleteCached, DeleteRow, local
  <2>2. s = token[k] /\ late[k] /\ s \in Issued /\ s \in dead /\ pc[k] # "accepted"
    BY <2>1 DEF Late, Tokens
  <2>3. CASE rows[s].expires <= now
    <3>1. pc'[k] # "accepted"
      <4>1. CASE CheckExpiry(k)
        <5>1. rows[s].expires \in Nat /\ now \in Nat
          BY <2>2 DEF TypeOK, Issued
        <5>2. ~(rows[s].expires > now)
          BY <2>3, <5>1
        <5>3. Goto(k, "revoke")
          BY <2>2, <4>1, <5>2 DEF CheckExpiry
        <5> QED
          BY <5>3, Going
      <4>2. CASE RevisionStep(k)
        <5>1. revision \in Revision /\ [value |-> k, notBefore |-> 0] \in Revision
          BY DEF TypeOK, Revision
        <5>2. \/ \E r \in Revision : WithRevision(k, r)
              \/ \E step \in {"revNX", "revGet"} : Goto(k, step)
          BY <4>2, <5>1 DEF RevisionStep, GetRevision, CreateRevision, GetRevisionAgain
        <5>3. ASSUME NEW r \in Revision, WithRevision(k, r) PROVE pc'[k] # "accepted"
          BY <5>3, ReadRevision
        <5> QED
          BY <5>2, <5>3, Going
      <4>3. CASE LoadCached(k) \/ LoadDatabaseSession(k)
        BY <4>3, Going DEF LoadCached, LoadDatabaseSession
      <4>4. CASE RestoreDatabaseSession(k)
        BY <4>4, Going DEF RestoreDatabaseSession
      <4>5. CASE RevokeStep(k)
        BY <4>5, Going DEF RevokeStep, RevokeExpired, DeleteCached, DeleteRow, AfterDrop
      <4>6. CASE CheckFails(k)
        BY <4>6, Going DEF CheckFails
      <4> QED
        BY <1>6, <4>1, <4>2, <4>3, <4>4, <4>5, <4>6 DEF CheckStep
    <3> QED
      BY <1>1, <1>2, <2>2, <2>3, <3>1
  <2>4. CASE ChangedAway(s) /\ pc[k] \in AwaySteps /\ (pc[k] \in {"rowAgain", "restore"} => Ends(rev[k], s))
    <3>1. /\ revision'.value \in Changes /\ s \in change'[revision'.value].old
          /\ \A c \in Changes : pc'[c] = "rotate" => s \in change'[c].old
      BY <2>2, <2>4, ChangedAwayKept
    <3>2. /\ pc'[k] \in AwaySteps
          /\ pc'[k] \in {"rowAgain", "restore"} => \/ rev'[k] = rev[k] /\ Ends(rev[k], s)
                                                   \/ rev'[k] = revision /\ Ends(revision, s)
      <4>1. CASE RevisionStep(k)
        BY <2>2, <2>4, <4>1, LateReads DEF ChangedAway
      <4>2. CASE LoadCached(k)
        BY <4>2, Going DEF LoadCached, AwaySteps
      <4>3. CASE LoadDatabaseSession(k)
        <5>1. /\ UNCHANGED rev
              /\ \/ Goto(k, "rejected")
                 \/ Goto(k, "rev")
                 \/ pc[k] = "rowAgain" /\ Goto(k, "restore")
          BY <4>3 DEF LoadDatabaseSession, local
        <5> QED
          BY <2>4, <5>1, Going DEF AwaySteps
      <4>4. CASE RestoreDatabaseSession(k)
        <5>1. Ends(rev[k], s) /\ s \in Logins
          BY <2>2, <2>4, <4>4 DEF RestoreDatabaseSession, Issued
        <5>2. Refused(k)
          BY <2>2, <5>1, NotRefused DEF Ends
        <5>3. Goto(k, "drop")
          BY <4>4, <5>2 DEF RestoreDatabaseSession
        <5> QED
          BY <5>3, Going DEF AwaySteps
      <4>5. CASE CheckExpiry(k)
        BY <2>4, <4>5 DEF CheckExpiry, AwaySteps
      <4>6. CASE RevokeStep(k)
        BY <2>4, <4>6, Going DEF RevokeStep, RevokeExpired, DeleteCached, DeleteRow, AfterDrop, AwaySteps
      <4>7. CASE CheckFails(k)
        BY <4>7, Going DEF CheckFails, AwaySteps
      <4> QED
        BY <1>6, <4>1, <4>2, <4>3, <4>4, <4>5, <4>6, <4>7 DEF CheckStep
    <3>3. rev'[k] = revision /\ Ends(revision, s) => rev'[k].value \in Changes /\ s \in change'[rev'[k].value].old
      BY DEF Ends, Revisions, Genuine
    <3> QED
      BY <1>1, <1>3, <2>2, <3>1, <3>2, <3>3 DEF AwaySteps
  <2> QED
    BY <2>1, <2>2, <2>3, <2>4 DEF Late, AwaySteps
<1> QED
  BY <1>4, <1>5, <1>6, WhoseStep

----------------------------------------------------------------------------
(* Sessions end for a reason only.                                         *)

\* Who writes a tombstone, as long as no call fails.
LEMMA TombReason ==
  ASSUME TypeOK, Next, UNCHANGED faults
  PROVE  \/ tomb' = tomb
         \/ \E s \in Issued : /\ tomb' = [tomb EXCEPT ![s] = now + SessionTTL]
                              /\ s \in dead' \/ \E k \in Checks : pc[k] = "revoke" /\ token[k] = s
         \/ \E k \in Checks : pc[k] = "revoke" /\ tomb' = [tomb EXCEPT ![token[k]] = now + SessionTTL]
<1>1. ~CallFails
  BY DEF CallFails, TypeOK
<1>2. ASSUME NEW l \in Logins, LoginStep(l) PROVE tomb' = tomb
  <2>1. CASE RevisionStep(l)
    BY <2>1 DEF RevisionStep, GetRevision, CreateRevision, GetRevisionAgain, redis
  <2>2. CASE ~RevisionStep(l)
    BY <1>2, <2>2 DEF LoginStep, RegisterLoginAttempt, VerifyCredentials, CreateAdminSession, CacheNewSession,
                      UndoSession, ClearLoginAttempts, redis
  <2> QED
    BY <2>1, <2>2
<1>3. ASSUME NEW k \in Checks, CheckStep(k) PROVE tomb' = tomb
  <2>1. CASE RevisionStep(k)
    BY <2>1 DEF RevisionStep, GetRevision, CreateRevision, GetRevisionAgain, redis
  <2>2. CASE ~RevisionStep(k)
    BY <1>3, <2>2 DEF CheckStep, LoadTombstone, LoadCached, LoadDatabaseSession, RestoreDatabaseSession, CheckExpiry, redis
  <2> QED
    BY <2>1, <2>2
<1>4. ASSUME NEW p \in Checks \cup Logouts, RevokeStep(p)
      PROVE  tomb' = tomb \/ \E k \in Checks : pc[k] = "revoke" /\ tomb' = [tomb EXCEPT ![token[k]] = now + SessionTTL]
  <2>1. CASE RevokeExpired(p)
    <3>1. p \in Checks /\ pc[p] = "revoke"
      BY <2>1, Typed DEF RevokeExpired, LogoutSteps
    <3> QED
      BY <2>1, <3>1 DEF RevokeExpired, WriteTombstone
  <2>2. CASE DeleteCached(p) \/ DeleteRow(p)
    BY <2>2 DEF DeleteCached, DeleteRow, redis
  <2> QED
    BY <1>4, <2>1, <2>2 DEF RevokeStep
<1>5. ASSUME NEW o \in Logouts, Logout(o)
      PROVE  \E s \in Issued : tomb' = [tomb EXCEPT ![s] = now + SessionTTL] /\ s \in dead'
  BY <1>5 DEF Logout, WriteTombstone
<1>6. ASSUME NEW c \in Changes, ChangeStep(c) PROVE tomb' = tomb
  BY <1>6 DEF ChangeStep, BeginChange, RotateSessionRevision, UpdateAdmin, DeleteAdminSessions, redis
<1>7. ASSUME DeleteExpiredSessions \/ LoseCopy \/ Tick PROVE tomb' = tomb
  BY <1>7 DEF DeleteExpiredSessions, LoseCopy, Tick, redis
<1> QED
  BY <1>1, <1>2, <1>3, <1>4, <1>5, <1>6, <1>7 DEF Next

\* A login that has written its row keeps it, unless the row is dropped or has expired.
RowKept(l) ==
  \/ rows'[l].exists
  \/ /\ pc[l] \in {"save", "clear", "done"}
     /\ \/ ~rows[l].exists
        \/ rows[l].expires <= now
        \/ \E p \in Checks \cup Logouts : pc[p] = "drop" /\ token[p] = l

LEMMA RowReason ==
  ASSUME TypeOK, Tokens, Next, UNCHANGED faults, \A c \in Changes : pc[c] = "begin",
         NEW l \in Logins, pc'[l] \in {"save", "clear", "done"}
  PROVE  RowKept(l)
<1> USE Apart
<1>1. ~CallFails
  BY DEF CallFails, TypeOK
<1>2. UNCHANGED rows /\ pc[l] \in {"save", "clear", "done"} => RowKept(l)
  BY DEF RowKept
<1>3. ASSUME LoginStep(l) PROVE RowKept(l)
  <2>1. CASE CreateAdminSession(l)
    <3>1. rows' = [rows EXCEPT ![l].exists = TRUE, ![l].created = now]
      BY <2>1 DEF CreateAdminSession, InsertSession
    <3>2. rows'[l].exists
      BY <3>1 DEF TypeOK
    <3> QED
      BY <3>2 DEF RowKept
  <2>2. CASE CacheNewSession(l) \/ ClearLoginAttempts(l)
    BY <1>2, <2>2 DEF CacheNewSession, ClearLoginAttempts
  <2>3. CASE RegisterLoginAttempt(l) \/ VerifyCredentials(l) \/ UndoSession(l)
    <3>1. \E step \in {"failed", "verify", "rev"} : Goto(l, step)
      BY <2>3 DEF RegisterLoginAttempt, VerifyCredentials, UndoSession
    <3> QED
      BY <3>1, Going
  <2>4. CASE RevisionStep(l)
    <3>1. revision \in Revision /\ [value |-> l, notBefore |-> 0] \in Revision
      BY DEF TypeOK, Revision
    <3>2. CASE \E r \in Revision : WithRevision(l, r)
      BY <3>2, ReadRevision
    <3>3. CASE \E step \in {"revNX", "revGet"} : Goto(l, step)
      BY <3>3, Going
    <3> QED
      BY <2>4, <3>1, <3>2, <3>3 DEF RevisionStep, GetRevision, CreateRevision, GetRevisionAgain
  <2> QED
    BY <1>3, <2>1, <2>2, <2>3, <2>4 DEF LoginStep
<1>4. ASSUME NEW m \in Logins, m # l, LoginStep(m) PROVE RowKept(l)
  <2>1. rows'[l] = rows[l]
    <3>1. \/ UNCHANGED rows
          \/ rows' = [rows EXCEPT ![m].expires = now + SessionTTL]
          \/ rows' = [rows EXCEPT ![m].exists = TRUE, ![m].created = now]
          \/ rows' = [rows EXCEPT ![m].exists = FALSE]
      BY <1>4 DEF LoginStep, RegisterLoginAttempt, VerifyCredentials, CreateAdminSession, CacheNewSession, InsertSession,
                  UndoSession, ClearLoginAttempts, RevisionStep, GetRevision, CreateRevision, GetRevisionAgain
    <3> QED
      BY <1>4, <3>1 DEF TypeOK
  <2>2. pc'[l] = pc[l]
    <3>1. CASE RevisionStep(m)
      <4>1. revision \in Revision /\ [value |-> m, notBefore |-> 0] \in Revision
        BY DEF TypeOK, Revision
      <4>2. CASE \E r \in Revision : WithRevision(m, r)
        BY <1>4, <4>2, ReadRevision
      <4>3. CASE \E step : Goto(m, step)
        BY <1>4, <4>3, Going
      <4> QED
        BY <3>1, <4>1, <4>2, <4>3 DEF RevisionStep, GetRevision, CreateRevision, GetRevisionAgain
    <3>2. CASE ~RevisionStep(m)
      <4>1. \E step : Goto(m, step)
        BY <1>4, <3>2 DEF LoginStep, RegisterLoginAttempt, VerifyCredentials, CreateAdminSession, CacheNewSession,
                          UndoSession, ClearLoginAttempts
      <4> QED
        BY <1>4, <4>1, Going
    <3> QED
      BY <3>1, <3>2
  <2> QED
    BY <2>1, <2>2 DEF RowKept
<1>5. ASSUME NEW k \in Checks, CheckStep(k) PROVE RowKept(l)
  <2>1. UNCHANGED rows
    BY <1>5 DEF CheckStep, LoadTombstone, LoadCached, LoadDatabaseSession, RestoreDatabaseSession, CheckExpiry,
                RevisionStep, GetRevision, CreateRevision, GetRevisionAgain
  <2>2. pc'[l] = pc[l]
    <3>1. CASE RevisionStep(k)
      <4>1. revision \in Revision /\ [value |-> k, notBefore |-> 0] \in Revision
        BY DEF TypeOK, Revision
      <4>2. CASE \E r \in Revision : WithRevision(k, r)
        BY <4>2, ReadRevision
      <4>3. CASE \E step : Goto(k, step)
        BY <4>3, Going
      <4> QED
        BY <3>1, <4>1, <4>2, <4>3 DEF RevisionStep, GetRevision, CreateRevision, GetRevisionAgain
    <3>2. CASE ~RevisionStep(k)
      <4>1. \E step : Goto(k, step)
        BY <1>5, <3>2 DEF CheckStep, LoadTombstone, LoadCached, LoadDatabaseSession, RestoreDatabaseSession, CheckExpiry
      <4> QED
        BY <4>1, Going
    <3> QED
      BY <3>1, <3>2
  <2> QED
    BY <1>2, <2>1, <2>2
<1>6. ASSUME NEW p \in Checks \cup Logouts, RevokeStep(p) PROVE RowKept(l)
  <2>1. pc'[l] = pc[l]
    <3>1. \E step : Goto(p, step)
      BY <1>6 DEF RevokeStep, RevokeExpired, DeleteCached, DeleteRow
    <3> QED
      BY <3>1, Going
  <2>2. CASE DeleteRow(p)
    <3>1. pc[p] = "drop" /\ rows' = [rows EXCEPT ![token[p]].exists = FALSE]
      BY <2>2 DEF DeleteRow
    <3>2. token[p] = l \/ rows'[l] = rows[l]
      BY <3>1 DEF TypeOK
    <3> QED
      BY <2>1, <3>1, <3>2 DEF RowKept
  <2>3. CASE RevokeExpired(p) \/ DeleteCached(p)
    BY <1>2, <2>1, <2>3 DEF RevokeExpired, DeleteCached
  <2> QED
    BY <1>6, <2>2, <2>3 DEF RevokeStep
<1>7. ASSUME NEW o \in Logouts, Logout(o) PROVE RowKept(l)
  BY <1>2, <1>7, Going DEF Logout
<1>8. ASSUME NEW c \in Changes, ChangeStep(c) PROVE RowKept(l)
  <2>1. BeginChange(c)
    BY <1>8 DEF ChangeStep, RotateSessionRevision, UpdateAdmin, DeleteAdminSessions
  <2> QED
    BY <1>2, <2>1, Going DEF BeginChange
<1>9. ASSUME DeleteExpiredSessions PROVE RowKept(l)
  <2>1. /\ pc'[l] = pc[l]
        /\ rows' = [m \in Logins |-> [rows[m] EXCEPT !.exists = rows[m].exists /\ rows[m].expires > now]]
    BY <1>9 DEF DeleteExpiredSessions
  <2>2. rows[l].exists /\ rows[l].expires > now => rows'[l].exists
    <3>1. rows'[l].exists = (rows[l].exists /\ rows[l].expires > now)
      BY <2>1 DEF TypeOK
    <3> QED
      BY <3>1
  <2>3. now \in Nat /\ rows[l].expires \in Nat
    BY DEF TypeOK
  <2> QED
    BY <2>1, <2>2, <2>3 DEF RowKept
<1>10. ASSUME LoseCopy \/ Tick PROVE RowKept(l)
  BY <1>2, <1>10 DEF LoseCopy, Tick
<1> QED
  BY <1>1, <1>3, <1>4, <1>5, <1>6, <1>7, <1>8, <1>9, <1>10 DEF Next

LEMMA ReasonsKept ==
  ASSUME TypeOK, TypeOK', Clocks, Revisions, Tokens, Ending, Reasons, Next, Effect
  PROVE  Reasons'
<1> USE Apart, Typed, Monotone
<1> SUFFICES ASSUME faults' = 0, \A c \in Changes : pc'[c] = "begin"
             PROVE  /\ \A l \in Logins :
                         /\ tomb'[l] > now' => Over(l)'
                         /\ pc'[l] \in {"save", "clear", "done"} => rows'[l].exists \/ Over(l)'
                    /\ \A k \in Checks : pc'[k] \in {"revoke", "uncache", "drop", "rejected"} => Over(token[k])'
                    /\ \A o \in Logouts : pc'[o] \in {"uncache", "drop"} => token'[o] \in dead'
  BY DEF Reasons
<1>1. faults = 0 /\ UNCHANGED faults /\ ~CallFails
  BY DEF Next, CallFails, TypeOK
<1>2. \A c \in Changes : pc[c] = "begin"
  OBVIOUS
<1>3. /\ \A l \in Logins : /\ tomb[l] > now => Over(l)
                           /\ pc[l] \in {"save", "clear", "done"} => rows[l].exists \/ Over(l)
      /\ \A k \in Checks : pc[k] \in {"revoke", "uncache", "drop", "rejected"} => Over(token[k])
      /\ \A o \in Logouts : pc[o] \in {"uncache", "drop"} => token[o] \in dead
  BY <1>1, <1>2 DEF Reasons
<1>4. now' >= now /\ now \in Nat /\ now' \in Nat /\ dead \subseteq dead'
  BY DEF Effect, DeadEffect, TypeOK
<1>5. ASSUME NEW s \in Logins, Over(s), pc[s] # "verify" PROVE s \in dead' \/ rows'[s].expires <= now'
  <2>1. rows'[s].expires = rows[s].expires /\ rows[s].expires \in Nat
    BY <1>5 DEF Effect, RowsEffect
  <2> QED
    BY <1>4, <1>5, <2>1 DEF Over
<1>6. \A s \in Issued : s \in Logins /\ pc[s] # "verify"
  BY DEF Issued
<1>7. ASSUME NEW l \in Logins, tomb'[l] > now' PROVE l \in dead' \/ rows'[l].expires <= now'
  <2>1. CASE tomb'[l] = tomb[l]
    <3>1. tomb[l] > now /\ tomb[l] > 0
      BY <1>4, <1>7, <2>1
    <3> QED
      BY <1>3, <1>5, <1>6, <3>1 DEF Tokens
  <2>2. CASE l \in dead'
    BY <2>2
  <2>3. CASE \E k \in Checks : pc[k] = "revoke" /\ token[k] = l
    <3>1. Over(l) /\ l \in Issued
      BY <1>3, <2>3 DEF Tokens
    <3> QED
      BY <1>5, <1>6, <3>1
  <2>4. tomb'[l] = tomb[l] \/ l \in dead' \/ \E k \in Checks : pc[k] = "revoke" /\ token[k] = l
    BY <1>1, TombReason DEF TypeOK
  <2> QED
    BY <2>1, <2>2, <2>3, <2>4
<1>8. ASSUME NEW l \in Logins, pc'[l] \in {"save", "clear", "done"}
      PROVE  rows'[l].exists \/ l \in dead' \/ rows'[l].expires <= now'
  <2>1. CASE /\ pc[l] \in {"save", "clear", "done"}
             /\ \/ ~rows[l].exists
                \/ rows[l].expires <= now
                \/ \E p \in Checks \cup Logouts : pc[p] = "drop" /\ token[p] = l
    <3>1. Over(l)
      BY <1>3, <2>1 DEF Over
    <3> QED
      BY <1>5, <2>1, <3>1
  <2> QED
    BY <1>1, <1>2, <1>8, <2>1, RowReason DEF RowKept
<1>9. ASSUME NEW k \in Checks, pc'[k] \in {"revoke", "uncache", "drop", "rejected"}
      PROVE  token'[k] \in dead' \/ rows'[token'[k]].expires <= now'
  <2>1. CASE pc[k] \in {"revoke", "uncache", "drop", "rejected"} /\ token'[k] = token[k]
    BY <1>3, <1>5, <1>6, <2>1 DEF Tokens
  <2>2. CASE Over(token[k]) /\ token'[k] = token[k] /\ pc[k] # "begin"
    BY <1>5, <1>6, <2>2 DEF Tokens
  <2>3. CASE LoadTombstone(k)
    <3>1. PICK s \in Issued : /\ token' = [token EXCEPT ![k] = s]
                              /\ Goto(k, IF tomb[s] > now THEN "rejected" ELSE "cached")
      BY <2>3 DEF LoadTombstone
    <3>2. tomb[s] > now /\ token'[k] = s
      BY <1>9, <3>1, Going DEF TypeOK
    <3> QED
      BY <1>3, <1>5, <1>6, <3>2
  <2>4. CASE LoadDatabaseSession(k)
    <3>1. ~rows[token[k]].exists /\ UNCHANGED token /\ pc[k] # "begin"
      BY <1>9, <2>4, Going DEF LoadDatabaseSession, local
    <3>2. pc[token[k]] = "done" /\ token[k] \in Logins
      BY <3>1 DEF Tokens, Issued
    <3> QED
      BY <1>3, <2>2, <3>1, <3>2
  <2>5. CASE RestoreDatabaseSession(k)
    <3>1. Refused(k) /\ UNCHANGED token /\ pc[k] # "begin"
      BY <1>9, <2>5, Going DEF RestoreDatabaseSession, local
    <3>2. rev[k].notBefore = 0
      BY <1>2 DEF Revisions, Genuine, Begun
    <3>3. rows[token[k]].expires <= now
      BY <3>1, <3>2 DEF Refused, RevokedByRevision
    <3> QED
      BY <2>2, <3>1, <3>3 DEF Over
  <2>6. CASE CheckExpiry(k)
    <3>1. ~(rows[token[k]].expires > now) /\ UNCHANGED token /\ pc[k] # "begin"
      BY <1>9, <2>6, Going DEF CheckExpiry, local
    <3>2. rows[token[k]].expires \in Nat
      BY <3>1 DEF Tokens, Issued
    <3> QED
      BY <1>4, <2>2, <3>1, <3>2 DEF Over
  <2>7. CASE LoadCached(k)
    BY <1>9, <2>7, Going DEF LoadCached
  <2>8. CASE RevisionStep(k)
    <3>1. revision \in Revision /\ [value |-> k, notBefore |-> 0] \in Revision
      BY DEF TypeOK, Revision
    <3>2. CASE \E r \in Revision : WithRevision(k, r)
      BY <1>9, <3>2, ReadRevision
    <3>3. CASE \E step \in {"revNX", "revGet"} : Goto(k, step)
      BY <1>9, <3>3, Going
    <3> QED
      BY <2>8, <3>1, <3>2, <3>3 DEF RevisionStep, GetRevision, CreateRevision, GetRevisionAgain
  <2>9. CASE RevokeStep(k)
    <3>1. pc[k] \in {"revoke", "uncache", "drop"} /\ UNCHANGED token
      BY <2>9 DEF RevokeStep, RevokeExpired, DeleteCached, DeleteRow, local
    <3> QED
      BY <2>1, <3>1
  <2>10. CASE Idle(k)
    BY <1>9, <2>1, <2>10 DEF Idle
  <2> QED
    BY <1>1, <2>3, <2>4, <2>5, <2>6, <2>7, <2>8, <2>9, <2>10, WhoseStep DEF CheckStep
<1>10. \A o \in Logouts : pc'[o] \in {"uncache", "drop"} => token'[o] \in dead'
  BY <1>3, <1>4 DEF Effect, LogoutEffect
<1> QED
  BY <1>7, <1>8, <1>9, <1>10 DEF Over

----------------------------------------------------------------------------
LEMMA SessionInit == Init => SessionInv
<1> SUFFICES ASSUME Init PROVE SessionInv
  OBVIOUS
<1> USE Apart
<1>1. TypeOK
  BY TypeInit
<1>2. /\ \A p \in Procs : pc[p] = IF p \in Logins THEN "register" ELSE "begin"
      /\ now = 1 /\ revision = NoRevision /\ dead = {} /\ faults = 0
      /\ \A l \in Logins : rows[l].created = 0 /\ rows[l].expires = 0 /\ tomb[l] = 0 /\ cache[l].value = None
      /\ \A p \in Holders : rev[p] = NoRevision
      /\ \A k \in Checks : copy[k] = None /\ late[k] = FALSE
      /\ \A c \in Changes : change[c].old = {}
  BY DEF Init
<1>3. /\ \A l \in Logins : pc[l] = "register"
      /\ \A k \in Checks : pc[k] = "begin"
      /\ \A o \in Logouts : pc[o] = "begin"
      /\ \A c \in Changes : pc[c] = "begin"
  BY <1>2
<1>4. Clocks
  BY <1>2, <1>3 DEF Clocks
<1>5. Revisions /\ Fresh
  BY <1>2, <1>3 DEF Revisions, Genuine, NoRevision, Fresh
<1>6. Tokens
  BY <1>2, <1>3 DEF Tokens
<1>7. Ending /\ Late
  BY <1>2, <1>3 DEF Ending, Late
<1>8. FirstRevision
  BY <1>2 DEF FirstRevision, OneFirstRevision, NoRevision
<1>9. Reasons
  BY <1>2, <1>3 DEF Reasons
<1> QED
  BY <1>1, <1>4, <1>5, <1>6, <1>7, <1>8, <1>9 DEF SessionInv

LEMMA SessionStep == SessionInv /\ [Next]_vars => SessionInv'
<1> SUFFICES ASSUME SessionInv, [Next]_vars PROVE SessionInv'
  OBVIOUS
<1> USE DEF SessionInv
<1>1. CASE Next
  <2>1. TypeOK' /\ Effect
    BY <1>1, StepEffect
  <2>2. Clocks'
    BY <2>1, ClocksKept
  <2>3. Revisions'
    BY <2>1, RevisionsKept
  <2>4. Fresh'
    BY <2>1, <2>2, <2>3, FreshKept
  <2>5. Tokens'
    BY <2>1, TokensKept
  <2>6. Ending'
    BY <2>1, EndingKept
  <2>7. Late'
    BY <1>1, <2>1, <2>3, LateKept
  <2>8. FirstRevision'
    BY <2>1, FirstRevisionKept
  <2>9. Reasons'
    BY <1>1, <2>1, ReasonsKept
  <2> QED
    BY <2>1, <2>2, <2>3, <2>4, <2>5, <2>6, <2>7, <2>8, <2>9
<1>2. CASE UNCHANGED vars
  <2>1. TypeOK'
    BY <1>2 DEF vars, redis, local, TypeOK, Revision
  <2>2. Clocks' /\ Revisions' /\ Fresh' /\ Tokens'
    BY <1>2 DEF vars, redis, local, Clocks, Revisions, Genuine, Begun, Fresh, Tokens, Issued
  <2>3. Ending' /\ Late'
    BY <1>2 DEF vars, redis, local, Ending, LoggedOut, ChangedAway, Ends, Issued, Late
  <2>4. FirstRevision' /\ Reasons'
    BY <1>2 DEF vars, redis, local, FirstRevision, OneFirstRevision, Reasons, Over
  <2> QED
    BY <2>1, <2>2, <2>3, <2>4
<1> QED
  BY <1>1, <1>2

LEMMA SessionInvariant == Spec => []SessionInv
BY SessionInit, SessionStep, PTL DEF Spec

\* loadSession never accepts a token that was logged out, or whose session existed
\* when a change of the credentials began, before the request came.
THEOREM EndedStaysEnded == Spec => []RevokedStaysRevoked
<1>1. SessionInv => RevokedStaysRevoked
  BY DEF SessionInv, Late, RevokedStaysRevoked
<1> QED
  BY <1>1, SessionInvariant, PTL

\* The state of the sessions is well formed, CurrentSessionRevision gives all callers the
\* same first revision, and without failed calls and changes of the credentials
\* loadSession rejects only sessions that were logged out or have expired.
THEOREM SessionsStayConsistent == Spec => []SessionsConsistent
<1>1. SessionInv => SessionsConsistent
  BY DEF SessionInv, FirstRevision, Reasons, Over, SessionsConsistent, NoSpuriousRejection
<1> QED
  BY <1>1, SessionInvariant, PTL

=============================================================================
