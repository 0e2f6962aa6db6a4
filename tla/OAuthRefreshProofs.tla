------------------------- MODULE OAuthRefreshProofs -------------------------
(***************************************************************************)
(* Type correctness, OverrunIsContained and RotationSerialized of          *)
(* OAuthRefresh, for any number of background passes and calls.            *)
(*                                                                         *)
(* The argument: a process inside a locked section that has not outlived   *)
(* its lock owns it, so two of them are one.  Until a lock has expired     *)
(* under its owner nobody else can write a new credential during an       *)
(* exchange, and a write from an outdated copy of the row puts a replaced  *)
(* credential back, which the history records.  A credential named after  *)
(* a process is stored only when that process has obtained it, so it is    *)
(* new when it is stored.                                                  *)
(***************************************************************************)
EXTENDS OAuthRefresh, TLAPS

\* A process in a locked section owns the lock, unless the lock expired under it.
LockOwned == \A p \in Procs : pc[p] \in Locked /\ p \notin overran => lock = p

\* The credential of a copy of the row is the current one or was replaced.
CopiesKnown == \A p \in Procs : copy[p].cred \in replaced \cup {row.cred}

\* The steps after a process may have stored its new credential.
Stored == {"unlock", "probe", "probing", "final", "finalWrite", "done", "dead"}

\* A process that has not saved yet has its own credential nowhere in the database,
\* and it saves no other one.
NewNames ==
  \A p \in Procs : /\ pc[p] \notin Stored => p \notin replaced \cup {row.cred}
                   /\ update[p].cred \in {NoOne, p}

\* Without a write that reverts the credential, the stored one was never replaced,
\* and as long as no lock expired under its owner an exchange uses it.
Current ==
  ~reverted => /\ row.cred \notin replaced
               /\ overran = {} => \A p \in Procs : pc[p] = "exchange" => cred[p] = row.cred

\* The inductive invariant.
Inv == TypeOK /\ LockOwned /\ CopiesKnown /\ NewNames /\ Current

USE DEF Procs

----------------------------------------------------------------------------
(* Operators.                                                              *)

\* UpdateAccountRuntime yields a row with the same credential, and one of the two
\* deadlines.
LEMMA RuntimeRow ==
  ASSUME NEW r \in Row, NEW in \in Row, NEW t \in Nat
  PROVE  /\ UpdateAccountRuntime(r, in, t) \in Row
         /\ UpdateAccountRuntime(r, in, t).cred = r.cred
         /\ UpdateAccountRuntime(r, in, t).until \in {r.until, in.until}
  BY DEF UpdateAccountRuntime, Row

\* So does a probe, whose feedback is made of the copy of the row it has read.
LEMMA ProbedRow ==
  ASSUME TypeOK, NEW p \in Procs, ProbeSucceeds(p) \/ ProbeFails(p)
  PROVE  row' \in Row /\ row'.cred = row.cred /\ row'.until \in {0, Elapsed, Running}
<1>1. row \in Row /\ row.until \in {0, Elapsed, Running} /\ copy[p] \in Row
  BY DEF TypeOK
<1>2. ASSUME NEW s \in {"active", "cooldown", "disabled"}, NEW u \in {0, Running},
             row' = UpdateAccountRuntime(row, [copy[p] EXCEPT !.status = s, !.until = u], Elapsed)
      PROVE  row' \in Row /\ row'.cred = row.cred /\ row'.until \in {0, Elapsed, Running}
  <2> DEFINE in == [copy[p] EXCEPT !.status = s, !.until = u]
  <2>0. s \in Status /\ u \in Nat
    BY DEF Status, Running
  <2>1. in \in Row /\ in.until \in {0, Running}
    BY <1>1, <2>0 DEF Row
  <2>2. row' = UpdateAccountRuntime(row, in, 1)
    BY <1>2 DEF Elapsed
  <2> HIDE DEF in
  <2> QED
    BY <1>1, <2>1, <2>2, RuntimeRow
<1>3. CASE ProbeSucceeds(p)
  BY <1>2, <1>3 DEF ProbeSucceeds
<1>4. CASE ProbeFails(p)
  <2>1. CASE UNCHANGED row
    BY <1>1, <2>1
  <2>2. ASSUME NEW s \in {"cooldown", "disabled"},
               row' = UpdateAccountRuntime(row, [copy[p] EXCEPT !.status = s,
                        !.until = IF s = "cooldown" THEN Running ELSE 0], Elapsed)
        PROVE  row' \in Row /\ row'.cred = row.cred /\ row'.until \in {0, Elapsed, Running}
    BY <1>2, <2>2
  <2> QED
    BY <1>4, <2>1, <2>2 DEF ProbeFails
<1> QED
  BY <1>3, <1>4

\* SaveOAuthRefresh yields a row with the new credential, if there is one.
LEMMA SavedRow ==
  ASSUME NEW r \in Row, NEW u \in Update
  PROVE  /\ SaveOAuthRefresh(r, u) \in Row
         /\ SaveOAuthRefresh(r, u).until \in {0, Running}
         /\ SaveOAuthRefresh(r, u).cred = IF u.cred = NoOne THEN r.cred ELSE u.cred
<1>1. /\ u.status \in Status /\ u.until \in {0, Running} /\ u.until \in Nat
      /\ u.cred \in Creds \cup {NoOne}
  BY DEF Update, Running
<1>2. CASE u.cred = NoOne
  BY <1>1, <1>2 DEF SaveOAuthRefresh, Row
<1>3. CASE u.cred # NoOne
  BY <1>1, <1>3 DEF SaveOAuthRefresh, Row
<1> QED
  BY <1>2, <1>3

\* Putting an account back into quarantine keeps its credential.
LEMMA QuarantinedRow ==
  ASSUME NEW r \in Row
  PROVE  /\ PrepareAccountUpdate(r, "quarantine", First) \in Row
         /\ PrepareAccountUpdate(r, "quarantine", First).until = 0
         /\ PrepareAccountUpdate(r, "quarantine", First).cred = r.cred
  BY DEF PrepareAccountUpdate, Row, Status

\* The initial row and the empty update are well formed.
LEMMA InitialTypes ==
  InitialRow \in Row /\ InitialRow.until = 0 /\ InitialRow.cred = First /\ NoUpdate \in Update
  BY RefreshAssumption DEF InitialRow, Row, Status, NoUpdate, Update

\* A failed refresh records an update without a credential.
LEMMA FailureTypes ==
  ASSUME NEW p \in Procs
  PROVE  FailureUpdate(p) \in Update /\ FailureUpdate(p).cred = NoOne
  BY DEF FailureUpdate, Update, Status

----------------------------------------------------------------------------
(* Writes of the whole row.                                                *)

\* What such a write does to the parts of the invariant about the row, when it
\* stores either the credential of a copy or the new one of a process that saves.
LEMMA Written ==
  ASSUME Inv, NEW new \in Row, WriteRow(new), NEW p \in Procs, UNCHANGED <<copy, update, cred>>,
         new.until \in {0, Elapsed, Running},
         pc' \in [Procs -> Steps], pc'[p] \in Stored, \A q \in Procs \ {p} : pc'[q] = pc[q],
         \/ new.cred \in replaced \cup {row.cred}
         \/ new.cred = p /\ pc[p] = "saveWrite"
  PROVE  CopiesKnown' /\ NewNames' /\ Current'
<1>1. CopiesKnown'
  BY DEF Inv, CopiesKnown, WriteRow
<1>2. NewNames'
  BY DEF Inv, NewNames, WriteRow, TypeOK
<1>3. ~reverted' => row'.cred \notin replaced'
  BY DEF Inv, Current, NewNames, WriteRow, Stored
<1>4. ASSUME ~reverted', overran' = {}, NEW q \in Procs, pc'[q] = "exchange"
      PROVE  cred'[q] = row'.cred
  <2>1. q # p /\ pc[q] = "exchange"
    BY <1>4 DEF Stored
  <2>2. cred[q] = row.cred
    BY <1>4, <2>1 DEF Inv, Current, WriteRow
  <2>3. ~(new.cred = p /\ pc[p] = "saveWrite")
    BY <1>4, <2>1 DEF Inv, LockOwned, Locked, WriteRow
  <2> QED
    BY <1>4, <2>2, <2>3 DEF WriteRow
<1> QED
  BY <1>1, <1>2, <1>3, <1>4 DEF Current
----------------------------------------------------------------------------
(* Type correctness.                                                       *)

USE DEF locals, history

\* Every step of a process keeps types.
LEMMA ProcessTypes ==
  ASSUME TypeOK, NEW p \in Procs, RefreshStep(p) \/ Fault(p) \/ (p \in Imports /\ ImportStep(p))
  PROVE  TypeOK'
<1> USE DEF TypeOK, Goto, Steps, RefreshSteps, ImportSteps
<1>1. CASE ListDue(p)
  BY <1>1 DEF ListDue, Row
<1>2. CASE ReadCredentials(p)
  BY <1>2 DEF ReadCredentials, Row
<1>3. CASE AcquireLock(p)
  BY <1>3 DEF AcquireLock
<1>4. CASE ReadLatest(p)
  <2>1. [status |-> "error", until |-> 0, cred |-> NoOne] \in Update
    BY DEF Update, Status
  <2> QED
    BY <1>4, <2>1 DEF ReadLatest, Save
<1>5. CASE ExchangeAnswered(p)
  BY <1>5, RefreshAssumption DEF ExchangeAnswered, Save, SuccessStatus, Update, Status
<1>6. CASE ExchangeFails(p)
  BY <1>6, FailureTypes, RefreshAssumption DEF ExchangeFails, Save
<1>7. CASE SaveRead(p)
  BY <1>7 DEF SaveRead, ReadRow
<1>8. CASE SaveWrite(p)
  <2>1. row' \in Row /\ row'.until \in {0, Elapsed, Running}
    BY <1>8, SavedRow DEF SaveWrite, WriteRow
  <2>2. replaced' \in SUBSET Creds /\ reverted' \in BOOLEAN /\ overran' = overran
    BY <1>8 DEF SaveWrite, WriteRow, Row
  <2> QED
    BY <1>8, <2>1, <2>2 DEF SaveWrite
<1>9. CASE Unlock(p)
  BY <1>9 DEF Unlock, Released
<1>10. CASE ClearRead(p)
  BY <1>10 DEF ClearRead, ReadRow
<1>11. CASE ClearWrite(p)
  <2>1. row' \in Row /\ row'.until \in {0, Elapsed, Running}
    BY <1>11, SavedRow, InitialTypes DEF ClearWrite, WriteRow
  <2>2. replaced' \in SUBSET Creds /\ reverted' \in BOOLEAN /\ overran' = overran
    BY <1>11 DEF ClearWrite, WriteRow, Row
  <2> QED
    BY <1>11, <2>1, <2>2 DEF ClearWrite
<1>12. CASE LockedStepFails(p)
  BY <1>12 DEF LockedStepFails
<1>13. CASE Abandon(p)
  BY <1>13 DEF Abandon
<1>14. CASE UnlockFails(p)
  BY <1>14 DEF UnlockFails, Released
<1>15. CASE ClearFails(p)
  BY <1>15 DEF ClearFails
<1>16. CASE FinalFails(p)
  BY <1>16 DEF FinalFails
<1>17. CASE Crash(p)
  BY <1>17, RefreshAssumption DEF Crash
<1>18. CASE CreateHeld(p)
  BY <1>18 DEF CreateHeld, Row, Status
<1>19. CASE ProbeAcquire(p)
  BY <1>19 DEF ProbeAcquire, ReadRow
<1>20. CASE ProbeSucceeds(p)
  BY <1>20, ProbedRow DEF ProbeSucceeds
<1>21. CASE ProbeFails(p)
  BY <1>21, ProbedRow DEF ProbeFails
<1>22. CASE FinalRead(p)
  BY <1>22 DEF FinalRead, ReadRow
<1>23. CASE FinalWrite(p)
  <2>1. row' \in Row /\ row'.until \in {0, Elapsed, Running}
    BY <1>23, QuarantinedRow DEF FinalWrite, WriteRow
  <2>2. replaced' \in SUBSET Creds /\ reverted' \in BOOLEAN /\ overran' = overran
    BY <1>23 DEF FinalWrite, WriteRow, Row
  <2> QED
    BY <1>23, <2>1, <2>2 DEF FinalWrite
<1> QED
  BY <1>1, <1>2, <1>3, <1>4, <1>5, <1>6, <1>7, <1>8, <1>9, <1>10, <1>11, <1>12, <1>13, <1>14, <1>15, <1>16, <1>17, <1>18, <1>19, <1>20, <1>21, <1>22, <1>23 DEF RefreshStep, Fault, ImportStep

\* The initial state is well typed.
LEMMA InitTypes == Init => TypeOK
<1> SUFFICES ASSUME Init PROVE TypeOK
  OBVIOUS
<1>1. row \in Row /\ row.until \in {0, Elapsed, Running} /\ copy \in [Procs -> Row]
      /\ update \in [Procs -> Update]
  BY InitialTypes DEF Init
<1>2. /\ lock \in Procs \cup {NoOne} /\ valid \in Creds /\ age \in [Creds -> {"fresh", "due", "expired"}]
      /\ cred \in [Procs -> Creds] /\ crashes \in 0..MaxCrashes
  BY RefreshAssumption DEF Init
<1>3. pc \in [Procs -> Steps]
  BY DEF Init, Steps, RefreshSteps, ImportSteps
<1>4. /\ listed \in [Procs -> Status] /\ good \in [Procs -> BOOLEAN] /\ replaced \in SUBSET Creds
      /\ reverted \in BOOLEAN /\ overran \in SUBSET Procs
  BY DEF Init, Status
<1> QED
  BY <1>1, <1>2, <1>3, <1>4 DEF TypeOK

\* The passage of time keeps types.
LEMMA TimeTypes == TypeOK /\ (Ages \/ CooldownElapses \/ LockExpires) => TypeOK'
<1> SUFFICES ASSUME TypeOK, Ages \/ CooldownElapses \/ LockExpires PROVE TypeOK'
  OBVIOUS
<1>1. CASE Ages
  BY <1>1, RefreshAssumption DEF Ages, TypeOK
<1>2. CASE CooldownElapses
  BY <1>2 DEF CooldownElapses, TypeOK, Row, Elapsed
<1>3. CASE LockExpires
  BY <1>3 DEF LockExpires, TypeOK
<1> QED
  BY <1>1, <1>2, <1>3

\* Every step keeps types.
LEMMA TypeStep == TypeOK /\ [Next]_vars => TypeOK'
<1>1. TypeOK /\ UNCHANGED vars => TypeOK'
  BY DEF TypeOK, vars
<1> QED
  BY <1>1, ProcessTypes, TimeTypes DEF Next

----------------------------------------------------------------------------
(* The invariant.                                                          *)

\* A step of one process that keeps the credential of the row, the lock and the
\* history, enters no locked section, does not go back behind its save, and exchanges
\* only the credential of the row.
LEMMA LocalStep ==
  ASSUME Inv, NEW p \in Procs, NEW step \in Steps, Goto(p, step),
         row'.cred = row.cred, UNCHANGED <<lock, history>>,
         \A q \in Procs : copy'[q] = copy[q] \/ copy'[q] = row,
         \A q \in Procs : update'[q].cred \in {update[q].cred, NoOne, q},
         \A q \in Procs \ {p} : cred'[q] = cred[q],
         step = "exchange" => cred'[p] = row.cred,
         step \in Locked => pc[p] \in Locked,
         pc[p] \in Stored => step \in Stored
  PROVE  LockOwned' /\ CopiesKnown' /\ NewNames' /\ Current'
<1>1. pc' = [pc EXCEPT ![p] = step] /\ pc \in [Procs -> Steps]
  BY DEF Goto, Inv, TypeOK
<1>2. LockOwned'
  BY <1>1 DEF Inv, LockOwned
<1>3. CopiesKnown'
  BY DEF Inv, CopiesKnown
<1>4. NewNames'
  BY <1>1 DEF Inv, NewNames
<1>5. Current'
  BY <1>1 DEF Inv, Current
<1> QED
  BY <1>2, <1>3, <1>4, <1>5

\* The steps of a process: the first group only moves the process and its locals.
LEMMA ProcessStep ==
  ASSUME Inv, NEW p \in Procs, RefreshStep(p) \/ Fault(p) \/ (p \in Imports /\ ImportStep(p))
  PROVE  LockOwned' /\ CopiesKnown' /\ NewNames' /\ Current'
<1> USE DEF Locked, Stored
<1>0. TypeOK /\ TypeOK'
  BY ProcessTypes DEF Inv
<1>1. CASE ListDue(p)
  BY <1>1, <1>0, LocalStep DEF ListDue, Goto, TypeOK, Steps, RefreshSteps, ImportSteps
<1>2. CASE ReadCredentials(p)
  BY <1>2, <1>0, LocalStep DEF ReadCredentials, Goto, TypeOK, Steps, RefreshSteps, ImportSteps
<1>3. CASE ReadLatest(p)
  BY <1>3, <1>0, LocalStep DEF ReadLatest, Save, Goto, TypeOK, Steps, RefreshSteps, ImportSteps
<1>4. CASE ExchangeAnswered(p)
  BY <1>4, <1>0, LocalStep DEF ExchangeAnswered, Save, Goto, TypeOK, Steps, RefreshSteps, ImportSteps
<1>5. CASE ExchangeFails(p)
  BY <1>5, <1>0, LocalStep, FailureTypes DEF ExchangeFails, Save, Goto, TypeOK, Steps, RefreshSteps, ImportSteps
<1>6. CASE SaveRead(p)
  BY <1>6, <1>0, LocalStep DEF SaveRead, ReadRow, Goto, TypeOK, Steps, RefreshSteps, ImportSteps
<1>7. CASE ClearRead(p)
  BY <1>7, <1>0, LocalStep DEF ClearRead, ReadRow, Goto, TypeOK, Steps, RefreshSteps, ImportSteps
<1>8. CASE LockedStepFails(p)
  BY <1>8, <1>0, LocalStep DEF LockedStepFails, Goto, TypeOK, Steps, RefreshSteps, ImportSteps
<1>9. CASE Abandon(p)
  BY <1>9, <1>0, LocalStep DEF Abandon, Goto, TypeOK, Steps, RefreshSteps, ImportSteps
<1>10. CASE UnlockFails(p)
  BY <1>10, <1>0, LocalStep DEF UnlockFails, Released, Goto, TypeOK, Steps, RefreshSteps, ImportSteps
<1>11. CASE ClearFails(p)
  BY <1>11, <1>0, LocalStep DEF ClearFails, Goto, TypeOK, Steps, RefreshSteps, ImportSteps
<1>12. CASE FinalFails(p)
  BY <1>12, <1>0, LocalStep DEF FinalFails, Goto, TypeOK, Steps, RefreshSteps, ImportSteps
<1>13. CASE Crash(p)
  BY <1>13, <1>0, LocalStep DEF Crash, Goto, TypeOK, Steps, RefreshSteps, ImportSteps
<1>14. CASE CreateHeld(p)
  BY <1>14, <1>0, LocalStep DEF CreateHeld, Row, Goto, TypeOK, Steps, RefreshSteps, ImportSteps
<1>15. CASE ProbeAcquire(p)
  BY <1>15, <1>0, LocalStep DEF ProbeAcquire, ReadRow, Goto, TypeOK, Steps, RefreshSteps, ImportSteps
<1>16. CASE ProbeSucceeds(p)
  BY <1>16, <1>0, LocalStep, ProbedRow DEF ProbeSucceeds, Goto, TypeOK, Steps, RefreshSteps, ImportSteps
<1>17. CASE ProbeFails(p)
  BY <1>17, <1>0, LocalStep, ProbedRow DEF ProbeFails, Goto, TypeOK, Steps, RefreshSteps, ImportSteps
<1>18. CASE FinalRead(p)
  BY <1>18, <1>0, LocalStep DEF FinalRead, ReadRow, Goto, TypeOK, Steps, RefreshSteps, ImportSteps
<1>19. CASE AcquireLock(p)
  <2>1. lock = NoOne /\ lock' = p /\ pc' = [pc EXCEPT ![p] = "latest"]
        /\ UNCHANGED <<row, locals, history>> /\ pc[p] \notin Stored
    BY <1>19 DEF AcquireLock, Goto
  <2>2. LockOwned'
    BY <1>0, <2>1, RefreshAssumption DEF Inv, LockOwned, TypeOK
  <2>3. CopiesKnown' /\ NewNames' /\ Current'
    BY <1>0, <2>1 DEF Inv, CopiesKnown, NewNames, Current, TypeOK
  <2> QED
    BY <2>2, <2>3
<1>20. CASE Unlock(p)
  <2>1. PICK step \in {"done", "probe", "final"} :
          pc' = [pc EXCEPT ![p] = step] /\ UNCHANGED <<row, cred, copy, update, history>>
    BY <1>20 DEF Unlock, Released, Goto
  <2>2. lock' \in {lock, NoOne} /\ (lock' # lock => lock = p)
    BY <1>20 DEF Unlock
  <2>3. LockOwned'
    BY <1>0, <2>1, <2>2 DEF Inv, LockOwned, TypeOK
  <2>4. CopiesKnown' /\ NewNames' /\ Current'
    BY <1>0, <2>1 DEF Inv, CopiesKnown, NewNames, Current, TypeOK
  <2> QED
    BY <2>3, <2>4
<1>21. ASSUME NEW new \in Row, WriteRow(new), new.until \in {0, Running},
              \/ new.cred \in replaced \cup {row.cred}
              \/ new.cred = p /\ pc[p] = "saveWrite",
              NEW step \in Stored, Goto(p, step), step # "unlock" \/ pc[p] = "saveWrite",
              UNCHANGED <<lock, copy, update, cred>>
       PROVE  LockOwned' /\ CopiesKnown' /\ NewNames' /\ Current'
  <2>1. pc' = [pc EXCEPT ![p] = step] /\ pc' \in [Procs -> Steps]
    BY <1>0, <1>21 DEF Goto, TypeOK
  <2>2. LockOwned'
    BY <1>0, <1>21, <2>1 DEF Inv, LockOwned, WriteRow, TypeOK
  <2>3. CopiesKnown' /\ NewNames' /\ Current'
    BY <1>0, <1>21, <2>1, Written DEF TypeOK
  <2> QED
    BY <2>2, <2>3
<1>22. CASE SaveWrite(p)
  <2> DEFINE new == SaveOAuthRefresh(copy[p], update[p])
  <2>1. copy[p] \in Row /\ update[p] \in Update /\ update[p].cred \in {NoOne, p}
        /\ copy[p].cred \in replaced \cup {row.cred}
    BY <1>0 DEF Inv, CopiesKnown, NewNames, TypeOK
  <2>2. new \in Row /\ new.until \in {0, Running} /\ (new.cred = p \/ new.cred = copy[p].cred)
    BY <2>1, SavedRow
  <2>3. WriteRow(new) /\ Goto(p, "unlock") /\ pc[p] = "saveWrite" /\ UNCHANGED <<lock, copy, update, cred>>
    BY <1>22 DEF SaveWrite
  <2> HIDE DEF new
  <2> QED
    BY <2>1, <2>2, <2>3, <1>21
<1>23. CASE ClearWrite(p)
  <2> DEFINE new == SaveOAuthRefresh(copy[p], NoUpdate)
  <2>1. copy[p] \in Row /\ copy[p].cred \in replaced \cup {row.cred}
    BY <1>0 DEF Inv, CopiesKnown, TypeOK
  <2>2. new \in Row /\ new.until \in {0, Running} /\ new.cred = copy[p].cred
    BY <2>1, SavedRow, InitialTypes DEF NoUpdate
  <2>3. WriteRow(new) /\ Goto(p, "done") /\ UNCHANGED <<lock, copy, update, cred>>
    BY <1>23 DEF ClearWrite
  <2> HIDE DEF new
  <2> QED
    BY <2>1, <2>2, <2>3, <1>21
<1>24. CASE FinalWrite(p)
  <2> DEFINE new == PrepareAccountUpdate(copy[p], "quarantine", First)
  <2>1. copy[p] \in Row /\ copy[p].cred \in replaced \cup {row.cred}
    BY <1>0 DEF Inv, CopiesKnown, TypeOK
  <2>2. new \in Row /\ new.until \in {0, Running} /\ new.cred = copy[p].cred
    BY <2>1, QuarantinedRow
  <2>3. WriteRow(new) /\ Goto(p, "done") /\ UNCHANGED <<lock, copy, update, cred>>
    BY <1>24 DEF FinalWrite
  <2> HIDE DEF new
  <2> QED
    BY <2>1, <2>2, <2>3, <1>21
<1> QED
  BY <1>1, <1>2, <1>3, <1>4, <1>5, <1>6, <1>7, <1>8, <1>9, <1>10, <1>11, <1>12, <1>13,
     <1>14, <1>15, <1>16, <1>17, <1>18, <1>19, <1>20, <1>22, <1>23, <1>24
     DEF RefreshStep, Fault, ImportStep

\* The passage of time: whoever loses the lock inside its section is recorded.
LEMMA TimeStep ==
  ASSUME Inv, Ages \/ CooldownElapses \/ LockExpires
  PROVE  LockOwned' /\ CopiesKnown' /\ NewNames' /\ Current'
<1>1. row'.cred = row.cred /\ UNCHANGED <<pc, copy, update, cred, replaced, reverted>>
      /\ overran \subseteq overran'
  BY DEF Inv, TypeOK, Row, Ages, CooldownElapses, LockExpires
<1>2. CopiesKnown' /\ NewNames' /\ Current'
  BY <1>1 DEF Inv, CopiesKnown, NewNames, Current
<1>3. CASE LockExpires
  BY <1>1, <1>2, <1>3 DEF LockExpires, Inv, LockOwned, TypeOK
<1>4. CASE Ages \/ CooldownElapses
  BY <1>1, <1>2, <1>4 DEF Ages, CooldownElapses, Inv, LockOwned
<1> QED
  BY <1>3, <1>4

\* Every behaviour satisfies the invariant.
LEMMA InvHolds == Spec => []Inv
<1>1. Init => Inv
  <2> SUFFICES ASSUME Init PROVE Inv
    OBVIOUS
  <2>1. TypeOK
    BY InitTypes
  <2>2. row.cred = First /\ \A p \in Procs : p # First
    BY InitialTypes, RefreshAssumption DEF Init
  <2>3. \A p \in Procs : pc[p] \in {"list", "creds", "create"} /\ copy[p].cred = First
                          /\ update[p].cred = NoOne
    BY InitialTypes DEF Init, NoUpdate
  <2> QED
    BY <2>1, <2>2, <2>3
       DEF Init, Inv, LockOwned, CopiesKnown, NewNames, Current, Locked
<1>2. Inv /\ [Next]_vars => Inv'
  <2> SUFFICES ASSUME Inv, [Next]_vars PROVE Inv'
    OBVIOUS
  <2>1. TypeOK'
    BY TypeStep DEF Inv
  <2>2. CASE UNCHANGED vars
    BY <2>1, <2>2 DEF vars, Inv, LockOwned, CopiesKnown, NewNames, Current
  <2>3. CASE Next
    BY <2>1, <2>3, ProcessStep, TimeStep DEF Next, Inv
  <2> QED
    BY <2>2, <2>3
<1> QED
  BY <1>1, <1>2, PTL DEF Spec

----------------------------------------------------------------------------
\* Types, for any number of refreshes and imports (oauth.go: RefreshDue,
\* refreshAccount; accounts.go: runImportPostAction).
THEOREM RefreshTypes == Spec => []TypeOK
<1>1. Inv => TypeOK
  BY DEF Inv
<1> QED
  BY <1>1, InvHolds, PTL

\* A refresh that outlives its lock upsets only itself, whatever the number of
\* processes (oauth.go: refreshAccount, CompareDelete with the owner's token).
THEOREM Contained == Spec => []OverrunIsContained
<1>1. Inv => OverrunIsContained
  BY DEF Inv, LockOwned, OverrunIsContained
<1> QED
  BY <1>1, InvHolds, PTL

\* The lock and the second read of the credential serialise the rotation of refresh
\* tokens, whatever the number of processes (oauth.go: refreshAccount).
THEOREM Serialized == Spec => []RotationSerialized
<1>1. Inv => RotationSerialized
  BY DEF Inv, LockOwned, Current, RotationSerialized, Locked
<1> QED
  BY <1>1, InvHolds, PTL

----------------------------------------------------------------------------
(* A held account.                                                         *)

\* The steps only a background pass takes.
Background == {"list", "clearRead", "clearWrite"}

\* While nobody asks for a refresh, the account of an import is in error as long as
\* it exists: no background pass goes beyond its listing, the import itself saves
\* only the status it holds the account with, and feedback leaves a terminal row alone.
Held ==
  /\ \A p \in Procs : pc[p] \in Background => p \in Due
  /\ Imports # {} /\ (\A m \in Manual : pc[m] = "creds") =>
       /\ row.exists => row.status = "error"
       /\ \A p \in Due : pc[p] \in {"list", "done", "dead"}
       /\ \A i \in Imports : pc[i] \in {"saveRead", "saveWrite"} => update[i].status = "error"

\* A step of p leaves the other processes where they are, and nobody goes back to its start.
LEMMA Forward ==
  ASSUME TypeOK, NEW p \in Procs, RefreshStep(p) \/ Fault(p) \/ (p \in Imports /\ ImportStep(p))
  PROVE  /\ \A q \in Procs \ {p} : pc'[q] = pc[q]
         /\ pc'[p] \in Background => p \in Due \/ pc[p] \in Background
         /\ pc'[p] = "creds" => pc[p] = "list" \/ p \in Imports
<1> USE DEF TypeOK, Goto, Background
<1>1. PICK step :
        /\ Goto(p, step)
        /\ step \in Background => p \in Due \/ pc[p] \in Background
        /\ step = "creds" => pc[p] = "list" \/ p \in Imports
  <2>1. CASE ListDue(p) \/ ReadCredentials(p) \/ AcquireLock(p)
    BY <2>1 DEF ListDue, ReadCredentials, AcquireLock
  <2>2. CASE ReadLatest(p)
    BY <2>2 DEF ReadLatest, Save
  <2>3. CASE ExchangeAnswered(p) \/ ExchangeFails(p) \/ SaveRead(p) \/ SaveWrite(p)
    BY <2>3 DEF ExchangeAnswered, ExchangeFails, SaveRead, SaveWrite, Save, ReadRow
  <2>4. CASE Unlock(p) \/ UnlockFails(p)
    BY <2>4 DEF Unlock, UnlockFails, Released
  <2>5. CASE ClearRead(p) \/ ClearWrite(p) \/ ClearFails(p) \/ LockedStepFails(p) \/ Abandon(p)
    BY <2>5 DEF ClearRead, ClearWrite, ClearFails, LockedStepFails, Abandon, ReadRow
  <2>6. CASE FinalFails(p) \/ Crash(p)
    BY <2>6 DEF FinalFails, Crash
  <2>7. CASE p \in Imports /\ ImportStep(p)
    BY <2>7 DEF ImportStep, CreateHeld, ProbeAcquire, ProbeSucceeds, ProbeFails, FinalRead, FinalWrite, ReadRow
  <2> QED
    BY <2>1, <2>2, <2>3, <2>4, <2>5, <2>6, <2>7 DEF RefreshStep, Fault
<1> QED
  BY <1>1

\* A held account is not touched by feedback.
LEMMA FeedbackHeld ==
  ASSUME NEW in, NEW t, row.exists => row.status = "error", row \in Row,
         row' = UpdateAccountRuntime(row, in, t)
  PROVE  row'.exists => row'.status = "error"
<1>1. CASE row.exists
  BY <1>1 DEF UpdateAccountRuntime, Terminal
<1>2. CASE ~row.exists
  BY <1>2 DEF UpdateAccountRuntime, Row
<1> QED
  BY <1>1, <1>2

\* The steps of an import keep its account held.
LEMMA ImportHolds ==
  ASSUME TypeOK, NEW p \in Imports, RefreshStep(p) \/ Fault(p) \/ ImportStep(p), pc[p] \notin Background,
         row.exists => row.status = "error",
         pc[p] \in {"saveRead", "saveWrite"} => update[p].status = "error"
  PROVE  /\ row'.exists => row'.status = "error"
         /\ pc'[p] \in {"saveRead", "saveWrite"} => update'[p].status = "error"
<1> USE DEF TypeOK, Goto, Background
<1>1. p \notin Due /\ p \notin Manual /\ row \in Row
  BY RefreshAssumption
<1>2. CASE ReadLatest(p)
  BY <1>2 DEF ReadLatest, Save
<1>3. CASE ExchangeAnswered(p)
  BY <1>3 DEF ExchangeAnswered, Save, SuccessStatus
<1>4. CASE ExchangeFails(p)
  <2>1. FailureUpdate(p).status = "error"
    BY DEF FailureUpdate
  <2> QED
    BY <1>4, <2>1 DEF ExchangeFails, Save
<1>5. CASE SaveRead(p)
  BY <1>5 DEF SaveRead, ReadRow
<1>6. CASE SaveWrite(p)
  <2>1. copy[p] \in Row /\ update[p].status = "error" /\ row' = SaveOAuthRefresh(copy[p], update[p])
    BY <1>6 DEF SaveWrite, WriteRow
  <2>2. row'.status = "error"
    BY <2>1 DEF SaveOAuthRefresh, Row
  <2> QED
    BY <1>6, <2>2 DEF SaveWrite
<1>7. CASE ReadCredentials(p) \/ AcquireLock(p) \/ Unlock(p) \/ UnlockFails(p)
  BY <1>1, <1>7 DEF ReadCredentials, AcquireLock, Unlock, UnlockFails, Released
<1>8. CASE ListDue(p) \/ ClearRead(p) \/ ClearWrite(p) \/ ClearFails(p)
  BY <1>8 DEF ListDue, ClearRead, ClearWrite, ClearFails, ReadRow
<1>9. CASE LockedStepFails(p) \/ Abandon(p) \/ FinalFails(p) \/ Crash(p)
  BY <1>9 DEF LockedStepFails, Abandon, FinalFails, Crash
<1>10. CASE CreateHeld(p)
  BY <1>1, <1>10 DEF CreateHeld, Row
<1>11. CASE ProbeAcquire(p) \/ FinalRead(p)
  BY <1>11 DEF ProbeAcquire, FinalRead, ReadRow
<1>12. CASE ProbeSucceeds(p)
  BY <1>1, <1>12, FeedbackHeld DEF ProbeSucceeds
<1>13. CASE ProbeFails(p)
  BY <1>1, <1>13, FeedbackHeld DEF ProbeFails
<1>14. CASE FinalWrite(p)
  <2>1. copy[p] \in Row /\ row' = PrepareAccountUpdate(copy[p], "quarantine", First)
    BY <1>14 DEF FinalWrite, WriteRow
  <2>2. row'.status = "error"
    BY <2>1 DEF PrepareAccountUpdate, Row
  <2> QED
    BY <1>14, <2>2 DEF FinalWrite
<1> QED
  BY <1>2, <1>3, <1>4, <1>5, <1>6, <1>7, <1>8, <1>9, <1>10, <1>11, <1>12, <1>13, <1>14
     DEF RefreshStep, Fault, ImportStep

\* No step of an import writes the update of another process; no other step writes the
\* row unless a process has gone past its listing.
LEMMA HeldStep ==
  ASSUME TypeOK, Held, NEW p \in Procs, RefreshStep(p) \/ Fault(p) \/ (p \in Imports /\ ImportStep(p))
  PROVE  Held'
<1>1. \A q \in Procs : pc'[q] \in Background => q \in Due
  BY Forward DEF Held
<1>2. ASSUME Imports # {}, \A m \in Manual : pc'[m] = "creds"
      PROVE  /\ row'.exists => row'.status = "error"
             /\ \A q \in Due : pc'[q] \in {"list", "done", "dead"}
             /\ \A i \in Imports : pc'[i] \in {"saveRead", "saveWrite"} => update'[i].status = "error"
  <2>1. \A m \in Manual : pc[m] = "creds"
    <3> SUFFICES ASSUME NEW m \in Manual PROVE pc[m] = "creds"
      OBVIOUS
    <3>1. m \notin Imports /\ m \notin Due
      BY RefreshAssumption
    <3>2. CASE m = p
      BY <1>2, <3>1, <3>2, Forward DEF Held, Background
    <3>3. CASE m # p
      BY <1>2, <3>3, Forward
    <3> QED
      BY <3>2, <3>3
  <2>2. /\ row.exists => row.status = "error"
        /\ \A q \in Due : pc[q] \in {"list", "done", "dead"}
        /\ \A i \in Imports : pc[i] \in {"saveRead", "saveWrite"} => update[i].status = "error"
    BY <1>2, <2>1 DEF Held
  <2>3. CASE p \in Imports
    <3>1. p \notin Due /\ \A i \in Imports : i = p
      BY <2>3, RefreshAssumption
    <3>2. pc[p] \notin Background
      BY <3>1 DEF Held
    <3>3. /\ row'.exists => row'.status = "error"
          /\ pc'[p] \in {"saveRead", "saveWrite"} => update'[p].status = "error"
      BY <2>2, <2>3, <3>2, ImportHolds
    <3> QED
      BY <2>2, <3>1, <3>3, Forward
  <2>4. CASE p \in Manual
    <3>1. pc[p] = "creds" /\ pc'[p] = "creds" /\ p \notin Imports /\ p \notin Due
      BY <1>2, <2>1, <2>4, RefreshAssumption
    <3> QED
      BY <3>1, Forward
  <2>5. CASE p \in Due
    <3>1. p \notin Imports /\ p \notin Manual /\ pc[p] \in {"list", "done", "dead"}
      BY <2>2, <2>5, RefreshAssumption
    <3>2. (ListDue(p) \/ Crash(p)) /\ UNCHANGED <<row, update>>
      BY <3>1 DEF RefreshStep, Fault, ListDue, ReadCredentials, AcquireLock, ReadLatest, ExchangeAnswered, ExchangeFails,
                  SaveRead, SaveWrite, Unlock, ClearRead, ClearWrite, LockedStepFails, Abandon, UnlockFails,
                  ClearFails, FinalFails, Crash, ReadRow
    <3>3. pc'[p] \in {"done", "dead"}
      BY <2>2, <3>2 DEF ListDue, Crash, Goto, TypeOK
    <3> QED
      BY <2>2, <3>1, <3>2, <3>3, Forward
  <2> QED
    BY <2>3, <2>4, <2>5
<1> QED
  BY <1>1, <1>2 DEF Held

LEMMA HeldHolds == Spec => []Held
<1>1. ASSUME Init PROVE Held
  <2>1. \A p \in Procs : pc[p] = IF p \in Due THEN "list" ELSE IF p \in Manual THEN "creds" ELSE "create"
    BY <1>1 DEF Init
  <2>2. Imports # {} => ~row.exists
    BY <1>1 DEF Init, InitialRow
  <2>3. /\ \A p \in Due : p \in Procs
        /\ \A i \in Imports : i \in Procs /\ i \notin Due /\ i \notin Manual
    BY RefreshAssumption DEF Procs
  <2> QED
    BY <2>1, <2>2, <2>3 DEF Held, Background
<1>2. TypeOK /\ Held /\ [Next]_vars => Held'
  <2> SUFFICES ASSUME TypeOK, Held, [Next]_vars PROVE Held'
    OBVIOUS
  <2>1. CASE \E p \in Procs : RefreshStep(p) \/ Fault(p) \/ (p \in Imports /\ ImportStep(p))
    BY <2>1, HeldStep
  <2>2. CASE Ages \/ CooldownElapses \/ LockExpires \/ UNCHANGED vars
    <3>1. UNCHANGED <<pc, update>> /\ row'.exists = row.exists /\ row'.status = row.status
      BY <2>2 DEF Ages, CooldownElapses, LockExpires, vars, TypeOK, Row
    <3> QED
      BY <3>1 DEF Held
  <2> QED
    BY <2>1, <2>2 DEF Next
<1>3. Inv => TypeOK
  BY DEF Inv
<1> QED
  BY <1>1, <1>2, <1>3, InvHolds, PTL DEF Spec

\* An account imported with refresh_probe stays out of scheduling until refresh and
\* probe have succeeded, whatever fails and however many background passes run
\* (accounts.go: runImportPostAction, finalizeImportPostAction; oauth.go: RefreshDue).
THEOREM HeldAccounts == Spec => []HeldUntilProbed
<1>1. Held => HeldUntilProbed
  BY DEF Held, HeldUntilProbed
<1> QED
  BY <1>1, HeldHolds, PTL
=============================================================================
