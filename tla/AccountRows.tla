---------------------------- MODULE AccountRows ----------------------------
(***************************************************************************)
(* The PostgreSQL rows of the accounts table and the two ways the program  *)
(* writes them (internal/store/accounts.go): the field-level runtime       *)
(* update that carries health feedback, and the whole-row update behind    *)
(* ManagementService.UpdateAccount.                                        *)
(*                                                                         *)
(* A row keeps what scheduling depends on: status, cooldown_until (0 is    *)
(* NULL), the revision of the sealed credential, and the time until which  *)
(* the stored quota snapshot blocks the account (0: it does not).          *)
(***************************************************************************)
EXTENDS Naturals

CONSTANTS Creds         \* revisions of a sealed credential

Status   == {"active", "cooldown", "disabled", "expired", "error"}
Terminal == {"disabled", "expired", "error"}

Row == [exists : BOOLEAN, status : Status, until : Nat, cred : Creds, quota : Nat]

\* Mutants of the statement below: without the check of the credential, of the deadline.
UpdateAnyCredential(row, in, t) ==
  IF row.status \in Terminal THEN row
  ELSE [row EXCEPT !.status = in.status, !.until = in.until, !.quota = in.quota]
UpdateShortens(row, in, t) ==
  LET running == in.status = "active" /\ row.status = "cooldown" /\ row.until > t
  IN  IF row.status \in Terminal \/ row.cred # in.cred \/ running THEN row
      ELSE [row EXCEPT !.status = in.status, !.until = in.until, !.quota = in.quota]

\* UPDATE accounts ... WHERE id = $1, as health feedback writes it: a terminal
\* row and a row whose credential was replaced keep their state; "active" does
\* not end a cooldown that is still running; "cooldown" keeps the later deadline.
UpdateAccountRuntime(row, in, t) ==
  LET frozen  == row.status \in Terminal \/ row.cred # in.cred
      running == in.status = "active" /\ row.status = "cooldown" /\ row.until > t
      longer  == in.status = "cooldown" /\ row.until # 0
                   /\ (in.until = 0 \/ row.until > in.until)
  IN  IF frozen
        THEN row
        ELSE [row EXCEPT !.status = IF running THEN @ ELSE in.status,
                         !.until  = IF running \/ longer THEN @ ELSE in.until,
                         !.quota  = in.quota]

\* prepareAccountUpdate: what each administrative operation does to the row it
\* read.  "edit" changes only fields that scheduling state does not include.
PrepareAccountUpdate(row, op, fresh) ==
  CASE op = "activate"   -> [row EXCEPT !.status = "active", !.until = 0]
    [] op = "disable"    -> [row EXCEPT !.status = "disabled", !.until = 0]
    [] op = "quarantine" -> [row EXCEPT !.status = "error", !.until = 0]
    [] op = "refresh"    -> [row EXCEPT !.status = "active", !.until = 0, !.cred = fresh]
    [] OTHER             -> row
=============================================================================
