---------------------------- MODULE LeaseSemaphore ----------------------------
(***************************************************************************)
(* What account scheduling promises its callers, without instances, pools, *)
(* Redis or retries: a counting semaphore per account whose permits expire.*)
(* A request works under at most one permit at a time; a permit that has   *)
(* expired no longer counts, although its request may still be running.    *)
(***************************************************************************)
EXTENDS Naturals, FiniteSets

CONSTANTS Accounts, Requests, NoAccount, Limit, LeaseTTL

VARIABLES now, permit

vars == <<now, permit>>

NoPermit == [acct |-> NoAccount, exp |-> 0]

InUse(a) == {r \in Requests : permit[r].acct = a /\ permit[r].exp > now}

Init == now = 1 /\ permit = [r \in Requests |-> NoPermit]

Grant(r, a) ==
  /\ permit[r] = NoPermit
  /\ Cardinality(InUse(a)) < Limit[a]
  /\ permit' = [permit EXCEPT ![r] = [acct |-> a, exp |-> now + LeaseTTL]]
  /\ UNCHANGED now

\* One request returns its permit, or an instance with several of them dies.
Return(S) ==
  /\ permit' = [r \in Requests |-> IF r \in S THEN NoPermit ELSE permit[r]]
  /\ UNCHANGED now

Tick == now' = now + 1 /\ UNCHANGED permit

Next ==
  \/ \E r \in Requests, a \in Accounts : Grant(r, a)
  \/ \E S \in SUBSET Requests : Return(S)
  \/ Tick

Spec == Init /\ [][Next]_vars
=============================================================================
