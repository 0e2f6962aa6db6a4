---------------------------- MODULE Coordination ----------------------------
(***************************************************************************)
(* The Redis side of account scheduling (internal/accounts/                *)
(* redis_coordinator.go over internal/database/redis.go), as values and    *)
(* operators on them.  Every operator is ONE Redis command or ONE Lua      *)
(* script, which Redis executes atomically; a module that calls two of     *)
(* them takes two steps.                                                   *)
(*                                                                         *)
(*   lease set   a sorted set per account: owner -> deadline, 0 when the   *)
(*               owner is not a member;                                    *)
(*   cooldown    a key per account holding the deadline at which the key   *)
(*               itself expires, 0 when there is no key;                   *)
(*   affinity    a key per conversation: [acct, exp], the account it is    *)
(*               bound to and the time the key expires.                    *)
(***************************************************************************)
EXTENDS Naturals, FiniteSets

CONSTANT NoAccount      \* the empty account ID of the Go code

Later(x, y) == IF x > y THEN x ELSE y

----------------------------------------------------------------------------
(* Concurrency leases.                                                     *)

\* The members a lease script sees after ZREMRANGEBYSCORE -inf .. t.
LiveOwners(z, t) == {o \in DOMAIN z : z[o] > t}

PurgeExpired(z, t) == [o \in DOMAIN z |-> IF z[o] > t THEN z[o] ELSE 0]

\* Mutant: the script compares with <= instead of <.
LeaseFitsOffByOne(z, o, limit, t) ==
  o \in LiveOwners(z, t) \/ Cardinality(LiveOwners(z, t)) <= limit

\* Would the script answer 1: a replayed owner, or a free place?
LeaseFits(z, o, limit, t) ==
  \/ o \in LiveOwners(z, t)
  \/ Cardinality(LiveOwners(z, t)) < limit

AcquireLeaseSlot(z, o, limit, ttl, t) ==
  IF LeaseFits(z, o, limit, t)
    THEN [PurgeExpired(z, t) EXCEPT ![o] = t + ttl]
    ELSE PurgeExpired(z, t)

ReleaseLeaseSlot(z, o) == [z EXCEPT ![o] = 0]

----------------------------------------------------------------------------
(* Cooldown deadlines.  An expired key and an absent one read the same.    *)

CoolingDown(deadline, t) == deadline > t

\* Mutant: the last deadline written wins.
SetLast(current, candidate) == candidate

SetIfGreater(current, candidate) ==
  IF current >= candidate THEN current ELSE candidate

\* RedisCoordinator.SetCooldown ignores a deadline that has already passed.
SetCooldown(current, until, t) ==
  IF until > t THEN SetIfGreater(current, until) ELSE current

----------------------------------------------------------------------------
(* Conversation affinity.                                                  *)

NoBinding == [acct |-> NoAccount, exp |-> 0]

\* The GET of an affinity key: the bound account, or NoAccount on a miss.
GetAffinity(b, t) == IF b.exp > t THEN b.acct ELSE NoAccount

SetNX(b, a, ttl, t) ==
  IF GetAffinity(b, t) = NoAccount THEN [acct |-> a, exp |-> t + ttl] ELSE b

\* Mutant: DEL without the comparison.
DeleteBlindly(b, a, t) == NoBinding

CompareDelete(b, a, t) == IF GetAffinity(b, t) = a THEN NoBinding ELSE b

CompareExpire(b, a, ttl, t) ==
  IF GetAffinity(b, t) = a THEN [b EXCEPT !.exp = t + ttl] ELSE b
=============================================================================
