---------------------------- MODULE MCAccountPool ----------------------------
(***************************************************************************)
(* Instances of AccountPool for TLC.  The configurations share these       *)
(* values and differ in the events they let happen.                        *)
(***************************************************************************)
EXTENDS AccountPool, TLC

CONSTANTS i1, i2, a1, a2, r1, r2, r3, p1, k1

\* r1, r2 and the administrator p1 are served by i1, the others by i2.
MCHome  == [x \in Requests \cup Admins |-> IF x \in {r1, r2, p1} THEN i1 ELSE i2]
MCHome1 == [x \in Requests \cup Admins |-> i1]
MCNoKeyOf == [r \in Requests |-> NoKey]
MCKeyOf   == [r \in Requests |-> k1]
MCLimit   == [a \in Accounts |-> 1]
MCLimit2  == [a \in Accounts |-> 2]
MCTier    == [a \in Accounts |-> 0]
MCNoExclusion == {{}}
MCExclusions  == {{}, {a1}}
Interchangeable == Permutations(Requests)
MCCreds == Admins \cup {InitialCred}

FB(kind, after, quota) == [kind |-> kind, after |-> after, quota |-> quota]
MCPlain     == {FB("canceled", 0, "nil")}
MCFailures  == {FB("ok", 0, "nil"), FB("limited", 2, "nil"), FB("failed", 0, "nil")}
MCQuota     == MCFailures \cup {FB("ok", 0, "reset"), FB("ok", 0, "stale"), FB("other", 0, "healthy")}
MCOutage    == {FB("failed", 0, "nil")}
MCLimited   == {FB("limited", 2, "nil"), FB("canceled", 0, "nil")}
MCDenials   == {FB("ok", 0, "nil"), FB("denied", 0, "nil"), FB("canceled", 0, "nil")}
=============================================================================
