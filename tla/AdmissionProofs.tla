--------------------------- MODULE AdmissionProofs ---------------------------
(***************************************************************************)
(* GateExact, KeyConcurrency and FlushedMeansWritten of Admission, for any *)
(* number of requests and workers and any limits.                          *)
(*                                                                         *)
(* The gate: a request is counted when it enters and taken back when it    *)
(* leaves, so the counter is a cardinality, and it grows past a limit only *)
(* for a request that is then turned away.  The key: until the counter     *)
(* expires under a request it is lowered only together with the holders.   *)
(* The sink: an accepted entry is in the queue or in the hand of a worker; *)
(* a worker that has returned found the closed queue empty, and nothing is *)
(* put into a closed queue.                                                *)
(***************************************************************************)
EXTENDS Admission, FiniteSetTheorems, SequenceTheorems, TLAPS

\* The places between the gate and its deferred decrement.
Behind == {"auth", "slot", "serve", "log", "settle", "unslot", "exit"}
\* The places between the acquisition of a slot of the key and its release.
Served == {"serve", "log", "settle", "unslot"}

\* The inductive invariant of the gate, which is also what keeps its counter natural.
GateInv == TypeOK /\ GateBalanced

\* A worker that has returned has nothing in hand, and has found the channel closed and empty.
WorkersLeaveNothing ==
  /\ \A w \in exited : hand[w] = NoRequest
  /\ exited # {} => closed /\ queue = <<>>
  /\ phase = "flushed" => exited = Workers

\* An accepted entry that is not written yet is on its way.
AcceptedIsOnItsWay ==
  \A r \in Requests : entry[r] = "accepted" =>
    (\E n \in 1..Len(queue) : queue[n] = r) \/ (\E w \in Workers : hand[w] = r)

\* The inductive invariant of the sink.
SinkInv == WorkersLeaveNothing /\ AcceptedIsOnItsWay

----------------------------------------------------------------------------
(* Operators.                                                              *)

\* The requests at some places, after one of them has moved.
LEMMA Moved ==
  ASSUME TypeOK, NEW r \in Requests, NEW place \in Places, GoTo(r, place)
  PROVE  /\ at' \in [Requests -> Places]
         /\ at'[r] = place /\ \A q \in Requests \ {r} : at'[q] = at[q]
         /\ Counted' = IF place \in Behind \cup {"over"} THEN Counted \cup {r} ELSE Counted \ {r}
         /\ Inside' = IF place \in Behind THEN Inside \cup {r} ELSE Inside \ {r}
         /\ Holders' = IF place \in Served THEN Holders \cup {r} ELSE Holders \ {r}
<1>1. /\ at' \in [Requests -> Places]
      /\ at'[r] = place /\ \A q \in Requests \ {r} : at'[q] = at[q]
  BY DEF GoTo, TypeOK
<1>2. Counted' = IF place \in Behind \cup {"over"} THEN Counted \cup {r} ELSE Counted \ {r}
  BY <1>1 DEF Counted, Behind
<1>3. Inside' = IF place \in Behind THEN Inside \cup {r} ELSE Inside \ {r}
  BY <1>1 DEF Inside, Counted, Behind
<1>4. Holders' = IF place \in Served THEN Holders \cup {r} ELSE Holders \ {r}
  BY <1>1 DEF Holders, Served
<1> QED
  BY <1>1, <1>2, <1>3, <1>4

\* The sets of requests are finite, the ones inside are among the counted.
LEMMA Finite ==
  /\ IsFiniteSet(Counted) /\ IsFiniteSet(Inside) /\ IsFiniteSet(Holders)
  /\ Inside \subseteq Counted
  /\ Cardinality(Counted) \in Nat /\ Cardinality(Inside) \in Nat /\ Cardinality(Holders) \in Nat
  /\ Cardinality(Inside) <= Cardinality(Counted)
<1>1. Counted \subseteq Requests /\ Inside \subseteq Counted /\ Holders \subseteq Requests
  BY DEF Counted, Inside, Holders
<1>2. IsFiniteSet(Counted) /\ IsFiniteSet(Inside) /\ IsFiniteSet(Holders)
  BY <1>1, AdmissionAssumption, FS_Subset
<1> QED
  BY <1>1, <1>2, FS_Subset, FS_CardinalityType

\* The largest limit.
LEMMA LargestLimit ==
  Max(Limits) \in Nat /\ \A l \in Limits \cup {0} : l \in Nat /\ l <= Max(Limits)
<1>1. PICK m \in Limits : \A l \in Limits : l <= m
  BY AdmissionAssumption
<1>2. \A l \in Limits : m >= l
  BY <1>1, AdmissionAssumption
<1>3. Max(Limits) \in Limits /\ \A l \in Limits : Max(Limits) >= l
  BY <1>2 DEF Max
<1>4. \A l \in Limits : l \in Nat
  BY AdmissionAssumption
<1> DEFINE max == Max(Limits)
<1>5. max \in Nat /\ \A l \in Limits : max >= l
  BY <1>3, <1>4
<1> HIDE DEF max
<1>6. \A l \in Limits \cup {0} : l \in Nat /\ l <= max
  BY <1>4, <1>5
<1> QED
  BY <1>5, <1>6 DEF max

----------------------------------------------------------------------------
(* What a step does.                                                       *)

\* The steps that concern neither the counter of the gate nor the place of a request.
Aside ==
  \/ ChangeLimit \/ SlotsExpire \/ Shutdown \/ ShutdownReturns \/ CloseSink \/ CloseReturns
  \/ \E w \in Workers : WorkerStep(w) \/ WriteFails(w)

\* Every other step takes one request from one place to another, or ends the process.
Moves(r, from, to) == at[r] \in from /\ \E place \in to : GoTo(r, place)

LEMMA StepKinds ==
  ASSUME TypeOK, Next
  PROVE  \/ UNCHANGED <<at, active>>
         \/ \E r \in Requests :
              \/ UNCHANGED active /\ Moves(r, Behind, Behind)
              \/ UNCHANGED active /\ Moves(r, {"idle"}, {"limit"})
              \/ EnterGate(r)
              \/ Moves(r, {"over", "exit"}, {"done"}) /\ active' = active - 1
         \/ Exit
<1>1. CASE Aside
  BY <1>1 DEF Aside, ChangeLimit, SlotsExpire, Shutdown, ShutdownReturns, CloseSink, CloseReturns,
              WorkerStep, TakeEntry, WriteEntry, WorkerExits, WriteFails, gateVars
<1>2. CASE Exit
  BY <1>2
<1>3. ASSUME NEW r \in Requests, ReadLimit(r) \/ RequestStep(r) \/ RequestFails(r)
      PROVE  \/ UNCHANGED active /\ Moves(r, Behind, Behind)
             \/ UNCHANGED active /\ Moves(r, {"idle"}, {"limit"})
             \/ EnterGate(r)
             \/ Moves(r, {"over", "exit"}, {"done"}) /\ active' = active - 1
  <2>1. CASE ReadLimit(r)
    BY <2>1 DEF ReadLimit, Moves
  <2>2. CASE RefuseAtGate(r) \/ ExitGate(r)
    BY <2>2 DEF RefuseAtGate, ExitGate, LeaveGate, Moves
  <2>3. CASE AuthFails(r) \/ CheckWindows(r) \/ WindowsFail(r)
    BY <2>3 DEF AuthFails, CheckWindows, WindowsFail, Moves, Behind, gateVars
  <2>4. CASE AcquireSlot(r) \/ SlotUnavailable(r) \/ LeaveSlot(r) \/ LeaveSlotFails(r)
    BY <2>4 DEF AcquireSlot, SlotUnavailable, LeaveSlot, LeaveSlotFails, Moves, Behind, gateVars
  <2>5. CASE ServeRequest(r) \/ ServePanics(r) \/ Settle(r) \/ SettleFails(r)
    BY <2>5 DEF ServeRequest, ServePanics, Settle, SettleFails, Moves, Behind, gateVars
  <2>6. CASE CreateRequestLog(r)
    BY <2>6 DEF CreateRequestLog, Moves, Behind, gateVars
  <2> QED
    BY <1>3, <2>1, <2>2, <2>3, <2>4, <2>5, <2>6 DEF RequestStep, RequestFails
<1> QED
  BY <1>1, <1>2, <1>3 DEF Next, EndStep, Aside

\* What the steps do to the counter of the gate.
LEMMA GateStep ==
  ASSUME GateInv, Next
  PROVE  active' \in Nat /\ GateBalanced'
<1> DEFINE counted == Cardinality(Counted)
           inside == Cardinality(Inside)
<1>1. TypeOK /\ active = counted /\ inside <= Max(Limits)
  BY DEF GateInv, GateBalanced
<1>2. Max(Limits) \in Nat
  BY LargestLimit
<1>3. CASE UNCHANGED <<at, active>>
  BY <1>1, <1>3 DEF TypeOK, GateBalanced, Counted, Inside
<1>4. ASSUME NEW r \in Requests, UNCHANGED active, Moves(r, Behind, Behind)
      PROVE  active' \in Nat /\ GateBalanced'
  <2>1. PICK place \in Behind : GoTo(r, place)
    BY <1>4 DEF Moves
  <2>2. Counted' = Counted \cup {r} /\ Inside' = Inside \cup {r}
    BY <1>1, <2>1, Moved DEF Behind, Places
  <2>3. r \in Counted /\ r \in Inside
    BY <1>4 DEF Moves, Behind, Counted, Inside
  <2>4. Counted' = Counted /\ Inside' = Inside
    BY <2>2, <2>3
  <2> QED
    BY <1>1, <1>4, <2>4 DEF GateBalanced, TypeOK
<1>5. ASSUME NEW r \in Requests, UNCHANGED active, Moves(r, {"idle"}, {"limit"})
      PROVE  active' \in Nat /\ GateBalanced'
  <2>1. Counted' = Counted \ {r} /\ Inside' = Inside \ {r}
    BY <1>1, <1>5, Moved DEF Behind, Places, Moves
  <2>2. r \notin Counted /\ r \notin Inside
    BY <1>5 DEF Moves, Counted, Inside
  <2>3. Counted' = Counted /\ Inside' = Inside
    BY <2>1, <2>2
  <2> QED
    BY <1>1, <1>5, <2>3 DEF GateBalanced, TypeOK
<1>6. ASSUME NEW r \in Requests, EnterGate(r)
      PROVE  active' \in Nat /\ GateBalanced'
  <2>1. r \notin Counted /\ r \notin Inside /\ active' = active + 1
    BY <1>6 DEF EnterGate, Counted, Inside
  <2>2. Cardinality(Counted \cup {r}) = counted + 1 /\ Cardinality(Inside \cup {r}) = inside + 1
    BY <2>1, Finite, FS_AddElement
  <2>3. CASE active + 1 > seen[r]
    <3>1. Counted' = Counted \cup {r} /\ Inside' = Inside \ {r}
      BY <1>1, <1>6, <2>3, Moved DEF EnterGate, Places, Behind
    <3>2. Inside' = Inside
      BY <2>1, <3>1
    <3> QED
      BY <1>1, <2>1, <2>2, <3>1, <3>2, Finite DEF GateBalanced
  <2>4. CASE ~(active + 1 > seen[r])
    <3>1. Counted' = Counted \cup {r} /\ Inside' = Inside \cup {r}
      BY <1>1, <1>6, <2>4, Moved DEF EnterGate, Places, Behind
    <3>2. seen[r] \in Nat /\ seen[r] <= Max(Limits)
      <4>1. seen[r] \in Limits \cup {0}
        BY <1>1 DEF TypeOK
      <4> QED
        BY <4>1, LargestLimit
    <3>3. inside + 1 <= Max(Limits)
      BY <1>1, <1>2, <2>4, <3>2, Finite
    <3> QED
      BY <1>1, <2>1, <2>2, <3>1, <3>3, Finite DEF GateBalanced
  <2> QED
    BY <2>3, <2>4
<1>7. ASSUME NEW r \in Requests, Moves(r, {"over", "exit"}, {"done"}), active' = active - 1
      PROVE  active' \in Nat /\ GateBalanced'
  <2>1. Counted' = Counted \ {r} /\ Inside' = Inside \ {r}
    BY <1>1, <1>7, Moved DEF Behind, Places, Moves
  <2>2. r \in Counted
    BY <1>7 DEF Moves, Counted
  <2>3. Cardinality(Counted \ {r}) = counted - 1 /\ counted - 1 \in Nat
    <3>1. IsFiniteSet(Counted \ {r}) /\ Cardinality(Counted \ {r}) = counted - 1
      BY <2>2, Finite, FS_RemoveElement
    <3> QED
      BY <3>1, FS_CardinalityType
  <2>4. Cardinality(Inside \ {r}) <= inside /\ Cardinality(Inside \ {r}) \in Nat
    BY Finite, FS_Subset, FS_CardinalityType
  <2> QED
    BY <1>1, <1>2, <1>7, <2>1, <2>3, <2>4, Finite DEF GateBalanced
<1>8. CASE Exit
  <2>1. Counted' = {} /\ Inside' = {} /\ active' = 0
    BY <1>8 DEF Exit, Finished, Counted, Inside
  <2> QED
    BY <1>2, <2>1, FS_EmptySet DEF GateBalanced
<1> QED
  BY <1>1, <1>3, <1>4, <1>5, <1>6, <1>7, <1>8, StepKinds

\* What the steps do to everything else.
LEMMA TypeStep ==
  ASSUME GateInv, Next
  PROVE  TypeOK'
<1> USE DEF gateVars, keyVars, sinkVars
<1>0. TypeOK /\ active' \in Nat
  BY GateStep DEF GateInv
<1>f. Fault \/ UNCHANGED faults => faults' \in 0..MaxFaults
  <2>1. faults \in 0..MaxFaults /\ MaxFaults \in Nat
    BY <1>0, AdmissionAssumption DEF TypeOK
  <2> QED
    BY <2>1 DEF Fault
<1>1. CASE ChangeLimit \/ Shutdown \/ ShutdownReturns \/ CloseSink \/ CloseReturns
  <2> USE DEF ChangeLimit, Shutdown, ShutdownReturns, CloseSink, CloseReturns
  <2>1. faults' \in 0..MaxFaults
    BY <1>1, <1>f
  <2> QED
    BY <1>0, <1>1, <2>1 DEF TypeOK
<1>2. CASE SlotsExpire
  <2>1. slots' \in 0..KeyLimit
    BY <1>2, AdmissionAssumption DEF SlotsExpire
  <2>2. outlived' \in BOOLEAN
    BY <1>2, Zenon DEF SlotsExpire
  <2> QED
    BY <1>0, <1>2, <2>1, <2>2 DEF SlotsExpire, TypeOK
<1>3. CASE Exit
  BY <1>0, <1>3 DEF Exit, TypeOK, Places
<1>4. ASSUME NEW r \in Requests, ReadLimit(r) \/ RequestStep(r) \/ RequestFails(r)
      PROVE  TypeOK'
  <2>0. \A place \in Places : GoTo(r, place) => at' \in [Requests -> Places]
    BY <1>0, Moved
  <2>1. CASE ReadLimit(r)
    BY <1>0, <2>0, <2>1 DEF ReadLimit, TypeOK, Places
  <2>2. CASE EnterGate(r)
    BY <1>0, <2>0, <2>2 DEF EnterGate, TypeOK, Places
  <2>3. CASE RefuseAtGate(r) \/ ExitGate(r)
    BY <1>0, <2>0, <2>3 DEF RefuseAtGate, ExitGate, LeaveGate, TypeOK, Places
  <2>4. CASE AuthFails(r) \/ CheckWindows(r) \/ WindowsFail(r)
    <3>1. at' \in [Requests -> Places]
      BY <2>0, <2>4 DEF AuthFails, CheckWindows, WindowsFail, Places
    <3>2. window' \in [{"minute", "day"} -> Nat]
      <4>1. window \in [{"minute", "day"} -> Nat]
        BY <1>0 DEF TypeOK
      <4>2. CASE AuthFails(r)
        BY <4>1, <4>2 DEF AuthFails
      <4>3. CASE CheckWindows(r)
        BY <4>1, <4>3 DEF CheckWindows
      <4>4. CASE WindowsFail(r)
        BY <4>1, <4>4 DEF WindowsFail
      <4> QED
        BY <2>4, <4>2, <4>3, <4>4
    <3>3. faults' \in 0..MaxFaults
      BY <1>f, <2>4 DEF AuthFails, CheckWindows, WindowsFail
    <3> QED
      BY <1>0, <2>4, <3>1, <3>2, <3>3 DEF AuthFails, CheckWindows, WindowsFail, TypeOK
  <2>5. CASE AcquireSlot(r) \/ SlotUnavailable(r) \/ LeaveSlot(r) \/ LeaveSlotFails(r)
    <3> USE DEF AcquireSlot, SlotUnavailable, LeaveSlot, LeaveSlotFails
    <3>1. at' \in [Requests -> Places]
      BY <2>0, <2>5 DEF Places
    <3>2. slots' \in 0..KeyLimit
      <4>1. slots \in 0..KeyLimit /\ KeyLimit \in Nat
        BY <1>0, AdmissionAssumption DEF TypeOK
      <4> QED
        BY <2>5, <4>1 DEF ReleaseSlot
    <3>3. faults' \in 0..MaxFaults
      BY <1>f, <2>5
    <3> QED
      BY <1>0, <2>5, <3>1, <3>2, <3>3 DEF TypeOK
  <2>6. CASE ServeRequest(r) \/ ServePanics(r) \/ Settle(r) \/ SettleFails(r)
    <3> USE DEF ServeRequest, ServePanics, Settle, SettleFails
    <3>1. at' \in [Requests -> Places]
      BY <2>0, <2>6 DEF Places
    <3>2. usage' \in [Requests -> BOOLEAN]
      BY <1>0, <2>6, Zenon DEF TypeOK
    <3>3. faults' \in 0..MaxFaults
      BY <1>f, <2>6
    <3>4. month' \in Nat
      BY <1>0, <2>6 DEF TypeOK
    <3> QED
      BY <1>0, <2>6, <3>1, <3>2, <3>3, <3>4 DEF TypeOK
  <2>7. CASE CreateRequestLog(r)
    <3>0. queue \in Seq(Requests) /\ Len(queue) <= QueueCapacity
      BY <1>0 DEF TypeOK
    <3>1. queue' \in Seq(Requests) /\ Len(queue') <= QueueCapacity
      <4>1. CASE UNCHANGED queue
        BY <3>0, <4>1
      <4>2. CASE Len(queue) < QueueCapacity /\ queue' = Append(queue, r)
        <5>1. QueueCapacity \in Nat
          BY AdmissionAssumption
        <5> QED
          BY <3>0, <4>2, <5>1, AppendProperties
      <4> QED
        BY <2>7, <4>1, <4>2 DEF CreateRequestLog
    <3> QED
      BY <1>0, <2>0, <2>7, <3>1 DEF CreateRequestLog, TypeOK, Places
  <2> QED
    BY <1>4, <2>1, <2>2, <2>3, <2>4, <2>5, <2>6, <2>7 DEF RequestStep, RequestFails
<1>5. ASSUME NEW w \in Workers, WorkerStep(w) \/ WriteFails(w)
      PROVE  TypeOK'
  <2>1. CASE TakeEntry(w)
    <3>1. queue' \in Seq(Requests) /\ Len(queue') <= QueueCapacity /\ Head(queue) \in Requests
      BY <1>0, <2>1, AdmissionAssumption DEF TakeEntry, TypeOK
    <3> QED
      BY <1>0, <2>1, <3>1 DEF TakeEntry, TypeOK
  <2>2. CASE WriteEntry(w) \/ WriteFails(w)
    <3> USE DEF WriteEntry, WriteFails
    <3>1. hand' \in [Workers -> Requests \cup {NoRequest}]
      BY <1>0, <2>2 DEF TypeOK
    <3>2. entry' \in [Requests -> {"none", "accepted", "written", "failed", "dropped", "refused"}]
      BY <1>0, <2>2 DEF TypeOK
    <3>3. faults' \in 0..MaxFaults
      BY <1>f, <2>2
    <3> QED
      BY <1>0, <2>2, <3>1, <3>2, <3>3 DEF TypeOK
  <2>3. CASE WorkerExits(w)
    BY <1>0, <2>3 DEF WorkerExits, TypeOK
  <2> QED
    BY <1>5, <2>1, <2>2, <2>3 DEF WorkerStep
<1> QED
  BY <1>1, <1>2, <1>3, <1>4, <1>5 DEF Next, EndStep

(* The concurrency gate counts exactly, whatever limits are in force when requests read them: its
   counter is the number of requests inside and being turned away, and never more than the
   largest limit are inside.  The state is well formed. *)
THEOREM GateIsExact == Spec => []GateExact
<1>1. Init => GateInv
  <2> SUFFICES ASSUME Init PROVE GateInv
    OBVIOUS
  <2>1. Counted = {} /\ Inside = {}
    BY DEF Init, Counted, Inside
  <2>2. GateBalanced
    BY <2>1, LargestLimit, FS_EmptySet DEF GateBalanced, Init
  <2>3. TypeOK
    <3>1. 0 \in 0..KeyLimit /\ 0 \in 0..MaxFaults /\ 0 <= QueueCapacity
      BY AdmissionAssumption
    <3>2. usage \in [Requests -> BOOLEAN] /\ outlived \in BOOLEAN /\ closed \in BOOLEAN
      BY DEF Init
    <3> QED
      BY <3>1, <3>2 DEF Init, TypeOK, Places
  <2> QED
    BY <2>2, <2>3 DEF GateInv
<1>2. GateInv /\ [Next]_vars => GateInv'
  <2>1. ASSUME GateInv, Next PROVE GateInv'
    BY <2>1, GateStep, TypeStep DEF GateInv
  <2>2. ASSUME GateInv, UNCHANGED vars PROVE GateInv'
    BY <2>2 DEF GateInv, GateBalanced, TypeOK, Counted, Inside, vars
  <2> QED
    BY <2>1, <2>2
<1>3. GateInv => GateExact
  BY DEF GateInv, GateExact
<1> QED
  BY <1>1, <1>2, <1>3, PTL DEF Spec

----------------------------------------------------------------------------
(* The concurrency counter of the key.                                     *)

\* Only its own acquisition gives a request a slot, and only its own release, or the end of the
\* process, takes the slot away.
LEMMA KeyStep ==
  ASSUME TypeOK, KeyConcurrency, Next
  PROVE  KeyConcurrency'
<1> USE DEF gateVars, keyVars, sinkVars
<1>0. slots \in Nat /\ KeyLimit \in Nat
  BY AdmissionAssumption DEF TypeOK
<1>1. ASSUME UNCHANGED outlived, Holders' \subseteq Holders, slots' \in Nat, slots' >= slots
      PROVE  KeyConcurrency'
  <2>1. Cardinality(Holders') <= Cardinality(Holders) /\ Cardinality(Holders') \in Nat
    BY <1>1, Finite, FS_Subset, FS_CardinalityType
  <2> QED
    BY <1>0, <1>1, <2>1, Finite DEF KeyConcurrency
<1>2. CASE UNCHANGED <<at, slots, outlived>>
  BY <1>2 DEF KeyConcurrency, Holders
<1>3. CASE SlotsExpire
  <2>1. CASE Holders = {}
    <3>1. Holders' = {} /\ slots' = 0
      BY <1>3, <2>1 DEF SlotsExpire, Holders
    <3> QED
      BY <3>1, FS_EmptySet DEF KeyConcurrency
  <2>2. CASE Holders # {}
    BY <1>3, <2>2, Zenon DEF SlotsExpire, KeyConcurrency
  <2> QED
    BY <2>1, <2>2
<1>4. CASE Exit
  <2>1. Holders' = {} /\ UNCHANGED <<slots, outlived>>
    BY <1>4 DEF Exit, Finished, Holders
  <2> QED
    BY <1>0, <2>1, FS_EmptySet DEF KeyConcurrency
<1>5. ASSUME NEW r \in Requests, ReadLimit(r) \/ RequestStep(r) \/ RequestFails(r)
      PROVE  KeyConcurrency'
  <2>1. ASSUME UNCHANGED <<slots, outlived>>, NEW place \in Places, GoTo(r, place),
               place \in Served => at[r] \in Served
        PROVE  KeyConcurrency'
    <3>1. Holders' \subseteq Holders
      BY <2>1, Moved DEF Holders, Served
    <3> QED
      BY <1>0, <1>1, <2>1, <3>1
  <2>2. CASE ReadLimit(r) \/ EnterGate(r) \/ RefuseAtGate(r) \/ ExitGate(r)
    BY <2>1, <2>2 DEF ReadLimit, EnterGate, RefuseAtGate, ExitGate, LeaveGate, Places, Served
  <2>3. CASE AuthFails(r) \/ CheckWindows(r) \/ WindowsFail(r)
    BY <2>1, <2>3 DEF AuthFails, CheckWindows, WindowsFail, Places, Served
  <2>4. CASE ServeRequest(r) \/ ServePanics(r) \/ Settle(r) \/ SettleFails(r) \/ LeaveSlotFails(r)
    BY <2>1, <2>4 DEF ServeRequest, ServePanics, Settle, SettleFails, LeaveSlotFails, Places, Served
  <2>5. CASE CreateRequestLog(r)
    BY <2>1, <2>5 DEF CreateRequestLog, Places, Served
  <2>6. CASE AcquireSlot(r) /\ slots < KeyLimit
    <3>1. Holders' = Holders \cup {r} /\ slots' = slots + 1 /\ UNCHANGED outlived
      BY <2>6, Moved DEF AcquireSlot, Places, Served
    <3>2. r \notin Holders
      BY <2>6 DEF AcquireSlot, Holders
    <3>3. Cardinality(Holders') = Cardinality(Holders) + 1
      BY <3>1, <3>2, Finite, FS_AddElement
    <3> QED
      BY <1>0, <3>1, <3>3, Finite DEF KeyConcurrency
  <2>7. CASE AcquireSlot(r) /\ ~(slots < KeyLimit)
    BY <2>1, <2>7 DEF AcquireSlot, Places, Served
  <2>8. CASE SlotUnavailable(r)
    <3>1. Holders' \subseteq Holders /\ UNCHANGED outlived
      BY <2>8, Moved DEF SlotUnavailable, Places, Served
    <3>2. slots' \in Nat /\ slots' >= slots
      BY <1>0, <2>8 DEF SlotUnavailable
    <3> QED
      BY <1>1, <3>1, <3>2
  <2>9. CASE LeaveSlot(r)
    <3>1. Holders' = Holders \ {r} /\ slots' = (IF slots <= 1 THEN 0 ELSE slots - 1) /\ UNCHANGED outlived
      BY <2>9, Moved DEF LeaveSlot, ReleaseSlot, Places, Served
    <3>2. r \in Holders
      BY <2>9 DEF LeaveSlot, Holders
    <3>3. IsFiniteSet(Holders') /\ Cardinality(Holders') = Cardinality(Holders) - 1
      BY <3>1, <3>2, Finite, FS_RemoveElement
    <3>4. Cardinality(Holders') \in Nat
      BY <3>3, FS_CardinalityType
    <3> QED
      BY <1>0, <3>1, <3>3, <3>4, Finite DEF KeyConcurrency
  <2> QED
    BY <1>5, <2>2, <2>3, <2>4, <2>5, <2>6, <2>7, <2>8, <2>9 DEF RequestStep, RequestFails
<1>6. CASE Aside /\ ~SlotsExpire
  BY <1>2, <1>6 DEF Aside, ChangeLimit, Shutdown, ShutdownReturns, CloseSink, CloseReturns,
              WorkerStep, TakeEntry, WriteEntry, WorkerExits, WriteFails
<1> QED
  BY <1>3, <1>4, <1>5, <1>6 DEF Next, EndStep, Aside

(* The requests served for a key never outnumber its counter, so they stay within its concurrency
   limit through lost replies and failed releases, unless the counter expired under a request. *)
THEOREM KeyLimitHolds == Spec => []KeyConcurrency
<1>1. Init => KeyConcurrency
  <2> SUFFICES ASSUME Init PROVE KeyConcurrency
    OBVIOUS
  <2>1. Holders = {} /\ slots = 0
    BY DEF Init, Holders
  <2> QED
    BY <2>1, FS_EmptySet DEF KeyConcurrency
<1>2. GateExact /\ KeyConcurrency /\ [Next]_vars => KeyConcurrency'
  <2>1. ASSUME GateExact, KeyConcurrency, Next PROVE KeyConcurrency'
    BY <2>1, KeyStep DEF GateExact
  <2>2. ASSUME KeyConcurrency, UNCHANGED vars PROVE KeyConcurrency'
    BY <2>2 DEF KeyConcurrency, Holders, vars
  <2> QED
    BY <2>1, <2>2
<1> QED
  BY <1>1, <1>2, GateIsExact, PTL DEF Spec

----------------------------------------------------------------------------
(* The sink of the request log.                                            *)

\* What the workers and the end of the process rely on.
LEMMA WorkersStep ==
  ASSUME TypeOK, SinkInv, Next
  PROVE  WorkersLeaveNothing'
<1> USE DEF gateVars, keyVars, sinkVars, WorkersLeaveNothing
<1>0. WorkersLeaveNothing
  BY DEF SinkInv
<1>1. CASE UNCHANGED sinkVars /\ (phase' = "flushed" => phase = "flushed")
  BY <1>0, <1>1
<1>2. CASE ChangeLimit \/ SlotsExpire \/ Shutdown \/ ShutdownReturns \/ Exit
  BY <1>1, <1>2 DEF ChangeLimit, SlotsExpire, Shutdown, ShutdownReturns, Exit
<1>3. CASE CloseSink
  BY <1>0, <1>3 DEF CloseSink
<1>4. CASE CloseReturns
  BY <1>0, <1>4 DEF CloseReturns
<1>5. ASSUME NEW r \in Requests, ReadLimit(r) \/ RequestStep(r) \/ RequestFails(r)
      PROVE  WorkersLeaveNothing'
  <2>1. CASE CreateRequestLog(r)
    BY <1>0, <2>1 DEF CreateRequestLog
  <2>2. CASE ~CreateRequestLog(r)
    <3>1. UNCHANGED <<sinkVars, phase>>
      BY <1>5, <2>2 DEF RequestStep, RequestFails, ReadLimit, EnterGate, RefuseAtGate, ExitGate,
         AuthFails, CheckWindows, WindowsFail, AcquireSlot, SlotUnavailable, LeaveSlot, LeaveSlotFails,
         ServeRequest, ServePanics, Settle, SettleFails
    <3> QED
      BY <1>1, <3>1
  <2> QED
    BY <2>1, <2>2
<1>6. ASSUME NEW w \in Workers, WorkerStep(w) \/ WriteFails(w)
      PROVE  WorkersLeaveNothing'
  <2>0. hand \in [Workers -> Requests \cup {NoRequest}] /\ exited \subseteq Workers
    BY DEF TypeOK
  <2>1. CASE TakeEntry(w)
    BY <1>0, <2>0, <2>1 DEF TakeEntry
  <2>2. CASE WriteEntry(w) \/ WriteFails(w)
    BY <1>0, <2>0, <2>2 DEF WriteEntry, WriteFails
  <2>3. CASE WorkerExits(w)
    BY <1>0, <2>0, <2>3 DEF WorkerExits, Drained
  <2> QED
    BY <1>6, <2>1, <2>2, <2>3 DEF WorkerStep
<1> QED
  BY <1>2, <1>3, <1>4, <1>5, <1>6 DEF Next, EndStep

\* An accepted entry goes from the queue to a hand, and is written when it leaves that.
LEMMA EntryStep ==
  ASSUME TypeOK, SinkInv, Next
  PROVE  AcceptedIsOnItsWay'
<1> USE DEF gateVars, keyVars, sinkVars
<1>0. AcceptedIsOnItsWay /\ queue \in Seq(Requests)
  BY DEF SinkInv, TypeOK
<1>1. CASE UNCHANGED <<queue, hand, entry>>
  BY <1>0, <1>1 DEF AcceptedIsOnItsWay
<1>2. CASE \/ ChangeLimit \/ SlotsExpire \/ Shutdown \/ ShutdownReturns \/ CloseSink \/ CloseReturns
           \/ Exit
  BY <1>1, <1>2 DEF ChangeLimit, SlotsExpire, Shutdown, ShutdownReturns, CloseSink, CloseReturns, Exit
<1>3. ASSUME NEW r \in Requests, ReadLimit(r) \/ RequestStep(r) \/ RequestFails(r)
      PROVE  AcceptedIsOnItsWay'
  <2>1. CASE CreateRequestLog(r)
    <3>1. UNCHANGED hand /\ \A q \in Requests \ {r} : entry'[q] = entry[q]
      BY <2>1 DEF CreateRequestLog, TypeOK
    <3>2. CASE UNCHANGED queue /\ entry'[r] # "accepted"
      BY <1>0, <3>1, <3>2 DEF AcceptedIsOnItsWay
    <3>3. CASE queue' = Append(queue, r)
      <4>1. /\ Len(queue') = Len(queue) + 1 /\ Len(queue) \in Nat /\ queue'[Len(queue) + 1] = r
            /\ \A n \in 1..Len(queue) : queue'[n] = queue[n]
        BY <1>0, <3>3, AppendProperties, LenProperties
      <4>2. SUFFICES ASSUME NEW q \in Requests, entry'[q] = "accepted"
                     PROVE  \/ \E n \in 1..Len(queue') : queue'[n] = q
                            \/ \E w \in Workers : hand'[w] = q
        BY DEF AcceptedIsOnItsWay
      <4>3. CASE q = r
        BY <4>1, <4>3
      <4>4. CASE q # r
        <5>1. (\E n \in 1..Len(queue) : queue[n] = q) \/ (\E w \in Workers : hand[w] = q)
          BY <1>0, <3>1, <4>2, <4>4 DEF AcceptedIsOnItsWay
        <5> QED
          BY <3>1, <4>1, <5>1
      <4> QED
        BY <4>3, <4>4
    <3>4. (UNCHANGED queue /\ entry'[r] # "accepted") \/ queue' = Append(queue, r)
      BY <2>1 DEF CreateRequestLog, TypeOK
    <3> QED
      BY <3>2, <3>3, <3>4
  <2>2. CASE ~CreateRequestLog(r)
    <3>1. UNCHANGED <<queue, hand, entry>>
      BY <1>3, <2>2 DEF RequestStep, RequestFails, ReadLimit, EnterGate, RefuseAtGate, ExitGate,
         AuthFails, CheckWindows, WindowsFail, AcquireSlot, SlotUnavailable, LeaveSlot, LeaveSlotFails,
         ServeRequest, ServePanics, Settle, SettleFails
    <3> QED
      BY <1>1, <3>1
  <2> QED
    BY <2>1, <2>2
<1>4. ASSUME NEW w \in Workers, WorkerStep(w) \/ WriteFails(w)
      PROVE  AcceptedIsOnItsWay'
  <2>0. hand \in [Workers -> Requests \cup {NoRequest}] /\ NoRequest \notin Requests
    BY AdmissionAssumption DEF TypeOK
  <2>1. CASE TakeEntry(w)
    <3>1. /\ Head(queue) = queue[1] /\ Len(queue) \in Nat /\ Len(queue) >= 1
          /\ Len(queue') = Len(queue) - 1 /\ \A n \in 1..Len(queue') : queue'[n] = queue[n + 1]
      BY <1>0, <2>1, HeadTailProperties, LenProperties, EmptySeq DEF TakeEntry
    <3>2. hand[w] = NoRequest /\ hand'[w] = Head(queue) /\ \A v \in Workers \ {w} : hand'[v] = hand[v]
      BY <2>0, <2>1 DEF TakeEntry
    <3>3. SUFFICES ASSUME NEW q \in Requests, entry[q] = "accepted"
                   PROVE  \/ \E n \in 1..Len(queue') : queue'[n] = q
                          \/ \E v \in Workers : hand'[v] = q
      BY <2>1 DEF TakeEntry, AcceptedIsOnItsWay
    <3>4. CASE \E v \in Workers : hand[v] = q
      BY <2>0, <3>2, <3>4
    <3>5. ASSUME NEW n \in 1..Len(queue), queue[n] = q
          PROVE  (\E m \in 1..Len(queue') : queue'[m] = q) \/ (\E v \in Workers : hand'[v] = q)
      <4>1. CASE n = 1
        BY <3>1, <3>2, <3>5, <4>1
      <4>2. CASE n # 1
        <5>1. n - 1 \in 1..Len(queue') /\ (n - 1) + 1 = n
          BY <3>1, <4>2
        <5> QED
          BY <3>1, <3>5, <5>1
      <4> QED
        BY <4>1, <4>2
    <3> QED
      BY <1>0, <3>3, <3>4, <3>5 DEF AcceptedIsOnItsWay
  <2>2. CASE WriteEntry(w) \/ WriteFails(w)
    <3>1. /\ hand[w] \in Requests /\ UNCHANGED queue
          /\ entry'[hand[w]] # "accepted" /\ \A q \in Requests \ {hand[w]} : entry'[q] = entry[q]
          /\ \A v \in Workers \ {w} : hand'[v] = hand[v]
      BY <2>0, <2>2 DEF WriteEntry, WriteFails, TypeOK
    <3> QED
      BY <1>0, <3>1 DEF AcceptedIsOnItsWay
  <2>3. CASE WorkerExits(w)
    BY <1>1, <2>3 DEF WorkerExits
  <2> QED
    BY <1>4, <2>1, <2>2, <2>3 DEF WorkerStep
<1> QED
  BY <1>2, <1>3, <1>4 DEF Next, EndStep

(* When Close reports success no accepted entry of the request log is left in the queue or with a
   worker, also when requests were still enqueueing while Close was called. *)
THEOREM FlushedIsWritten == Spec => []FlushedMeansWritten
<1>1. Init => SinkInv
  <2> SUFFICES ASSUME Init PROVE SinkInv
    OBVIOUS
  <2> QED
    BY DEF Init, SinkInv, WorkersLeaveNothing, AcceptedIsOnItsWay
<1>2. GateExact /\ SinkInv /\ [Next]_vars => SinkInv'
  <2>1. ASSUME GateExact, SinkInv, Next PROVE SinkInv'
    BY <2>1, WorkersStep, EntryStep DEF GateExact, SinkInv
  <2>2. ASSUME SinkInv, UNCHANGED vars PROVE SinkInv'
    BY <2>2 DEF SinkInv, WorkersLeaveNothing, AcceptedIsOnItsWay, vars
  <2> QED
    BY <2>1, <2>2
<1>3. GateExact /\ SinkInv => FlushedMeansWritten
  <2> SUFFICES ASSUME GateExact, SinkInv, phase = "flushed"
               PROVE  (\A r \in Requests : entry[r] # "accepted") /\ queue = <<>>
    BY DEF FlushedMeansWritten
  <2>1. exited = Workers /\ queue = <<>> /\ \A w \in Workers : hand[w] = NoRequest
    BY AdmissionAssumption DEF SinkInv, WorkersLeaveNothing
  <2>2. ~\E n \in 1..Len(queue) : TRUE
    BY <2>1
  <2> QED
    BY <2>1, <2>2, AdmissionAssumption DEF SinkInv, AcceptedIsOnItsWay
<1> QED
  BY <1>1, <1>2, <1>3, GateIsExact, PTL DEF Spec
=============================================================================
