-------------------------- MODULE MediaStoreProofs --------------------------
(***************************************************************************)
(* The invariants of MediaStore, for any uploads, downloads, requests,     *)
(* sizes and limits.                                                       *)
(*                                                                         *)
(* Whoever writes holds the lock alone, so the sum it has computed bounds  *)
(* the bytes of the data files until it returns; a removal takes an object *)
(* off the stored ones before it touches a file; and the only object with  *)
(* one of its two files is the one in the hands of the lock's holder, or,  *)
(* in a start, one that its scan has still to remove.                      *)
(***************************************************************************)
EXTENDS MediaStore, FiniteSetTheorems, FunctionTheorems, SequenceTheorems, TLAPS

Phases == {"none", "remove", "scan", "evict", "commit"}
WorkRecord == [phase : Phases, todo : SUBSET Objects, entries : SUBSET Objects, half : Objects \cup {Nobody},
               usage : Nat, target : Int]
Ops == {"list", "delete", "cleanup", "clear"}
TaskRecord == [op : Ops \cup {"none", "open"}, ids : SUBSET Objects]

\* The rest of the state has its types too, and the data files are finitely many.
Types ==
  /\ TypeOK /\ work \in WorkRecord /\ task \in [Downloads \cup Admins -> TaskRecord]
  /\ IsFiniteSet(data) /\ faults \in Nat

\* Downloads read and administrators write.
Roles ==
  /\ \A p \in Downloads : pc[p] \in {"idle", "open", "opening", "reading", "done"}
  /\ \A p \in Admins : /\ pc[p] \in {"idle", "lock", "drain", "locked", "done"}
                       /\ pc[p] \in {"lock", "drain", "locked"} => task[p].op \in Ops

\* The lock: one writer and no reader inside, or the start, which runs alone.
Locking ==
  /\ \A p \in Processes : /\ pc[p] \in {"drain", "locked"} => writer = p
                          /\ pc[p] = "locked" => readers = {}
                          /\ pc[p] = "reading" => p \in readers
                          /\ server # "up" => pc[p] \in {"idle", "done"}
  /\ work.phase # "none" => server = "boot" \/ \E p \in Uploads \cup Admins : pc[p] = "locked"

\* The phases an operation goes through, and what it has in hand.
Working ==
  /\ work.phase = "none" => work.half = Nobody
  /\ server = "boot" => work.phase \in {"scan", "evict"}
  /\ \A p \in Admins : pc[p] = "locked" => work.phase \in {"remove", "scan"}
  /\ \A p \in Uploads : pc[p] = "locked" => work.phase \in {"scan", "evict", "commit"}
  /\ work.half # Nobody /\ work.phase # "commit" => work.half \notin data \cup work.todo
  /\ work.phase = "scan" => work.entries \subseteq data /\ work.todo \cap work.entries = {}
                                                        /\ work.todo \subseteq data \cup meta
  /\ work.phase = "evict" => work.todo \subseteq data

\* What the usage of an operation says of the data files.
Counted ==
  /\ work.phase \in {"scan", "evict"} =>
       Bytes(data) + (IF work.phase = "evict" /\ work.half # Nobody THEN Size[work.half] ELSE 0) <= work.usage
  /\ \A p \in Uploads : pc[p] = "locked" /\ work.phase = "commit" /\ work.half = Nobody
                          => Bytes(data) + Size[p] <= limit

\* The files of an upload: none before its renames, the data file between them.
Renaming ==
  \A p \in Uploads :
    /\ pc[p] \in {"idle", "copy", "lock", "drain"} => p \notin data \cup meta
    /\ pc[p] = "locked" =>
         IF work.phase = "commit" /\ work.half # Nobody
         THEN work.half = p /\ p \in data /\ p \notin meta /\ p \notin upload
         ELSE work.half # p /\ p \notin data \cup meta

\* Stored objects are whole, and not in anybody's hands.
Whole == stored \subseteq data \cap meta /\ work.half \notin stored

\* An object with one file is in hand, or on the list of the start.
HalfInHand ==
  faults = 0 /\ server # "down" =>
    \A i \in Objects : (i \in data) # (i \in meta)
      => i = work.half \/ (server = "boot" /\ work.phase = "scan" /\ i \in work.todo)

\* The temporary files are those of uploads that run.
Temporary ==
  /\ server = "boot" => upload = {} /\ draft = {}
  /\ server = "up" => \A i \in upload \cup draft : pc[i] \in {"copy", "lock", "drain", "locked", "ending"}

\* The inductive invariant.
StoreInv ==
  /\ Types /\ Roles /\ Locking /\ Working /\ Counted /\ Renaming /\ Whole /\ HalfInHand /\ Temporary
  /\ CapacityHeld /\ ReadersUndisturbed

----------------------------------------------------------------------------
(* Sums of sizes.                                                          *)

LEMMA ContentSize ==
  ASSUME NEW i \in Objects
  PROVE  IsFiniteSet(Content(i)) /\ Cardinality(Content(i)) = Size[i]
<1>1. Size[i] \in Nat
  BY MediaAssumption
<1>2. IsFiniteSet(1..Size[i]) /\ Cardinality(1..Size[i]) = Size[i]
  BY <1>1, FS_Interval
<1>3. IsFiniteSet({i}) /\ Cardinality({i}) = 1
  BY FS_Singleton
<1>4. IsFiniteSet({i} \X (1..Size[i])) /\ Cardinality({i} \X (1..Size[i])) = 1 * Size[i]
  BY <1>2, <1>3, FS_Product
<1> QED
  BY <1>1, <1>4 DEF Content

\* Finitely many objects have finitely many bytes.
LEMMA ContentsFinite ==
  ASSUME NEW S \in SUBSET Objects, IsFiniteSet(S)
  PROVE  IsFiniteSet(UNION {Content(i) : i \in S})
<1> DEFINE T == {Content(i) : i \in S}
           f == [i \in S |-> Content(i)]
<1>1. f \in Surjection(S, T)
  BY DEF Surjection
<1> HIDE DEF f
<1>2. IsFiniteSet(T)
  BY <1>1, FS_Surjection
<1>3. \A c \in T : IsFiniteSet(c)
  BY ContentSize
<1> QED
  BY <1>2, <1>3, FS_UNION

LEMMA BytesType ==
  ASSUME NEW S \in SUBSET Objects, IsFiniteSet(S)
  PROVE  Bytes(S) \in Nat
  BY ContentsFinite, FS_CardinalityType DEF Bytes

\* One more object has its size to add.
LEMMA BytesAdd ==
  ASSUME NEW S \in SUBSET Objects, IsFiniteSet(S), NEW i \in Objects, i \notin S
  PROVE  IsFiniteSet(S \cup {i}) /\ Bytes(S \cup {i}) = Bytes(S) + Size[i]
<1> DEFINE U == UNION {Content(j) : j \in S}
<1>1. IsFiniteSet(U) /\ IsFiniteSet(Content(i)) /\ Cardinality(Content(i)) = Size[i]
  BY ContentsFinite, ContentSize
<1>2. UNION {Content(j) : j \in S \cup {i}} = U \cup Content(i)
  OBVIOUS
<1>3. U \cap Content(i) = {}
  BY DEF Content
<1> HIDE DEF U
<1>4. Cardinality(U \cup Content(i)) = Cardinality(U) + Cardinality(Content(i)) - Cardinality({})
  BY <1>1, <1>3, FS_Union
<1>5. Cardinality(U \cup Content(i)) = Cardinality(U) + Size[i]
  BY <1>1, <1>4, FS_EmptySet, FS_CardinalityType, MediaAssumption
<1>6. IsFiniteSet(S \cup {i})
  BY FS_AddElement
<1> QED
  BY <1>2, <1>5, <1>6 DEF Bytes, U

LEMMA BytesRemove ==
  ASSUME NEW S \in SUBSET Objects, IsFiniteSet(S), NEW i \in Objects
  PROVE  IsFiniteSet(S \ {i}) /\ Bytes(S) = Bytes(S \ {i}) + (IF i \in S THEN Size[i] ELSE 0)
<1>1. IsFiniteSet(S \ {i})
  BY FS_RemoveElement
<1>2. CASE i \in S
  <2>1. S = (S \ {i}) \cup {i}
    BY <1>2
  <2> DEFINE R == S \ {i}
  <2>2. R \in SUBSET Objects /\ IsFiniteSet(R) /\ i \notin R /\ S = R \cup {i}
    BY <1>1, <2>1
  <2> HIDE DEF R
  <2>3. Bytes(S) = Bytes(R) + Size[i]
    BY <2>2, BytesAdd
  <2> QED
    BY <1>1, <1>2, <2>3 DEF R
<1>3. CASE i \notin S
  <2>1. S \ {i} = S
    BY <1>3
  <2>2. Bytes(S) \in Nat
    BY BytesType
  <2> QED
    BY <1>1, <1>3, <2>1, <2>2
<1> QED
  BY <1>2, <1>3

----------------------------------------------------------------------------
(* Steps that leave the directory and the holder of the lock alone.        *)

Labels == {"idle", "copy", "lock", "drain", "locked", "open", "opening", "reading", "ending", "done"}

LEMMA Typed ==
  ASSUME StoreInv
  PROVE  /\ data \in SUBSET Objects /\ meta \in SUBSET Objects /\ stored \in SUBSET Objects
         /\ upload \in SUBSET Uploads /\ draft \in SUBSET Uploads /\ expired \in SUBSET stored
         /\ pc \in [Processes -> Labels] /\ work \in WorkRecord
         /\ task \in [Downloads \cup Admins -> TaskRecord] /\ IsFiniteSet(data) /\ faults \in Nat
         /\ writer \in Processes \cup {Nobody} /\ limit \in Limits /\ limit \in Nat
         /\ server \in {"up", "boot", "down"} /\ readers \in SUBSET Processes /\ blocked \in SUBSET Processes
         /\ Nobody \notin Processes /\ Nobody \notin Objects /\ Uploads \subseteq Objects
         /\ Size \in [Objects -> Nat] /\ Processes = Uploads \cup Downloads \cup Admins
         /\ Uploads \cap (Downloads \cup Admins) = {} /\ Downloads \cap Admins = {}
<1>1. Types
  BY DEF StoreInv
<1>2. limit \in Nat
  BY <1>1, MediaAssumption DEF Types, TypeOK
<1>3. /\ Nobody \notin Processes /\ Nobody \notin Objects /\ Uploads \subseteq Objects
  BY MediaAssumption DEF Processes, Objects
<1> QED
  BY <1>1, <1>2, <1>3, MediaAssumption DEF Types, TypeOK, Labels, Processes

\* A request is answered: its task is forgotten, and the other tasks are kept.
LEMMA Returned ==
  ASSUME StoreInv, NEW p \in Processes, NEW label \in Labels, Return(p, label)
  PROVE  /\ task' \in [Downloads \cup Admins -> TaskRecord]
         /\ \A q \in (Downloads \cup Admins) \ {p} : task'[q] = task[q]
         /\ pc' = [pc EXCEPT ![p] = label]
<1>1. task \in [Downloads \cup Admins -> TaskRecord]
  BY Typed
<1>2. NoTask \in TaskRecord
  BY DEF NoTask, TaskRecord
<1> QED
  BY <1>1, <1>2 DEF Return, Goto

\* What a step outside the lock cannot disturb.
LEMMA Outside ==
  ASSUME StoreInv, NEW p \in Processes, NEW label \in Labels \ {"locked"}, pc[p] # "locked",
         pc' = [pc EXCEPT ![p] = label], UNCHANGED <<data, meta, work, limit, server, faults>>
  PROVE  /\ Working' /\ Counted' /\ HalfInHand' /\ CapacityHeld'
         /\ work'.phase # "none" => server' = "boot" \/ \E q \in Uploads \cup Admins : pc'[q] = "locked"
<1>1. \A q \in Processes : pc'[q] = "locked" <=> pc[q] = "locked"
  BY Typed
<1>2. Uploads \subseteq Processes /\ Admins \subseteq Processes
  BY DEF Processes
<1>3. Working'
  BY <1>1, <1>2 DEF StoreInv, Working
<1>4. Counted'
  BY <1>1, <1>2 DEF StoreInv, Counted
<1>5. HalfInHand'
  BY DEF StoreInv, HalfInHand
<1>6. CapacityHeld'
  BY DEF StoreInv, CapacityHeld
<1> QED
  BY <1>1, <1>2, <1>3, <1>4, <1>5, <1>6 DEF StoreInv, Locking

LEMMA AnnounceStep ==
  ASSUME StoreInv, NEW p \in Uploads \cup Admins, Announce(p)
  PROVE  StoreInv'
<1>0. p \in Processes /\ "drain" \in Labels
  BY DEF Processes, Labels
<1>1. pc[p] # "locked" /\ pc' = [pc EXCEPT ![p] = "drain"] /\ UNCHANGED <<data, meta, work, limit, server, faults>>
  BY DEF Announce, Goto, files
<1>2. /\ Working' /\ Counted' /\ HalfInHand' /\ CapacityHeld'
      /\ work'.phase # "none" => server' = "boot" \/ \E q \in Uploads \cup Admins : pc'[q] = "locked"
  BY <1>0, <1>1, Outside
<1>3. Types'
  BY <1>0, <1>1, Typed DEF StoreInv, Types, TypeOK, Labels, lockVars, files, Announce
<1>4. Roles'
  BY <1>0, <1>1, Typed DEF StoreInv, Roles, lockVars, Announce
<1>5. Locking'
  BY <1>0, <1>1, <1>2, Typed DEF StoreInv, Locking, lockVars, Announce
<1>6. Renaming'
  BY <1>0, <1>1, Typed DEF StoreInv, Renaming, files, Announce
<1>7. Whole'
  BY <1>0, <1>1, Typed DEF StoreInv, Whole, files, Announce
<1>8. Temporary'
  BY <1>0, <1>1, Typed DEF StoreInv, Temporary, files, Announce
<1>9. ReadersUndisturbed'
  BY <1>0, <1>1, Typed DEF StoreInv, ReadersUndisturbed, Wanted, files, Announce
<1> QED
  BY <1>2, <1>3, <1>4, <1>5, <1>6, <1>7, <1>8, <1>9 DEF StoreInv

LEMMA PutBeginsStep ==
  ASSUME StoreInv, NEW p \in Uploads, PutBegins(p)
  PROVE  StoreInv'
<1>0. p \in Processes /\ "copy" \in Labels
  BY DEF Processes, Labels
<1>1. pc[p] # "locked" /\ pc' = [pc EXCEPT ![p] = "copy"] /\ UNCHANGED <<data, meta, work, limit, server, faults>>
  BY DEF PutBegins, Goto, files
<1>2. /\ Working' /\ Counted' /\ HalfInHand' /\ CapacityHeld'
      /\ work'.phase # "none" => server' = "boot" \/ \E q \in Uploads \cup Admins : pc'[q] = "locked"
  BY <1>0, <1>1, Outside
<1>3. Types'
  BY <1>0, <1>1, Typed DEF StoreInv, Types, TypeOK, Labels, lockVars, files, PutBegins
<1>4. Roles'
  BY <1>0, <1>1, Typed DEF StoreInv, Roles, lockVars, PutBegins
<1>5. Locking'
  BY <1>0, <1>1, <1>2, Typed DEF StoreInv, Locking, lockVars, PutBegins
<1>6. Renaming'
  BY <1>0, <1>1, Typed DEF StoreInv, Renaming, files, PutBegins
<1>7. Whole'
  BY <1>0, <1>1, Typed DEF StoreInv, Whole, files, PutBegins
<1>8. Temporary'
  BY <1>0, <1>1, Typed DEF StoreInv, Temporary, files, PutBegins
<1>9. ReadersUndisturbed'
  BY <1>0, <1>1, Typed DEF StoreInv, ReadersUndisturbed, Wanted, files, PutBegins
<1> QED
  BY <1>2, <1>3, <1>4, <1>5, <1>6, <1>7, <1>8, <1>9 DEF StoreInv

LEMMA LocalizeFailsStep ==
  ASSUME StoreInv, NEW p \in Uploads, LocalizeFails(p)
  PROVE  StoreInv'
<1>0. p \in Processes /\ "ending" \in Labels
  BY DEF Processes, Labels
<1>1. /\ pc[p] # "locked" /\ pc' = [pc EXCEPT ![p] = "ending"] /\ UNCHANGED <<data, meta, work, limit, server, faults>>
      /\ task' \in [Downloads \cup Admins -> TaskRecord]
      /\ \A q \in (Downloads \cup Admins) \ {p} : task'[q] = task[q]
  BY <1>0, Returned DEF LocalizeFails, files
<1>2. /\ Working' /\ Counted' /\ HalfInHand' /\ CapacityHeld'
      /\ work'.phase # "none" => server' = "boot" \/ \E q \in Uploads \cup Admins : pc'[q] = "locked"
  BY <1>0, <1>1, Outside
<1>3. Types'
  BY <1>0, <1>1, Typed DEF StoreInv, Types, TypeOK, Labels, lockVars, files, LocalizeFails
<1>4. Roles'
  BY <1>0, <1>1, Typed DEF StoreInv, Roles, lockVars, LocalizeFails
<1>5. Locking'
  BY <1>0, <1>1, <1>2, Typed DEF StoreInv, Locking, lockVars, LocalizeFails
<1>6. Renaming'
  BY <1>0, <1>1, Typed DEF StoreInv, Renaming, files, LocalizeFails
<1>7. Whole'
  BY <1>0, <1>1, Typed DEF StoreInv, Whole, files, LocalizeFails
<1>8. Temporary'
  BY <1>0, <1>1, Typed DEF StoreInv, Temporary, files, LocalizeFails
<1>9. ReadersUndisturbed'
  BY <1>0, <1>1, Typed DEF StoreInv, ReadersUndisturbed, Wanted, files, LocalizeFails
<1> QED
  BY <1>2, <1>3, <1>4, <1>5, <1>6, <1>7, <1>8, <1>9 DEF StoreInv

LEMMA PutCopiedStep ==
  ASSUME StoreInv, NEW p \in Uploads, PutCopied(p)
  PROVE  StoreInv'
<1>0. p \in Processes /\ "lock" \in Labels
  BY DEF Processes, Labels
<1>1. pc[p] # "locked" /\ pc' = [pc EXCEPT ![p] = "lock"] /\ UNCHANGED <<data, meta, work, limit, server, faults>>
  BY DEF PutCopied, Goto, files
<1>2. /\ Working' /\ Counted' /\ HalfInHand' /\ CapacityHeld'
      /\ work'.phase # "none" => server' = "boot" \/ \E q \in Uploads \cup Admins : pc'[q] = "locked"
  BY <1>0, <1>1, Outside
<1>3. Types'
  BY <1>0, <1>1, Typed DEF StoreInv, Types, TypeOK, Labels, lockVars, files, PutCopied
<1>4. Roles'
  BY <1>0, <1>1, Typed DEF StoreInv, Roles, lockVars, PutCopied
<1>5. Locking'
  BY <1>0, <1>1, <1>2, Typed DEF StoreInv, Locking, lockVars, PutCopied
<1>6. Renaming'
  BY <1>0, <1>1, Typed DEF StoreInv, Renaming, files, PutCopied
<1>7. Whole'
  BY <1>0, <1>1, Typed DEF StoreInv, Whole, files, PutCopied
<1>8. Temporary'
  <2>1. server = "up"
    BY <1>0 DEF StoreInv, Locking, PutCopied
  <2> QED
    BY <1>0, <1>1, <2>1, Typed DEF StoreInv, Temporary, PutCopied
<1>9. ReadersUndisturbed'
  BY <1>0, <1>1, Typed DEF StoreInv, ReadersUndisturbed, Wanted, files, PutCopied
<1> QED
  BY <1>2, <1>3, <1>4, <1>5, <1>6, <1>7, <1>8, <1>9 DEF StoreInv

LEMMA PutEndsStep ==
  ASSUME StoreInv, NEW p \in Uploads, PutEnds(p)
  PROVE  StoreInv'
<1>0. p \in Processes /\ "done" \in Labels
  BY DEF Processes, Labels
<1>1. pc[p] # "locked" /\ pc' = [pc EXCEPT ![p] = "done"] /\ UNCHANGED <<data, meta, work, limit, server, faults>>
  BY DEF PutEnds, Goto, files
<1>2. /\ Working' /\ Counted' /\ HalfInHand' /\ CapacityHeld'
      /\ work'.phase # "none" => server' = "boot" \/ \E q \in Uploads \cup Admins : pc'[q] = "locked"
  BY <1>0, <1>1, Outside
<1>3. Types'
  BY <1>0, <1>1, Typed DEF StoreInv, Types, TypeOK, Labels, lockVars, files, PutEnds
<1>4. Roles'
  BY <1>0, <1>1, Typed DEF StoreInv, Roles, lockVars, PutEnds
<1>5. Locking'
  BY <1>0, <1>1, <1>2, Typed DEF StoreInv, Locking, lockVars, PutEnds
<1>6. Renaming'
  BY <1>0, <1>1, Typed DEF StoreInv, Renaming, files, PutEnds
<1>7. Whole'
  BY <1>0, <1>1, Typed DEF StoreInv, Whole, files, PutEnds
<1>8. Temporary'
  BY <1>0, <1>1, Typed DEF StoreInv, Temporary, files, PutEnds
<1>9. ReadersUndisturbed'
  BY <1>0, <1>1, Typed DEF StoreInv, ReadersUndisturbed, Wanted, files, PutEnds
<1> QED
  BY <1>2, <1>3, <1>4, <1>5, <1>6, <1>7, <1>8, <1>9 DEF StoreInv

LEMMA DownloadStep ==
  ASSUME StoreInv, NEW p \in Downloads, Download(p)
  PROVE  StoreInv'
<1>0. p \in Processes /\ "open" \in Labels
  BY DEF Processes, Labels
<1>1. pc[p] # "locked" /\ pc' = [pc EXCEPT ![p] = "open"] /\ UNCHANGED <<data, meta, work, limit, server, faults>>
  BY DEF Download, Goto, files
<1>2. /\ Working' /\ Counted' /\ HalfInHand' /\ CapacityHeld'
      /\ work'.phase # "none" => server' = "boot" \/ \E q \in Uploads \cup Admins : pc'[q] = "locked"
  BY <1>0, <1>1, Outside
<1>3. Types'
  <2>1. PICK i \in stored : task' = [task EXCEPT ![p] = [op |-> "open", ids |-> {i}]]
    BY DEF Download
  <2>2. [op |-> "open", ids |-> {i}] \in TaskRecord
    BY Typed DEF TaskRecord
  <2>3. task' \in [Downloads \cup Admins -> TaskRecord]
    BY <2>1, <2>2, Typed
  <2> QED
    BY <1>0, <1>1, <2>3, Typed DEF StoreInv, Types, TypeOK, Labels, lockVars, files, Download
<1>4. Roles'
  BY <1>0, <1>1, Typed DEF StoreInv, Roles, lockVars, Download
<1>5. Locking'
  BY <1>0, <1>1, <1>2, Typed DEF StoreInv, Locking, lockVars, Download
<1>6. Renaming'
  BY <1>0, <1>1, Typed DEF StoreInv, Renaming, files, Download
<1>7. Whole'
  BY <1>0, <1>1, Typed DEF StoreInv, Whole, files, Download
<1>8. Temporary'
  BY <1>0, <1>1, Typed DEF StoreInv, Temporary, files, Download
<1>9. ReadersUndisturbed'
  BY <1>0, <1>1, Typed DEF StoreInv, ReadersUndisturbed, Wanted, files, Download
<1> QED
  BY <1>2, <1>3, <1>4, <1>5, <1>6, <1>7, <1>8, <1>9 DEF StoreInv

LEMMA OpenStep ==
  ASSUME StoreInv, NEW p \in Uploads \cup Downloads, Open(p)
  PROVE  StoreInv'
<1>0. p \in Processes /\ "opening" \in Labels
  BY DEF Processes, Labels
<1>1. pc[p] # "locked" /\ pc' = [pc EXCEPT ![p] = "opening"] /\ UNCHANGED <<data, meta, work, limit, server, faults>>
  BY DEF Open, RLock, Goto, files
<1>2. /\ Working' /\ Counted' /\ HalfInHand' /\ CapacityHeld'
      /\ work'.phase # "none" => server' = "boot" \/ \E q \in Uploads \cup Admins : pc'[q] = "locked"
  BY <1>0, <1>1, Outside
<1>3. Types'
  BY <1>0, <1>1, Typed DEF StoreInv, Types, TypeOK, Labels, lockVars, files, Open, RLock
<1>4. Roles'
  BY <1>0, <1>1, Typed DEF StoreInv, Roles, lockVars, Open, RLock
<1>5. Locking'
  BY <1>0, <1>1, <1>2, Typed DEF StoreInv, Locking, lockVars, Open, RLock
<1>6. Renaming'
  BY <1>0, <1>1, Typed DEF StoreInv, Renaming, files, Open, RLock
<1>7. Whole'
  BY <1>0, <1>1, Typed DEF StoreInv, Whole, files, Open, RLock
<1>8. Temporary'
  BY <1>0, <1>1, Typed DEF StoreInv, Temporary, files, Open, RLock
<1>9. ReadersUndisturbed'
  BY <1>0, <1>1, Typed DEF StoreInv, ReadersUndisturbed, Wanted, files, Open, RLock
<1> QED
  BY <1>2, <1>3, <1>4, <1>5, <1>6, <1>7, <1>8, <1>9 DEF StoreInv

LEMMA OpenCanceledStep ==
  ASSUME StoreInv, NEW p \in Uploads \cup Downloads, OpenCanceled(p)
  PROVE  StoreInv'
<1>0. p \in Processes /\ "done" \in Labels
  BY DEF Processes, Labels
<1>1. /\ pc[p] # "locked" /\ pc' = [pc EXCEPT ![p] = "done"] /\ UNCHANGED <<data, meta, work, limit, server, faults>>
      /\ task' \in [Downloads \cup Admins -> TaskRecord]
      /\ \A q \in (Downloads \cup Admins) \ {p} : task'[q] = task[q]
  BY <1>0, Returned DEF OpenCanceled, files
<1>2. /\ Working' /\ Counted' /\ HalfInHand' /\ CapacityHeld'
      /\ work'.phase # "none" => server' = "boot" \/ \E q \in Uploads \cup Admins : pc'[q] = "locked"
  BY <1>0, <1>1, Outside
<1>3. Types'
  BY <1>0, <1>1, Typed DEF StoreInv, Types, TypeOK, Labels, lockVars, files, OpenCanceled
<1>4. Roles'
  BY <1>0, <1>1, Typed DEF StoreInv, Roles, lockVars, OpenCanceled
<1>5. Locking'
  BY <1>0, <1>1, <1>2, Typed DEF StoreInv, Locking, lockVars, OpenCanceled
<1>6. Renaming'
  BY <1>0, <1>1, Typed DEF StoreInv, Renaming, files, OpenCanceled
<1>7. Whole'
  BY <1>0, <1>1, Typed DEF StoreInv, Whole, files, OpenCanceled
<1>8. Temporary'
  BY <1>0, <1>1, Typed DEF StoreInv, Temporary, files, OpenCanceled
<1>9. ReadersUndisturbed'
  BY <1>0, <1>1, Typed DEF StoreInv, ReadersUndisturbed, Wanted, files, OpenCanceled
<1> QED
  BY <1>2, <1>3, <1>4, <1>5, <1>6, <1>7, <1>8, <1>9 DEF StoreInv

LEMMA OpenedStep ==
  ASSUME StoreInv, NEW p \in Uploads \cup Downloads, Opened(p)
  PROVE  StoreInv'
<1>0. p \in Processes /\ "reading" \in Labels
  BY DEF Processes, Labels
<1>1. pc[p] # "locked" /\ pc' = [pc EXCEPT ![p] = "reading"] /\ UNCHANGED <<data, meta, work, limit, server, faults>>
  BY DEF Opened, Valid, Goto, files
<1>2. /\ Working' /\ Counted' /\ HalfInHand' /\ CapacityHeld'
      /\ work'.phase # "none" => server' = "boot" \/ \E q \in Uploads \cup Admins : pc'[q] = "locked"
  BY <1>0, <1>1, Outside
<1>3. Types'
  BY <1>0, <1>1, Typed DEF StoreInv, Types, TypeOK, Labels, lockVars, files, Opened, Valid
<1>4. Roles'
  BY <1>0, <1>1, Typed DEF StoreInv, Roles, lockVars, Opened, Valid
<1>5. Locking'
  BY <1>0, <1>1, <1>2, Typed DEF StoreInv, Locking, lockVars, Opened, Valid
<1>6. Renaming'
  BY <1>0, <1>1, Typed DEF StoreInv, Renaming, files, Opened, Valid
<1>7. Whole'
  BY <1>0, <1>1, Typed DEF StoreInv, Whole, files, Opened, Valid
<1>8. Temporary'
  BY <1>0, <1>1, Typed DEF StoreInv, Temporary, files, Opened, Valid
<1>9. ReadersUndisturbed'
  BY <1>0, <1>1, Typed DEF StoreInv, ReadersUndisturbed, Wanted, files, Opened, Valid
<1> QED
  BY <1>2, <1>3, <1>4, <1>5, <1>6, <1>7, <1>8, <1>9 DEF StoreInv

LEMMA OpenFailsStep ==
  ASSUME StoreInv, NEW p \in Uploads \cup Downloads, OpenFails(p)
  PROVE  StoreInv'
<1>0. p \in Processes /\ "done" \in Labels
  BY DEF Processes, Labels
<1>1. /\ pc[p] # "locked" /\ pc' = [pc EXCEPT ![p] = "done"] /\ UNCHANGED <<data, meta, work, limit, server, faults>>
      /\ task' \in [Downloads \cup Admins -> TaskRecord]
      /\ \A q \in (Downloads \cup Admins) \ {p} : task'[q] = task[q]
  BY <1>0, Returned DEF OpenFails, RUnlock, files
<1>2. /\ Working' /\ Counted' /\ HalfInHand' /\ CapacityHeld'
      /\ work'.phase # "none" => server' = "boot" \/ \E q \in Uploads \cup Admins : pc'[q] = "locked"
  BY <1>0, <1>1, Outside
<1>3. Types'
  BY <1>0, <1>1, Typed DEF StoreInv, Types, TypeOK, Labels, lockVars, files, OpenFails, RUnlock
<1>4. Roles'
  BY <1>0, <1>1, Typed DEF StoreInv, Roles, lockVars, OpenFails, RUnlock
<1>5. Locking'
  BY <1>0, <1>1, <1>2, Typed DEF StoreInv, Locking, lockVars, OpenFails, RUnlock
<1>6. Renaming'
  BY <1>0, <1>1, Typed DEF StoreInv, Renaming, files, OpenFails, RUnlock
<1>7. Whole'
  BY <1>0, <1>1, Typed DEF StoreInv, Whole, files, OpenFails, RUnlock
<1>8. Temporary'
  BY <1>0, <1>1, Typed DEF StoreInv, Temporary, files, OpenFails, RUnlock
<1>9. ReadersUndisturbed'
  BY <1>0, <1>1, Typed DEF StoreInv, ReadersUndisturbed, Wanted, files, OpenFails, RUnlock
<1> QED
  BY <1>2, <1>3, <1>4, <1>5, <1>6, <1>7, <1>8, <1>9 DEF StoreInv

LEMMA CloseStep ==
  ASSUME StoreInv, NEW p \in Uploads \cup Downloads, Close(p)
  PROVE  StoreInv'
<1>0. p \in Processes /\ "done" \in Labels
  BY DEF Processes, Labels
<1>1. /\ pc[p] # "locked" /\ pc' = [pc EXCEPT ![p] = "done"] /\ UNCHANGED <<data, meta, work, limit, server, faults>>
      /\ task' \in [Downloads \cup Admins -> TaskRecord]
      /\ \A q \in (Downloads \cup Admins) \ {p} : task'[q] = task[q]
  BY <1>0, Returned DEF Close, RUnlock, files
<1>2. /\ Working' /\ Counted' /\ HalfInHand' /\ CapacityHeld'
      /\ work'.phase # "none" => server' = "boot" \/ \E q \in Uploads \cup Admins : pc'[q] = "locked"
  BY <1>0, <1>1, Outside
<1>3. Types'
  BY <1>0, <1>1, Typed DEF StoreInv, Types, TypeOK, Labels, lockVars, files, Close, RUnlock
<1>4. Roles'
  BY <1>0, <1>1, Typed DEF StoreInv, Roles, lockVars, Close, RUnlock
<1>5. Locking'
  BY <1>0, <1>1, <1>2, Typed DEF StoreInv, Locking, lockVars, Close, RUnlock
<1>6. Renaming'
  BY <1>0, <1>1, Typed DEF StoreInv, Renaming, files, Close, RUnlock
<1>7. Whole'
  BY <1>0, <1>1, Typed DEF StoreInv, Whole, files, Close, RUnlock
<1>8. Temporary'
  BY <1>0, <1>1, Typed DEF StoreInv, Temporary, files, Close, RUnlock
<1>9. ReadersUndisturbed'
  BY <1>0, <1>1, Typed DEF StoreInv, ReadersUndisturbed, Wanted, files, Close, RUnlock
<1> QED
  BY <1>2, <1>3, <1>4, <1>5, <1>6, <1>7, <1>8, <1>9 DEF StoreInv

LEMMA AskStep ==
  ASSUME StoreInv, NEW p \in Admins, NEW op \in Ops, NEW ids \in SUBSET Objects, Ask(p, op, ids)
  PROVE  StoreInv'
<1>0. p \in Processes /\ "lock" \in Labels
  BY DEF Processes, Labels
<1>1. pc[p] # "locked" /\ pc' = [pc EXCEPT ![p] = "lock"] /\ UNCHANGED <<data, meta, work, limit, server, faults>>
  BY DEF Ask, Goto, files
<1>2. /\ Working' /\ Counted' /\ HalfInHand' /\ CapacityHeld'
      /\ work'.phase # "none" => server' = "boot" \/ \E q \in Uploads \cup Admins : pc'[q] = "locked"
  BY <1>0, <1>1, Outside
<1>3. Types'
  <2>1. [op |-> op, ids |-> ids] \in TaskRecord
    BY Typed DEF TaskRecord
  <2>2. task' \in [Downloads \cup Admins -> TaskRecord]
    BY <2>1, Typed DEF Ask
  <2> QED
    BY <1>0, <1>1, <2>2, Typed DEF StoreInv, Types, TypeOK, Labels, lockVars, files, Ask
<1>4. Roles'
  BY <1>0, <1>1, Typed DEF StoreInv, Roles, lockVars, Ask
<1>5. Locking'
  BY <1>0, <1>1, <1>2, Typed DEF StoreInv, Locking, lockVars, Ask
<1>6. Renaming'
  BY <1>0, <1>1, Typed DEF StoreInv, Renaming, files, Ask
<1>7. Whole'
  BY <1>0, <1>1, Typed DEF StoreInv, Whole, files, Ask
<1>8. Temporary'
  BY <1>0, <1>1, Typed DEF StoreInv, Temporary, files, Ask
<1>9. ReadersUndisturbed'
  BY <1>0, <1>1, Typed DEF StoreInv, ReadersUndisturbed, Wanted, files, Ask
<1> QED
  BY <1>2, <1>3, <1>4, <1>5, <1>6, <1>7, <1>8, <1>9 DEF StoreInv

LEMMA AdministerStep ==
  ASSUME StoreInv, NEW p \in Admins, Administer(p)
  PROVE  StoreInv'
<1>1. \E op \in Ops, ids \in SUBSET Objects : Ask(p, op, ids)
  <2>1. {} \in SUBSET Objects /\ stored \in SUBSET Objects /\ \A i \in stored : {i} \in SUBSET Objects
    BY Typed
  <2> QED
    BY <2>1 DEF Administer, ListMedia, DeleteMedia, BatchDeleteMedia, CleanupMedia, Ops
<1> QED
  BY <1>1, AskStep

LEMMA SurroundingsStep ==
  ASSUME StoreInv, Expire \/ \E p \in Processes : Cancel(p)
  PROVE  StoreInv'
<1>1. UNCHANGED <<files, limit, server, pc, task, stored, lockVars, work, faults>> /\ expired' \subseteq stored
  BY Typed DEF Expire, Cancel
<1> QED
  BY <1>1 DEF files, lockVars, StoreInv, Types, TypeOK, Roles, Locking, Working, Counted, Renaming, Whole, HalfInHand,
              Temporary, CapacityHeld, ReadersUndisturbed, Wanted

----------------------------------------------------------------------------
(* The holder of the lock.                                                 *)

\* It is alone.
LEMMA Alone ==
  ASSUME StoreInv, NEW p \in Processes, pc[p] = "locked"
  PROVE  /\ server = "up" /\ writer = p /\ readers = {} /\ p \in Uploads \cup Admins
         /\ \A q \in Processes \ {p} : pc[q] \notin {"drain", "locked", "reading"}
         /\ work.phase # "none"
<1>1. p \in Uploads \cup Admins
  BY DEF StoreInv, Roles, Processes
<1> QED
  BY <1>1, Typed DEF StoreInv, Locking, Working

LEMMA IdleFacts ==
  Idle \in WorkRecord /\ Idle.phase = "none" /\ Idle.half = Nobody /\ Idle.todo = {}
  BY DEF Idle, WorkRecord, Phases

\* The scan: it knows all that is there.
LEMMA ScanFacts ==
  ASSUME StoreInv
  PROVE  /\ Scanning \in WorkRecord /\ Scanning.phase = "scan" /\ Scanning.half = Nobody
         /\ Scanning.usage = Bytes(data) /\ Bytes(data) \in Nat
         /\ Scanning.todo = {i \in data \cup meta : ~Valid(i)} /\ Scanning.entries = {i \in data : Valid(i)}
<1>1. Bytes(data) \in Nat
  BY Typed, BytesType
<1> DEFINE todo == {i \in data \cup meta : ~Valid(i)}
           entries == {i \in data : Valid(i)}
           usage == Bytes(data)
<1>2. todo \in SUBSET Objects /\ entries \in SUBSET Objects /\ usage \in Nat
  BY <1>1, Typed
<1>3. Scanning = [Idle EXCEPT !.phase = "scan", !.usage = usage, !.todo = todo, !.entries = entries]
  BY DEF Scanning
<1> HIDE DEF todo, entries, usage
<1>4. /\ Scanning.phase = "scan" /\ Scanning.half = Nobody
      /\ Scanning.usage = usage /\ Scanning.todo = todo /\ Scanning.entries = entries
  BY <1>3 DEF Idle
<1>5. Scanning \in WorkRecord
  BY <1>2, <1>3, IdleFacts DEF WorkRecord, Phases
<1> QED
  BY <1>1, <1>4, <1>5 DEF todo, entries, usage

\* What the operation starts with.
LEMMA FirstPhaseFacts ==
  ASSUME StoreInv, NEW p \in Uploads \cup Admins, pc[p] = "drain"
  PROVE  \/ FirstPhase(p) = Scanning
         \/ p \in Admins /\ \E ids \in SUBSET Objects : FirstPhase(p) = Removing(ids)
<1>1. CASE p \in Uploads
  BY <1>1 DEF FirstPhase
<1>2. CASE p \in Admins
  <2>1. task[p].op \in Ops /\ task[p].ids \in SUBSET Objects
    BY <1>2, Typed DEF StoreInv, Roles, TaskRecord
  <2>2. (meta \cap expired) \in SUBSET Objects /\ (data \cup meta) \in SUBSET Objects
    BY Typed
  <2>3. CASE task[p].op = "list"
    BY <2>3 DEF FirstPhase
  <2>4. CASE task[p].op = "delete"
    BY <1>2, <2>1, <2>4, Typed DEF FirstPhase
  <2>5. CASE task[p].op = "cleanup"
    BY <1>2, <2>2, <2>5, Typed DEF FirstPhase
  <2>6. CASE task[p].op = "clear"
    BY <1>2, <2>2, <2>6, Typed DEF FirstPhase
  <2> QED
    BY <2>1, <2>3, <2>4, <2>5, <2>6 DEF Ops
<1> QED
  BY <1>1, <1>2

LEMMA RemovingFacts ==
  ASSUME NEW ids \in SUBSET Objects
  PROVE  /\ Removing(ids) \in WorkRecord /\ Removing(ids).phase = "remove" /\ Removing(ids).half = Nobody
         /\ Removing(ids).todo = ids
<1>1. Removing(ids) \in WorkRecord
  BY IdleFacts DEF Removing, WorkRecord, Phases
<1> QED
  BY <1>1 DEF Removing, Idle

LEMMA CommittingFacts ==
  Committing \in WorkRecord /\ Committing.phase = "commit" /\ Committing.half = Nobody /\ Committing.todo = {}
<1>1. Committing \in WorkRecord
  BY IdleFacts DEF Committing, WorkRecord, Phases
<1> QED
  BY <1>1 DEF Committing, Idle

LEMMA EvictingFacts ==
  ASSUME work \in WorkRecord, NEW target \in Int
  PROVE  /\ Evicting(target) \in WorkRecord /\ Evicting(target).phase = "evict" /\ Evicting(target).half = Nobody
         /\ Evicting(target).todo = work.entries /\ Evicting(target).usage = work.usage
<1>1. work.entries \in SUBSET Objects /\ work.usage \in Nat
  BY DEF WorkRecord
<1>2. Evicting(target) \in WorkRecord
  BY <1>1, IdleFacts DEF Evicting, WorkRecord, Phases
<1> QED
  BY <1>2 DEF Evicting, Idle

\* A phase begins that scans, with the directory as it is: by an operation, or by the start.
LEMMA ScanBegins ==
  ASSUME StoreInv, work' = Scanning, UNCHANGED <<data, meta, stored>>
  PROVE  /\ work'.half \notin work'.todo /\ work'.half = Nobody /\ work'.half \notin stored
         /\ work'.entries \subseteq data /\ work'.todo \cap work'.entries = {} /\ work'.todo \subseteq data \cup meta
         /\ Bytes(data) <= work'.usage /\ \A i \in Objects : (i \in data) # (i \in meta) => i \in work'.todo
<1>1. Nobody \notin Objects /\ data \in SUBSET Objects /\ meta \in SUBSET Objects /\ stored \in SUBSET Objects
  BY Typed
<1> QED
  BY <1>1, ScanFacts DEF Valid

LEMMA EnterStep ==
  ASSUME StoreInv, NEW p \in Uploads \cup Admins, Enter(p)
  PROVE  StoreInv'
<1>0. /\ p \in Processes /\ pc[p] = "drain" /\ readers = {} /\ pc' = [pc EXCEPT ![p] = "locked"] /\ work' = FirstPhase(p)
      /\ UNCHANGED <<data, meta, upload, draft, made, expired, limit, server, canceled, task, stored, writer, readers,
                     blocked, faults>>
  BY DEF Processes, Enter, Goto, files, lockVars
<1>1. /\ writer = p /\ server = "up" /\ \A q \in Processes \ {p} : pc[q] \notin {"drain", "locked"}
      /\ \A q \in Processes : pc[q] # "reading"
  BY <1>0, Typed DEF StoreInv, Locking
<1>2. \/ work' = Scanning
      \/ p \in Admins /\ \E ids \in SUBSET Objects : work' = Removing(ids)
  BY <1>0, FirstPhaseFacts
<1>3. /\ work' \in WorkRecord /\ work'.half = Nobody /\ work'.half \notin work'.todo
      /\ \/ work'.phase = "scan" /\ work' = Scanning
         \/ p \in Admins /\ work'.phase = "remove"
  BY <1>2, ScanFacts, RemovingFacts, Typed
<1>4. work.phase = "none"
  BY <1>0, <1>1, Typed DEF StoreInv, Locking
<1>5. Types'
  BY <1>0, <1>3, Typed DEF StoreInv, Types, TypeOK, Labels, files, WorkRecord
<1>6. Roles'
  BY <1>0, Typed DEF StoreInv, Roles
<1>7. Locking'
  BY <1>0, <1>1, Typed DEF StoreInv, Locking
<1>8. Working'
  BY <1>0, <1>1, <1>3, ScanBegins, Typed DEF Working
<1>9. Counted'
  <2>1. work'.phase \in {"scan", "evict"} => work'.phase = "scan" /\ Bytes(data) <= work'.usage
    BY <1>0, <1>3, ScanBegins
  <2>2. Bytes(data) + 0 = Bytes(data)
    BY ScanFacts
  <2>3. \A q \in Uploads : pc'[q] = "locked" => q = p /\ work'.phase # "commit"
    BY <1>0, <1>1, <1>3, Typed
  <2> QED
    BY <1>0, <2>1, <2>2, <2>3 DEF Counted
<1>10. Renaming'
  BY <1>0, <1>1, <1>3, Typed DEF StoreInv, Renaming
<1>11. Whole'
  BY <1>0, <1>3, Typed DEF StoreInv, Whole
<1>12. HalfInHand'
  BY <1>0, <1>1, <1>3, <1>4, Typed DEF StoreInv, HalfInHand, Working
<1>13. Temporary'
  BY <1>0, <1>1, Typed DEF StoreInv, Temporary
<1>14. CapacityHeld'
  BY <1>0 DEF StoreInv, CapacityHeld
<1>15. ReadersUndisturbed'
  BY <1>0, <1>1, Typed DEF ReadersUndisturbed
<1> QED
  BY <1>5, <1>6, <1>7, <1>8, <1>9, <1>10, <1>11, <1>12, <1>13, <1>14, <1>15 DEF StoreInv

----------------------------------------------------------------------------
(* Removals.                                                               *)

\* While somebody removes nobody reads, and in a start no operation runs.
LEMMA Holder ==
  ASSUME StoreInv, NEW p \in Uploads \cup Admins \cup {Nobody}, Holds(p)
  PROVE  /\ \A q \in Processes : pc[q] # "reading" /\ (pc[q] = "locked" => q = p)
         /\ server # "down" /\ (p = Nobody => server = "boot") /\ (p # Nobody => server = "up" /\ pc[p] = "locked")
         /\ work.phase # "none" /\ work.phase \in Phases
<1>1. CASE p = Nobody
  BY <1>1, Typed DEF Holds, StoreInv, Locking, Working, WorkRecord
<1>2. CASE p # Nobody
  BY <1>2, Alone, Typed DEF Holds, WorkRecord
<1> QED
  BY <1>1, <1>2

\* A step of its removals: what it cannot disturb.
LEMMA Removal ==
  ASSUME StoreInv, NEW p \in Uploads \cup Admins \cup {Nobody}, Holds(p), work'.phase = work.phase,
         UNCHANGED <<upload, draft, limit, server, pc, task, lockVars>>
  PROVE  Roles' /\ Locking' /\ Temporary' /\ ReadersUndisturbed'
<1>1. Roles'
  BY DEF StoreInv, Roles
<1>2. Locking'
  BY DEF StoreInv, Locking, lockVars
<1>3. Temporary'
  BY DEF StoreInv, Temporary
<1>4. ReadersUndisturbed'
  BY Holder DEF ReadersUndisturbed
<1> QED
  BY <1>1, <1>2, <1>3, <1>4

\* An upload never removes its own object, which is not there.
LEMMA NotItsOwn ==
  ASSUME StoreInv, NEW p \in Uploads, pc[p] = "locked", NEW i, Chosen(i)
  PROVE  i # p
<1>1. work.phase \in {"scan", "evict"}
  BY Alone, Typed DEF StoreInv, Working, Chosen
<1>2. p \notin data \cup meta /\ work.todo \subseteq data \cup meta
  BY <1>1 DEF StoreInv, Working, Renaming
<1>3. CASE work.phase = "scan"
  BY <1>2, <1>3 DEF Chosen
<1>4. CASE work.phase = "evict"
  BY <1>2, <1>4 DEF Chosen, Oldest
<1> QED
  BY <1>1, <1>3, <1>4

LEMMA RemoveDataStep ==
  ASSUME StoreInv, NEW p \in Uploads \cup Admins \cup {Nobody}, NEW i \in Objects, RemoveData(p, i)
  PROVE  StoreInv'
<1>0. /\ Holds(p) /\ work.half = Nobody /\ Chosen(i) /\ work.phase \in {"scan", "remove", "evict"}
      /\ data' = data \ {i} /\ stored' = stored \ {i} /\ expired' = expired \ {i}
      /\ UNCHANGED <<meta, upload, draft, limit, server, pc, task, lockVars, faults>>
  BY DEF RemoveData, Chosen
<1>1. /\ server # "down" /\ (p = Nobody => server = "boot") /\ (p # Nobody => server = "up" /\ pc[p] = "locked")
      /\ \A q \in Processes : pc[q] # "reading" /\ (pc[q] = "locked" => q = p)
  BY <1>0, Holder
<1>2. /\ IsFiniteSet(data') /\ Bytes(data) = Bytes(data') + (IF i \in data THEN Size[i] ELSE 0)
      /\ Bytes(data') \in Nat /\ Bytes(data) \in Nat /\ Size[i] \in Nat
  BY <1>0, Typed, BytesRemove, BytesType
<1>3. work.phase \in {"scan", "evict"} => Bytes(data) <= work.usage
  BY <1>0, <1>2 DEF StoreInv, Counted
<1>4. (IF work.phase = "scan" /\ i \in data THEN work.usage - Size[i] ELSE work.usage) \in Nat
  BY <1>2, <1>3, Typed DEF WorkRecord
<1>5. /\ work' \in WorkRecord /\ work'.phase = work.phase /\ work'.todo = work.todo \ {i} /\ work'.half = i
      /\ work'.entries = work.entries
      /\ work'.usage = IF work.phase = "scan" /\ i \in data THEN work.usage - Size[i] ELSE work.usage
  BY <1>4, Typed DEF RemoveData, WorkRecord
<1>6. Roles' /\ Locking' /\ Temporary' /\ ReadersUndisturbed'
  BY <1>0, <1>5, Removal
<1>7. Types'
  <2>1. expired' \subseteq stored'
    BY <1>0, Typed
  <2> QED
    BY <1>0, <1>2, <1>5, <2>1, Typed DEF StoreInv, Types, TypeOK, lockVars, WorkRecord
<1>8. Working'
  <2>1. work.phase = "evict" => i \in work.todo
    BY <1>0 DEF Chosen, Oldest
  <2>2. work.phase = "scan" => i \in work.todo
    BY <1>0 DEF Chosen
  <2> QED
    BY <1>0, <1>5, <2>1, <2>2, Typed DEF StoreInv, Working
<1>9. Counted'
  <2>1. work.phase = "evict" => i \in data
    BY <1>0 DEF StoreInv, Working, Chosen, Oldest
  <2>2. i # Nobody
    BY Typed
  <2> QED
    BY <1>0, <1>2, <1>3, <1>5, <2>1, <2>2, Typed DEF Counted, WorkRecord
<1>10. Renaming'
  BY <1>0, <1>1, <1>5, NotItsOwn, Typed DEF StoreInv, Renaming
<1>11. Whole'
  BY <1>0, <1>5 DEF StoreInv, Whole
<1>12. HalfInHand'
  BY <1>0, <1>5, Typed DEF StoreInv, HalfInHand
<1>13. CapacityHeld'
  BY <1>0, <1>2, Typed DEF StoreInv, CapacityHeld
<1> QED
  BY <1>6, <1>7, <1>8, <1>9, <1>10, <1>11, <1>12, <1>13 DEF StoreInv

\* A removal that fails leaves the object where it is, and drops it from the list or from the hand.
LEMMA RemovalFailsStep ==
  ASSUME StoreInv, NEW p \in Uploads \cup Admins \cup {Nobody},
         RemoveMetaFails(p) \/ \E i \in Objects : RemoveDataFails(p, i)
  PROVE  StoreInv'
<1>0. /\ Holds(p) /\ work.phase # "commit" /\ faults' = faults + 1
      /\ UNCHANGED <<data, meta, upload, draft, expired, limit, server, pc, task, stored, lockVars>>
  BY DEF RemoveMetaFails, RemoveDataFails, Chosen, files
<1>1. /\ work' \in WorkRecord /\ work'.phase = work.phase /\ work'.todo \subseteq work.todo
      /\ work'.entries = work.entries /\ work'.usage = work.usage /\ work'.half = Nobody
  <2>1. CASE RemoveMetaFails(p)
    BY <2>1, Typed DEF RemoveMetaFails, WorkRecord
  <2>2. CASE \E i \in Objects : RemoveDataFails(p, i)
    BY <2>2, Typed DEF RemoveDataFails, WorkRecord
  <2> QED
    BY <2>1, <2>2
<1>2. Roles' /\ Locking' /\ Temporary' /\ ReadersUndisturbed'
  BY <1>0, <1>1, Removal
<1>3. Types'
  BY <1>0, <1>1, Typed DEF StoreInv, Types, TypeOK, lockVars, WorkRecord
<1>4. Working'
  BY <1>0, <1>1, Typed DEF StoreInv, Working, WorkRecord
<1>5. Counted'
  <2>1. Bytes(data) \in Nat /\ \A i \in Objects : Size[i] \in Nat
    BY BytesType, Typed
  <2>2. work.half \in Objects \cup {Nobody} /\ work.usage \in Nat
    BY Typed DEF WorkRecord
  <2> QED
    BY <1>0, <1>1, <2>1, <2>2 DEF StoreInv, Counted
<1>6. Renaming'
  BY <1>0, <1>1, Typed DEF StoreInv, Renaming
<1>7. Whole'
  BY <1>0, <1>1, Typed DEF StoreInv, Whole
<1>8. HalfInHand'
  BY <1>0, Typed DEF HalfInHand
<1>9. CapacityHeld'
  BY <1>0 DEF StoreInv, CapacityHeld
<1> QED
  BY <1>2, <1>3, <1>4, <1>5, <1>6, <1>7, <1>8, <1>9 DEF StoreInv

LEMMA RemoveMetaStep ==
  ASSUME StoreInv, NEW p \in Uploads \cup Admins \cup {Nobody}, RemoveMeta(p)
  PROVE  StoreInv'
<1>0. /\ Holds(p) /\ work.half # Nobody /\ work.phase # "commit" /\ meta' = meta \ {work.half}
      /\ UNCHANGED <<data, upload, draft, expired, limit, server, pc, task, stored, lockVars, faults>>
  BY DEF RemoveMeta
<1>1. work.half \in Objects /\ Size[work.half] \in Nat /\ Bytes(data) \in Nat /\ work.half \notin data
  BY <1>0, BytesType, Typed DEF WorkRecord, StoreInv, Working
<1>2. work.phase = "evict" => Bytes(data) + Size[work.half] <= work.usage
  BY <1>0 DEF StoreInv, Counted
<1>3. (IF work.phase = "evict" THEN work.usage - Size[work.half] ELSE work.usage) \in Nat
  BY <1>1, <1>2, Typed DEF WorkRecord
<1>4. /\ work' \in WorkRecord /\ work'.phase = work.phase /\ work'.todo = work.todo
      /\ work'.entries = work.entries /\ work'.half = Nobody
      /\ work'.usage = IF work.phase = "evict" THEN work.usage - Size[work.half] ELSE work.usage
  BY <1>3, Typed DEF RemoveMeta, WorkRecord
<1>5. Roles' /\ Locking' /\ Temporary' /\ ReadersUndisturbed'
  BY <1>0, <1>4, Removal
<1>6. Types'
  BY <1>0, <1>4, Typed DEF StoreInv, Types, TypeOK, lockVars, WorkRecord
<1>7. Working'
  BY <1>0, <1>1, <1>4, Typed DEF StoreInv, Working, WorkRecord
<1>8. Counted'
  BY <1>0, <1>1, <1>2, <1>4, Typed DEF StoreInv, Counted, WorkRecord
<1>9. Renaming'
  BY <1>0, <1>4, Typed DEF StoreInv, Renaming
<1>10. Whole'
  BY <1>0, <1>4, Typed DEF StoreInv, Whole
<1>11. HalfInHand'
  BY <1>0, <1>1, <1>4, Typed DEF StoreInv, HalfInHand
<1>12. CapacityHeld'
  BY <1>0 DEF StoreInv, CapacityHeld
<1> QED
  BY <1>5, <1>6, <1>7, <1>8, <1>9, <1>10, <1>11, <1>12 DEF StoreInv

----------------------------------------------------------------------------
(* The end of an operation.                                                *)

\* With the unlock nobody holds the lock, and nothing is in hand.
LEMMA Unlocked ==
  ASSUME StoreInv, NEW p \in Uploads \cup Admins, pc[p] = "locked", Unlock,
         NEW label \in {"ending", "done", "open"}, p \in Admins => label = "done", pc' = [pc EXCEPT ![p] = label],
         task' \in [Downloads \cup Admins -> TaskRecord],
         \A q \in (Downloads \cup Admins) \ {p} : task'[q] = task[q],
         UNCHANGED <<limit, server>>
  PROVE  /\ work' = Idle /\ work' \in WorkRecord /\ work'.phase = "none" /\ work'.half = Nobody
         /\ writer' \in Processes \cup {Nobody} /\ readers' \in SUBSET Processes /\ blocked' \in SUBSET Processes
         /\ pc' \in [Processes -> Labels] /\ server' = "up"
         /\ \A q \in Processes : pc'[q] \notin {"drain", "locked", "reading"}
         /\ Roles' /\ Locking' /\ Working' /\ Counted' /\ ReadersUndisturbed'
<1>0. p \in Processes
  BY DEF Processes
<1>1. /\ server = "up" /\ \A q \in Processes \ {p} : pc[q] \notin {"drain", "locked", "reading"}
  BY <1>0, Alone
<1>2. /\ work' = Idle /\ work' \in WorkRecord /\ work'.phase = "none" /\ work'.half = Nobody /\ work'.todo = {}
      /\ writer' \in Processes \cup {Nobody} /\ readers' \in SUBSET Processes /\ blocked' \in SUBSET Processes
  BY IdleFacts, Typed DEF Unlock
<1>3. pc' \in [Processes -> Labels]
  BY <1>0, Typed DEF Labels
<1>4. \A q \in Processes : pc'[q] \notin {"drain", "locked", "reading"}
  BY <1>0, <1>1, Typed
<1>5. Roles'
  BY <1>0, Typed DEF StoreInv, Roles
<1>6. Locking'
  BY <1>1, <1>2, <1>4 DEF Locking
<1>7. Working'
  BY <1>1, <1>2, <1>4, Typed DEF Working
<1>8. Counted'
  BY <1>2, <1>4, Typed DEF Counted
<1>9. ReadersUndisturbed'
  BY <1>4 DEF ReadersUndisturbed
<1> QED
  BY <1>1, <1>2, <1>3, <1>4, <1>5, <1>6, <1>7, <1>8, <1>9

\* An operation that leaves the files of its last phase as they are, and holds no object.
LEMMA Left ==
  ASSUME StoreInv, NEW p \in Uploads \cup Admins, pc[p] = "locked", work.half = Nobody, Leave(p),
         UNCHANGED <<data, meta, expired, limit, server, stored, faults>>,
         upload' \in SUBSET upload, draft' \in SUBSET draft
  PROVE  StoreInv'
<1> DEFINE label == IF p \in Uploads THEN "ending" ELSE "done"
<1>0. p \in Processes /\ label \in Labels /\ label \in {"ending", "done", "open"} /\ (p \in Admins => label = "done")
  BY Typed DEF Processes, Labels
<1>1. Return(p, label) /\ Unlock
  BY DEF Leave
<1> HIDE DEF label
<1>2. /\ task' \in [Downloads \cup Admins -> TaskRecord] /\ pc' = [pc EXCEPT ![p] = label]
      /\ \A q \in (Downloads \cup Admins) \ {p} : task'[q] = task[q]
  BY <1>0, <1>1, Returned
<1>3. /\ work' \in WorkRecord /\ work'.phase = "none" /\ work'.half = Nobody
      /\ writer' \in Processes \cup {Nobody} /\ readers' \in SUBSET Processes /\ blocked' \in SUBSET Processes
      /\ pc' \in [Processes -> Labels] /\ server' = "up"
      /\ \A q \in Processes : pc'[q] \notin {"drain", "locked", "reading"}
      /\ Roles' /\ Locking' /\ Working' /\ Counted' /\ ReadersUndisturbed'
  BY <1>0, <1>1, <1>2, Unlocked
<1>4. Types'
  BY <1>2, <1>3, Typed DEF StoreInv, Types, TypeOK, Labels, WorkRecord
<1>5. Renaming'
  BY <1>0, <1>2, <1>3, Typed DEF StoreInv, Renaming, label
<1>6. Whole'
  BY <1>3, Typed DEF StoreInv, Whole
<1>7. HalfInHand'
  BY <1>0, <1>3, Alone, Typed DEF StoreInv, HalfInHand
<1>8. Temporary'
  BY <1>0, <1>2, <1>3, Alone, Typed DEF StoreInv, Temporary, label
<1>9. CapacityHeld'
  BY DEF StoreInv, CapacityHeld
<1> QED
  BY <1>3, <1>4, <1>5, <1>6, <1>7, <1>8, <1>9 DEF StoreInv

LEMMA AbandonStep ==
  ASSUME StoreInv, NEW p \in Uploads \cup Admins, Abandon(p)
  PROVE  StoreInv'
  BY Left DEF Abandon, files

----------------------------------------------------------------------------
(* From one phase to the next.                                             *)

\* What a new phase of an operation or of the start must bring.
LEMMA NewPhase ==
  ASSUME StoreInv, NEW p \in Uploads \cup Admins \cup {Nobody}, Holds(p), work.half = Nobody,
         work' \in WorkRecord, work'.half = Nobody, work'.phase \in {"scan", "evict", "commit"},
         p \in Admins => work'.phase = "scan", p = Nobody => work'.phase = "evict",
         work'.phase = "scan" => work' = Scanning /\ p # Nobody,
         work'.phase = "evict" => work'.todo \subseteq data /\ Bytes(data) <= work'.usage,
         work'.phase = "commit" => p \in Uploads /\ Bytes(data) + Size[p] <= limit,
         work.phase = "scan" => ~\E i \in Objects : i \in work.todo,
         UNCHANGED <<data, meta, expired, stored, limit, server, pc, task, lockVars, faults>>,
         upload' \in SUBSET upload, draft' \in SUBSET draft
  PROVE  StoreInv'
<1>1. /\ server # "down" /\ (p = Nobody => server = "boot") /\ (p # Nobody => server = "up" /\ pc[p] = "locked")
      /\ \A q \in Processes : pc[q] # "reading" /\ (pc[q] = "locked" => q = p)
  BY Holder
<1>2. Nobody \notin work'.todo
  BY Typed DEF WorkRecord
<1>3. Types'
  BY Typed DEF StoreInv, Types, TypeOK, lockVars, WorkRecord, Labels
<1>4. Roles'
  BY DEF StoreInv, Roles
<1>5. Locking'
  BY <1>1, Typed DEF StoreInv, Locking, lockVars
<1>6. Working'
  BY <1>1, <1>2, ScanBegins, Typed DEF Working
<1>7. Counted'
  <2>1. work'.phase \in {"scan", "evict"} => Bytes(data) <= work'.usage
    BY ScanFacts
  <2>2. Bytes(data) + 0 = Bytes(data)
    BY ScanFacts
  <2> QED
    BY <1>1, <2>1, <2>2, Typed DEF Counted
<1>8. Renaming'
  BY <1>1, Typed DEF StoreInv, Renaming
<1>9. Whole'
  BY Typed DEF StoreInv, Whole
<1>10. HalfInHand'
  BY Typed DEF StoreInv, HalfInHand
<1>11. Temporary'
  BY DEF StoreInv, Temporary
<1>12. CapacityHeld'
  BY DEF StoreInv, CapacityHeld
<1>13. ReadersUndisturbed'
  BY <1>1 DEF ReadersUndisturbed
<1> QED
  BY <1>3, <1>4, <1>5, <1>6, <1>7, <1>8, <1>9, <1>10, <1>11, <1>12, <1>13 DEF StoreInv

\* The usage a phase has come to.
LEMMA UsageBounds ==
  ASSUME StoreInv, work.phase \in {"scan", "evict"}, work.half = Nobody
  PROVE  /\ Bytes(data) <= work.usage /\ Bytes(data) \in Nat /\ work.usage \in Nat /\ LowWatermark \in Int
         /\ \A p \in Objects : Size[p] \in Nat /\ (~Exceeds(work.usage, Size[p]) => Bytes(data) + Size[p] <= limit)
<1>1. Bytes(data) \in Nat /\ work.usage \in Nat /\ limit \in Nat /\ Size \in [Objects -> Nat]
  BY BytesType, Typed DEF WorkRecord
<1>2. Bytes(data) <= work.usage
  BY <1>1 DEF StoreInv, Counted
<1>3. LowWatermark \in Int
  BY <1>1 DEF LowWatermark
<1> QED
  BY <1>1, <1>2, <1>3 DEF Exceeds

LEMMA ScanOverStep ==
  ASSUME StoreInv, NEW p \in Uploads \cup Admins, ScanOver(p)
  PROVE  StoreInv'
<1>0. /\ pc[p] = "locked" /\ work.phase = "scan" /\ work.half = Nobody /\ ~\E i \in Objects : i \in work.todo
      /\ UNCHANGED <<data, meta, upload, draft, expired, limit, server, stored, faults>>
  BY DEF ScanOver, PhaseOver, Chosen, files
<1>1. CASE p \in Admins
  BY <1>0, <1>1, Left, Typed DEF ScanOver
<1>2. CASE p \in Uploads
  <2>0. /\ UNCHANGED <<pc, task, lockVars>> /\ Holds(p) /\ p # Nobody /\ p \notin Admins /\ p \in Objects
    BY <1>0, <1>2, Typed DEF ScanOver, Holds
  <2>1. /\ Bytes(data) <= work.usage /\ LowWatermark \in Int /\ Size[p] \in Nat
        /\ (~Exceeds(work.usage, Size[p]) => Bytes(data) + Size[p] <= limit)
    BY <1>0, <2>0, UsageBounds
  <2>2. CASE Exceeds(work.usage, Size[p])
    <3> DEFINE target == IF LowWatermark > Size[p] THEN LowWatermark - Size[p] ELSE 0
    <3>1. work' = Evicting(target)
      BY <1>2, <2>2 DEF ScanOver
    <3>2. target \in Int
      BY <2>1
    <3> HIDE DEF target
    <3>3. /\ work' \in WorkRecord /\ work'.phase = "evict" /\ work'.half = Nobody
          /\ work'.todo = work.entries /\ work'.usage = work.usage
      BY <3>1, <3>2, EvictingFacts, Typed
    <3>4. work.entries \subseteq data
      BY <1>0 DEF StoreInv, Working
    <3> QED
      BY <1>0, <2>0, <2>1, <3>3, <3>4, NewPhase
  <2>3. CASE ~Exceeds(work.usage, Size[p])
    <3>1. /\ work' \in WorkRecord /\ work'.phase = "commit" /\ work'.half = Nobody
      BY <1>2, <2>3, CommittingFacts DEF ScanOver
    <3> QED
      BY <1>0, <1>2, <2>0, <2>1, <2>3, <3>1, NewPhase
  <2> QED
    BY <2>2, <2>3
<1> QED
  BY <1>1, <1>2

LEMMA EvictOverStep ==
  ASSUME StoreInv, NEW p \in Uploads, EvictOver(p)
  PROVE  StoreInv'
<1>0. /\ pc[p] = "locked" /\ work.phase = "evict" /\ work.half = Nobody
      /\ UNCHANGED <<data, meta, upload, draft, expired, limit, server, stored, faults>>
  BY DEF EvictOver, PhaseOver, files
<1>1. CASE Exceeds(work.usage, Size[p])
  BY <1>0, <1>1, Left DEF EvictOver
<1>2. CASE ~Exceeds(work.usage, Size[p])
  <2>0. /\ UNCHANGED <<pc, task, lockVars>> /\ Holds(p) /\ p # Nobody /\ p \notin Admins /\ p \in Objects
    BY <1>0, <1>2, Typed DEF EvictOver, Holds
  <2>1. Bytes(data) + Size[p] <= limit
    BY <1>0, <1>2, <2>0, UsageBounds
  <2>2. work' \in WorkRecord /\ work'.phase = "commit" /\ work'.half = Nobody
    BY <1>2, CommittingFacts DEF EvictOver
  <2> QED
    BY <1>0, <2>0, <2>1, <2>2, NewPhase
<1> QED
  BY <1>1, <1>2

LEMMA RemoveOverStep ==
  ASSUME StoreInv, NEW p \in Admins, RemoveOver(p)
  PROVE  StoreInv'
<1>0. /\ pc[p] = "locked" /\ work.phase = "remove" /\ work.half = Nobody
      /\ UNCHANGED <<data, meta, expired, limit, server, stored, faults>>
      /\ upload' \in SUBSET upload /\ draft' \in SUBSET draft
  BY DEF RemoveOver, PhaseOver
<1>1. CASE task[p].op = "cleanup"
  <2>0. /\ UNCHANGED <<pc, task, lockVars>> /\ Holds(p) /\ p # Nobody /\ p \notin Uploads /\ work' = Scanning
    BY <1>0, <1>1, Typed DEF RemoveOver, Holds
  <2>1. work' \in WorkRecord /\ work'.phase = "scan" /\ work'.half = Nobody
    BY <2>0, ScanFacts
  <2> QED
    BY <1>0, <2>0, <2>1, NewPhase
<1>2. CASE task[p].op # "cleanup"
  BY <1>0, <1>2, Left DEF RemoveOver
<1> QED
  BY <1>1, <1>2

----------------------------------------------------------------------------
(* The renames.                                                            *)

LEMMA RenameDataStep ==
  ASSUME StoreInv, NEW p \in Uploads, RenameData(p)
  PROVE  StoreInv'
<1>0. /\ pc[p] = "locked" /\ work.phase = "commit" /\ work.half = Nobody /\ p \in Processes /\ p \in Objects
      /\ UNCHANGED <<meta, draft, expired, limit, server, stored, faults>>
  BY Typed DEF RenameData
<1>1. CASE p \notin upload
  BY <1>0, <1>1, Left DEF RenameData
<1>2. CASE p \in upload
  <2>0. /\ upload' = upload \ {p} /\ data' = data \cup {p} /\ work' = [work EXCEPT !.half = p]
        /\ UNCHANGED <<pc, task, lockVars>>
    BY <1>2 DEF RenameData
  <2>1. /\ work' \in WorkRecord /\ work'.phase = "commit" /\ work'.half = p /\ work'.todo = work.todo
    BY <1>0, <2>0, Typed DEF WorkRecord
  <2>2. /\ server = "up" /\ \A q \in Processes : pc[q] # "reading" /\ (pc[q] = "locked" => q = p)
    BY <1>0, Alone
  <2>3. p \notin data \cup meta /\ Bytes(data) + Size[p] <= limit
    BY <1>0 DEF StoreInv, Renaming, Counted
  <2>4. IsFiniteSet(data') /\ Bytes(data') = Bytes(data) + Size[p]
    BY <1>0, <2>0, <2>3, BytesAdd, Typed
  <2>5. Types'
    BY <1>0, <2>0, <2>1, <2>4, Typed DEF StoreInv, Types, TypeOK, lockVars, WorkRecord
  <2>6. Roles'
    BY <2>0 DEF StoreInv, Roles
  <2>7. Locking'
    BY <1>0, <2>0, <2>1 DEF StoreInv, Locking, lockVars
  <2>8. Working'
    BY <1>0, <2>0, <2>1, <2>2, Typed DEF StoreInv, Working
  <2>9. Counted'
    BY <1>0, <2>1, <2>2, Typed DEF Counted
  <2>10. Renaming'
    BY <1>0, <2>0, <2>1, <2>2, <2>3, Typed DEF StoreInv, Renaming
  <2>11. Whole'
    BY <1>0, <2>0, <2>1, <2>3 DEF StoreInv, Whole
  <2>12. HalfInHand'
    BY <1>0, <2>0, <2>1, <2>2, Typed DEF StoreInv, HalfInHand
  <2>13. Temporary'
    BY <1>0, <2>0, <2>2 DEF StoreInv, Temporary
  <2>14. CapacityHeld'
    BY <1>0, <2>3, <2>4 DEF CapacityHeld
  <2>15. ReadersUndisturbed'
    BY <2>0, <2>2 DEF ReadersUndisturbed
  <2> QED
    BY <2>5, <2>6, <2>7, <2>8, <2>9, <2>10, <2>11, <2>12, <2>13, <2>14, <2>15 DEF StoreInv
<1> QED
  BY <1>1, <1>2

\* The holder whose object is in place by half commits.
LEMMA HalfCommits ==
  ASSUME StoreInv, NEW p \in Uploads, pc[p] = "locked", work.half = p
  PROVE  work.phase = "commit" /\ p \in data /\ p \notin meta /\ p \notin upload /\ p \in Objects
  BY Typed DEF StoreInv, Renaming

LEMMA RenameMetaStep ==
  ASSUME StoreInv, NEW p \in Uploads, RenameMeta(p)
  PROVE  StoreInv'
<1> DEFINE label == IF p \in Encoded THEN "open" ELSE "done"
<1>0. /\ pc[p] = "locked" /\ work.half = p /\ p \in Processes /\ p \in Objects /\ p \notin Admins
      /\ label \in {"ending", "done", "open"} /\ label \in Labels
      /\ work.phase = "commit" /\ p \in data /\ p \notin meta /\ p \notin upload
      /\ draft' = draft \ {p} /\ meta' = meta \cup {p} /\ stored' = stored \cup {p} /\ Unlock
      /\ UNCHANGED <<data, upload, expired, limit, server, faults>>
  BY HalfCommits, Typed DEF RenameMeta, Processes, Labels
<1>1. /\ task' \in [Downloads \cup Admins -> TaskRecord] /\ pc' = [pc EXCEPT ![p] = label]
      /\ \A q \in (Downloads \cup Admins) \ {p} : task'[q] = task[q]
  <2>1. CASE p \in Encoded
    BY <2>1, Typed DEF RenameMeta, Goto
  <2>2. CASE p \notin Encoded
    BY <1>0, <2>2, Returned DEF RenameMeta
  <2> QED
    BY <2>1, <2>2
<1> HIDE DEF label
<1>2. /\ work' \in WorkRecord /\ work'.phase = "none" /\ work'.half = Nobody
      /\ writer' \in Processes \cup {Nobody} /\ readers' \in SUBSET Processes /\ blocked' \in SUBSET Processes
      /\ pc' \in [Processes -> Labels] /\ server' = "up"
      /\ \A q \in Processes : pc'[q] \notin {"drain", "locked", "reading"}
      /\ Roles' /\ Locking' /\ Working' /\ Counted' /\ ReadersUndisturbed'
  BY <1>0, <1>1, Unlocked
<1>3. Types'
  BY <1>0, <1>1, <1>2, Typed DEF StoreInv, Types, TypeOK, Labels, WorkRecord
<1>4. Renaming'
  BY <1>0, <1>1, <1>2, Typed DEF StoreInv, Renaming, label
<1>5. Whole'
  BY <1>0, <1>2, Typed DEF StoreInv, Whole
<1>6. HalfInHand'
  BY <1>0, <1>2, Alone, Typed DEF StoreInv, HalfInHand
<1>7. Temporary'
  BY <1>0, <1>1, <1>2, Alone, Typed DEF StoreInv, Temporary
<1>8. CapacityHeld'
  BY <1>0 DEF StoreInv, CapacityHeld
<1> QED
  BY <1>2, <1>3, <1>4, <1>5, <1>6, <1>7, <1>8 DEF StoreInv

LEMMA RenameMetaFailsStep ==
  ASSUME StoreInv, NEW p \in Uploads, RenameMetaFails(p)
  PROVE  StoreInv'
<1>0. /\ pc[p] = "locked" /\ work.half = p /\ p \in Processes /\ p \in Objects /\ p \notin Admins
      /\ "ending" \in Labels /\ work.phase = "commit" /\ p \in data /\ p \notin meta
      /\ data' = data \ {p} /\ Unlock /\ Return(p, "ending")
      /\ UNCHANGED <<meta, upload, draft, stored, expired, limit, server, faults>>
  BY HalfCommits, Typed DEF RenameMetaFails, Processes, Labels, Leave
<1>1. /\ task' \in [Downloads \cup Admins -> TaskRecord] /\ pc' = [pc EXCEPT ![p] = "ending"]
      /\ \A q \in (Downloads \cup Admins) \ {p} : task'[q] = task[q]
  BY <1>0, Returned
<1>2. /\ work' \in WorkRecord /\ work'.phase = "none" /\ work'.half = Nobody
      /\ writer' \in Processes \cup {Nobody} /\ readers' \in SUBSET Processes /\ blocked' \in SUBSET Processes
      /\ pc' \in [Processes -> Labels] /\ server' = "up"
      /\ \A q \in Processes : pc'[q] \notin {"drain", "locked", "reading"}
      /\ Roles' /\ Locking' /\ Working' /\ Counted' /\ ReadersUndisturbed'
  BY <1>0, <1>1, Unlocked
<1>3. /\ IsFiniteSet(data') /\ Bytes(data) = Bytes(data') + Size[p] /\ Bytes(data') \in Nat /\ Size[p] \in Nat
      /\ limit \in Nat
  <2>1. data \in SUBSET Objects /\ IsFiniteSet(data) /\ Size[p] \in Nat /\ limit \in Nat
    BY <1>0, Typed
  <2>2. IsFiniteSet(data \ {p}) /\ Bytes(data) = Bytes(data \ {p}) + Size[p]
    BY <1>0, <2>1, BytesRemove
  <2>3. Bytes(data \ {p}) \in Nat
    BY <2>1, <2>2, BytesType
  <2> QED
    BY <1>0, <2>1, <2>2, <2>3
<1>4. Types'
  BY <1>0, <1>1, <1>2, <1>3, Typed DEF StoreInv, Types, TypeOK, Labels, WorkRecord
<1>5. Renaming'
  BY <1>0, <1>1, <1>2, Typed DEF StoreInv, Renaming
<1>6. Whole'
  BY <1>0, <1>2, Typed DEF StoreInv, Whole
<1>7. HalfInHand'
  BY <1>0, <1>2, Alone, Typed DEF StoreInv, HalfInHand
<1>8. Temporary'
  BY <1>0, <1>1, <1>2, Alone, Typed DEF StoreInv, Temporary
<1>9. CapacityHeld'
  BY <1>0, <1>3 DEF StoreInv, CapacityHeld
<1> QED
  BY <1>2, <1>4, <1>5, <1>6, <1>7, <1>8, <1>9 DEF StoreInv

----------------------------------------------------------------------------
(* The process.                                                            *)

LEMMA CrashStep ==
  ASSUME StoreInv, Crash
  PROVE  StoreInv'
<1>0. /\ server' = "down" /\ writer' = Nobody /\ readers' = {} /\ blocked' = {} /\ work' = Idle
      /\ pc' = [p \in Processes |-> IF pc[p] = "idle" THEN "idle" ELSE "done"]
      /\ task' = [p \in DOMAIN task |-> NoTask]
      /\ UNCHANGED <<data, meta, upload, draft, expired, limit, stored, faults>>
  BY DEF Crash, files
<1>1. /\ work' \in WorkRecord /\ work'.phase = "none" /\ work'.half = Nobody /\ work'.todo = {}
      /\ task' \in [Downloads \cup Admins -> TaskRecord] /\ pc' \in [Processes -> {"idle", "done"}]
  BY <1>0, IdleFacts, Typed DEF NoTask, TaskRecord
<1>2. Types'
  BY <1>0, <1>1, Typed DEF StoreInv, Types, TypeOK, Labels, WorkRecord
<1>3. Roles' /\ Locking' /\ Working' /\ Counted' /\ ReadersUndisturbed'
  BY <1>0, <1>1, Typed DEF Roles, Locking, Working, Counted, ReadersUndisturbed
<1>4. Renaming' /\ Whole' /\ HalfInHand' /\ Temporary' /\ CapacityHeld'
  BY <1>0, <1>1, Typed DEF StoreInv, Renaming, Whole, HalfInHand, Temporary, CapacityHeld
<1> QED
  BY <1>2, <1>3, <1>4 DEF StoreInv

LEMMA BootStep ==
  ASSUME StoreInv, Boot
  PROVE  StoreInv'
<1>0. /\ server = "down" /\ server' = "boot" /\ limit' \in Limits /\ upload' = {} /\ draft' = {} /\ work' = Scanning
      /\ UNCHANGED <<data, meta, expired, pc, task, stored, lockVars, faults>>
  BY DEF Boot
<1>1. \A p \in Processes : pc[p] \in {"idle", "done"}
  BY <1>0 DEF StoreInv, Locking
<1>2. /\ work' \in WorkRecord /\ work'.phase = "scan" /\ work'.half = Nobody
  BY <1>0, ScanFacts
<1>3. Types'
  BY <1>0, <1>2, Typed DEF StoreInv, Types, TypeOK, lockVars, WorkRecord
<1>4. Roles' /\ Locking' /\ ReadersUndisturbed'
  BY <1>0, <1>1, Typed DEF Roles, Locking, ReadersUndisturbed
<1>5. Working'
  BY <1>0, <1>1, <1>2, ScanBegins, Typed DEF Working
<1>6. Counted'
  <2>1. Bytes(data) <= work'.usage /\ Bytes(data) + 0 = Bytes(data)
    BY <1>0, ScanBegins, ScanFacts
  <2> QED
    BY <1>0, <1>1, <1>2, <2>1, Typed DEF Counted
<1>7. Renaming' /\ Whole' /\ Temporary' /\ CapacityHeld'
  BY <1>0, <1>1, <1>2, Typed DEF StoreInv, Renaming, Whole, Temporary, CapacityHeld
<1>8. HalfInHand'
  BY <1>0, <1>2, ScanBegins DEF HalfInHand
<1> QED
  BY <1>3, <1>4, <1>5, <1>6, <1>7, <1>8 DEF StoreInv

\* The start is over: the store is up and within its limit, or the process has ended.
LEMMA BootEnds ==
  ASSUME StoreInv, server = "boot", work.phase \in {"scan", "evict"}, work.half = Nobody,
         work.phase = "scan" => ~\E i \in Objects : i \in work.todo, work' = Idle,
         server' = "down" \/ (server' = "up" /\ Bytes(data) <= limit),
         UNCHANGED <<files, expired, limit, pc, task, stored, lockVars, faults>>
  PROVE  StoreInv'
<1> USE DEF files, lockVars
<1>1. \A p \in Processes : pc[p] \in {"idle", "done"}
  BY DEF StoreInv, Locking
<1>2. /\ work' \in WorkRecord /\ work'.phase = "none" /\ work'.half = Nobody /\ work'.todo = {}
  BY IdleFacts
<1>3. Types'
  BY <1>2, Typed DEF StoreInv, Types, TypeOK, WorkRecord
<1>4. Roles' /\ Locking' /\ Working' /\ Counted' /\ ReadersUndisturbed'
  BY <1>1, <1>2, Typed DEF Roles, Locking, Working, Counted, ReadersUndisturbed
<1>5. Renaming' /\ Whole' /\ Temporary' /\ CapacityHeld'
  BY <1>1, <1>2, Typed DEF StoreInv, Renaming, Whole, Temporary, CapacityHeld
<1>6. HalfInHand'
  BY <1>2, Typed DEF StoreInv, HalfInHand
<1> QED
  BY <1>3, <1>4, <1>5, <1>6 DEF StoreInv

LEMMA BootScannedStep ==
  ASSUME StoreInv, BootScanned
  PROVE  StoreInv'
<1>0. /\ server = "boot" /\ work.phase = "scan" /\ work.half = Nobody /\ ~\E i \in Objects : i \in work.todo
      /\ UNCHANGED <<files, expired, limit, pc, task, stored, lockVars, faults>>
  BY DEF BootScanned, PhaseOver, Chosen
<1>1. Bytes(data) <= work.usage /\ Bytes(data) \in Nat /\ work.usage \in Nat /\ LowWatermark \in Int /\ limit \in Nat
  BY <1>0, UsageBounds, Typed
<1>2. CASE work.usage > limit
  <2>1. work' = Evicting(LowWatermark) /\ UNCHANGED server
    BY <1>2 DEF BootScanned
  <2>2. /\ work' \in WorkRecord /\ work'.phase = "evict" /\ work'.half = Nobody
        /\ work'.todo = work.entries /\ work'.usage = work.usage
    BY <1>1, <2>1, EvictingFacts, Typed
  <2>3. work.entries \subseteq data
    BY <1>0 DEF StoreInv, Working
  <2>4. Holds(Nobody) /\ Nobody \notin Admins /\ Nobody \notin Uploads
    BY <1>0, Typed DEF Holds
  <2> QED
    BY <1>0, <1>1, <2>1, <2>2, <2>3, <2>4, NewPhase DEF files
<1>3. CASE ~(work.usage > limit)
  BY <1>0, <1>1, <1>3, BootEnds DEF BootScanned
<1> QED
  BY <1>2, <1>3

LEMMA BootedStep ==
  ASSUME StoreInv, Booted
  PROVE  StoreInv'
<1>0. /\ server = "boot" /\ work.phase = "evict" /\ work.half = Nobody /\ work' = Idle
      /\ UNCHANGED <<files, expired, limit, pc, task, stored, lockVars, faults>>
      /\ server' = IF work.usage > limit THEN "down" ELSE "up"
  BY DEF Booted, PhaseOver
<1>1. Bytes(data) <= work.usage /\ Bytes(data) \in Nat /\ work.usage \in Nat /\ limit \in Nat
  BY <1>0, UsageBounds, Typed
<1> QED
  BY <1>0, <1>1, BootEnds

----------------------------------------------------------------------------
(* The theorems.                                                           *)

\* What an earlier run has left is finite.
LEMMA OldFinite ==
  IsFiniteSet(Old)
<1>1. Len(Kept) \in Nat /\ DOMAIN Kept = 1..Len(Kept)
  BY MediaAssumption, LenProperties
<1>2. IsFiniteSet(DOMAIN Kept)
  BY <1>1, FS_Interval
<1>3. Kept \in Surjection(DOMAIN Kept, Old)
  BY <1>1, MediaAssumption DEF Old, Surjection
<1> QED
  BY <1>2, <1>3, FS_Surjection

LEMMA StoreInit ==
  Init => StoreInv
<1> SUFFICES ASSUME Init PROVE StoreInv
  OBVIOUS
<1>1. /\ work \in WorkRecord /\ work.phase = "none" /\ work.half = Nobody /\ work.todo = {}
      /\ task \in [Downloads \cup Admins -> TaskRecord]
  BY IdleFacts DEF Init, NoTask, TaskRecord
<1>2. /\ data = Old /\ meta = Old /\ stored = Old /\ upload = {} /\ draft = {} /\ server = "down" /\ faults = 0
      /\ \A p \in Processes : pc[p] = "idle"
  BY DEF Init
<1>3. TypeOK
  <2>1. Old \subseteq Objects
    BY DEF Objects
  <2>2. work.usage \in Nat
    BY <1>1 DEF WorkRecord
  <2>3. pc \in [Processes -> {"idle"}]
    BY DEF Init
  <2>4. expired = {} /\ limit \in Limits /\ writer = Nobody /\ readers = {} /\ blocked = {}
    BY DEF Init
  <2> QED
    BY <1>2, <2>1, <2>2, <2>3, <2>4 DEF TypeOK
<1>4. Types
  BY <1>1, <1>2, <1>3, OldFinite DEF Types
<1>5. Roles /\ Locking /\ Working /\ Temporary /\ CapacityHeld /\ ReadersUndisturbed /\ HalfInHand
  BY <1>1, <1>2 DEF Roles, Locking, Working, Temporary, CapacityHeld, ReadersUndisturbed, HalfInHand, Processes
<1>6. Counted
  BY <1>1, <1>2 DEF Counted, Processes
<1>7. Renaming /\ Whole
  BY <1>1, <1>2, MediaAssumption DEF Renaming, Whole, Objects, Processes
<1> QED
  BY <1>4, <1>5, <1>6, <1>7 DEF StoreInv

LEMMA StoreInductive ==
  Spec => []StoreInv
<1>1. StoreInv /\ [Next]_vars => StoreInv'
  <2> SUFFICES ASSUME StoreInv, [Next]_vars PROVE StoreInv'
    OBVIOUS
  <2>1. CASE UNCHANGED vars
    BY <2>1 DEF vars, files, lockVars, StoreInv, Types, TypeOK, Roles, Locking, Working, Counted, Renaming, Whole,
                HalfInHand, Temporary, CapacityHeld, ReadersUndisturbed, Wanted
  <2>2. ASSUME NEW p \in Uploads \cup Admins \cup {Nobody}, Remove(p) PROVE StoreInv'
    BY <2>2, RemoveDataStep, RemovalFailsStep, RemoveMetaStep DEF Remove
  <2>3. ASSUME NEW p \in Uploads \cup Admins, Write(p) PROVE StoreInv'
    BY <2>2, <2>3, AnnounceStep, EnterStep, AbandonStep, ScanOverStep DEF Write
  <2>4. ASSUME NEW p \in Uploads \cup Downloads, Read(p) PROVE StoreInv'
    BY <2>4, OpenStep, OpenCanceledStep, OpenedStep, OpenFailsStep, CloseStep DEF Read
  <2>5. ASSUME NEW p \in Uploads, Put(p) PROVE StoreInv'
    BY <2>3, <2>4, <2>5, PutCopiedStep, PutEndsStep, EvictOverStep, RenameDataStep, RenameMetaStep,
       RenameMetaFailsStep DEF Put
  <2>6. CASE Begin
    BY <2>6, PutBeginsStep, DownloadStep, AdministerStep DEF Begin
  <2>7. CASE Start
    BY <2>2, <2>7, BootStep, BootScannedStep, BootedStep DEF Start
  <2>8. CASE Run
    BY <2>3, <2>4, <2>5, <2>7, <2>8, LocalizeFailsStep, RemoveOverStep DEF Run
  <2> QED
    BY <2>1, <2>6, <2>8, SurroundingsStep, CrashStep DEF Next
<1> QED
  BY <1>1, StoreInit, PTL DEF Spec

\* The data files of a running store never exceed maxBytes, whatever races, whatever cannot be removed, and whatever
\* limit the process was started with before: exceedsCapacity and the lock that Put keeps (CapacityHeld).
THEOREM CapacityIsHeld ==
  Spec => []CapacityHeld
  BY StoreInductive, PTL DEF StoreInv

\* No eviction, deletion, clearing or clean-up touches the files of an object that a client reads: the read lock of
\* Open is kept until Close (ReadersUndisturbed).
THEOREM ReadersAreUndisturbed ==
  Spec => []ReadersUndisturbed
  BY StoreInductive, PTL DEF StoreInv

\* What Put has returned is there, both files of it, until it is removed, although Clear takes away the temporary
\* files of uploads that run (StoredMeansThere).
THEOREM StoredIsThere ==
  Spec => []StoredMeansThere
<1>1. StoreInv => StoredMeansThere
  BY DEF StoreInv, Whole, StoredMeansThere
<1> QED
  BY <1>1, StoreInductive, PTL

\* Between operations an object has both files or none as long as no removal has failed, and a temporary file belongs
\* to an upload that runs, wherever the process died before (DirectoryInOrder).
THEOREM DirectoryIsInOrder ==
  Spec => []DirectoryInOrder
<1>1. StoreInv => DirectoryInOrder
  <2> SUFFICES ASSUME StoreInv PROVE NoHalfObjects /\ NoTemporaryFileLeft
    BY DEF StoreInv, Types, DirectoryInOrder
  <2>1. NoTemporaryFileLeft
    BY DEF StoreInv, Temporary, NoTemporaryFileLeft
  <2>2. ASSUME server = "up", work.phase = "none", faults = 0 PROVE data = meta
    <3>1. work.half = Nobody /\ Nobody \notin Objects /\ data \subseteq Objects /\ meta \subseteq Objects
      BY <2>2, Typed DEF StoreInv, Working
    <3>2. \A i \in Objects : i \in data <=> i \in meta
      BY <2>2, <3>1 DEF StoreInv, HalfInHand
    <3> QED
      BY <3>1, <3>2
  <2> QED
    BY <2>1, <2>2 DEF NoHalfObjects
<1> QED
  BY <1>1, StoreInductive, PTL

=============================================================================
