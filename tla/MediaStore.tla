----------------------------- MODULE MediaStore -----------------------------
(***************************************************************************)
(* The media cache: a directory with a data file and a metadata file for   *)
(* every object, and the read-write lock the process guards it with.       *)
(* Uploads write temporary files outside the lock; a download keeps its    *)
(* read lock until the client has the last byte; a removal takes two       *)
(* steps, the data file first.  The process may die between any two.       *)
(*                                                                         *)
(* The object of an upload is named like the upload; the URL that is       *)
(* signed for it is known once the upload has returned.                    *)
(***************************************************************************)
EXTENDS Integers, Sequences, FiniteSets

CONSTANTS
  Uploads,      \* calls of Localize, each of one object
  Kept,         \* the objects an earlier run of the process has left, oldest first
  Encoded,      \* the uploads whose caller reads the object back, for LocalizeBase64
  Downloads,    \* requests of /media/<id>
  Admins,       \* administrative requests
  Size,         \* bytes of an object
  Limits,       \* values of maxBytes the process may be started with
  Expiring,     \* objects that may pass their time
  Leaving,      \* processes whose client may leave
  Nobody,
  MaxMishaps    \* removals of files that fail and deaths of the process, together

Old == {Kept[n] : n \in DOMAIN Kept}
Objects == Uploads \cup Old

ASSUME MediaAssumption ==
  /\ Encoded \subseteq Uploads /\ Uploads \cap Old = {} /\ Expiring \subseteq Objects
  /\ Size \in [Objects -> Nat] /\ Limits \subseteq Nat \ {0} /\ Limits # {}
  /\ MaxMishaps \in Nat
  /\ Nobody \notin Objects \cup Downloads \cup Admins
  /\ Uploads \cap (Downloads \cup Admins) = {} /\ Downloads \cap Admins = {}
  /\ Kept \in Seq(Old)

Processes == Uploads \cup Downloads \cup Admins

VARIABLES
  data, meta,        \* files: objects with <id>.bin, objects with <id>.json
  upload, draft,     \* files: uploads with .upload-*, uploads with .metadata-*
  made,              \* the objects in the order of their CreatedAt
  expired,           \* objects past their ExpiresAt
  limit,             \* maxBytes
  server,            \* the process: "up", "boot", or "down"
  pc, canceled,
  task,              \* what a download reads and an administrator asks for
  stored,            \* objects Put has returned and nothing has removed since
  writer, readers, blocked,   \* sync.RWMutex
  work,              \* the local variables of the operation that holds the lock
  faults, crashes

files    == <<data, meta, upload, draft>>
lockVars == <<writer, readers, blocked>>
vars == <<files, made, expired, limit, server, pc, canceled, task, stored, lockVars, work, faults, crashes>>

\* The bytes of an object, and how many the objects have together.
Content(i) == {i} \X (1..Size[i])
Bytes(objects) == Cardinality(UNION {Content(i) : i \in objects})
Mishap == faults + crashes < MaxMishaps
\* lowWatermark
LowWatermark == (limit \div 5) * 3 + ((limit % 5) * 3) \div 5
\* exceedsCapacity
Exceeds(usage, addition) == addition > limit \/ usage > limit - addition

\* scanLocked keeps the objects that are whole and have not expired.
Valid(i) == i \in data \cap meta /\ i \notin expired

Idle == [phase |-> "none", todo |-> {}, entries |-> {}, half |-> Nobody, usage |-> 0, target |-> 0]

NoTask == [op |-> "none", ids |-> {}]

Init ==
  /\ data = Old /\ meta = Old /\ upload = {} /\ draft = {} /\ made = Kept /\ expired = {}
  /\ limit \in Limits /\ server = "down"
  /\ pc = [p \in Processes |-> "idle"] /\ canceled = {}
  /\ task = [p \in Downloads \cup Admins |-> NoTask]
  /\ stored = Old /\ writer = Nobody /\ readers = {} /\ blocked = {}
  /\ work = Idle /\ faults = 0 /\ crashes = 0

Goto(p, label) == pc' = [pc EXCEPT ![p] = label]
\* The request is answered; an upload that has failed has temporary files to remove.
Return(p, label) ==
  /\ Goto(p, label)
  /\ canceled' = canceled \ {p}
  /\ task' = [q \in DOMAIN task |-> IF q = p THEN NoTask ELSE task[q]]

-----------------------------------------------------------------------------
\* RWMutex.Lock: a writer first keeps new readers out, then waits for those inside.
Announce(p) ==
  /\ pc[p] = "lock" /\ writer = Nobody
  /\ writer' = p /\ Goto(p, "drain")
  /\ UNCHANGED <<files, made, expired, limit, server, canceled, task, stored, readers, blocked, work,
                 faults, crashes>>

\* RWMutex.Unlock: the readers that came meanwhile are let in before the next writer.
Unlock == writer' = Nobody /\ readers' = blocked /\ blocked' = {} /\ work' = Idle

RLock(p) == IF writer = Nobody THEN readers' = readers \cup {p} /\ UNCHANGED blocked
            ELSE blocked' = blocked \cup {p} /\ UNCHANGED readers
RUnlock(p) == readers' = readers \ {p}

-----------------------------------------------------------------------------
(* Put.  What the caller fetches, or has decoded, is copied to a temporary file.  Fetching and
   copying fail for reasons of their own, and because the client has gone. *)
PutBegins(p) ==
  /\ pc[p] = "idle" /\ server = "up" /\ p \notin canceled
  /\ upload' = upload \cup {p} /\ Goto(p, "copy")
  /\ UNCHANGED <<data, meta, draft, made, expired, limit, server, canceled, task, stored, lockVars,
                 work, faults, crashes>>
LocalizeFails(p) ==
  /\ pc[p] = "copy" /\ Return(p, "ending")
  /\ UNCHANGED <<files, made, expired, limit, server, stored, lockVars, work, faults, crashes>>
\* The object fits the limit; its metadata, with the time of its creation, goes to another file.
PutCopied(p) ==
  /\ pc[p] = "copy" /\ p \notin canceled /\ Size[p] <= limit
  /\ draft' = draft \cup {p} /\ made' = Append(made, p) /\ Goto(p, "lock")
  /\ UNCHANGED <<data, meta, upload, expired, limit, server, canceled, task, stored, lockVars, work,
                 faults, crashes>>

\* The deferred removals of the temporary files, after the unlock.
PutEnds(p) ==
  /\ pc[p] = "ending" /\ Goto(p, "done")
  /\ upload' = upload \ {p} /\ draft' = draft \ {p}
  /\ UNCHANGED <<data, meta, made, expired, limit, server, canceled, task, stored, lockVars, work,
                 faults, crashes>>

-----------------------------------------------------------------------------
(* What an operation does with the lock is a sequence of phases, each with the objects it has
   still to look at:  "remove" for the objects asked for, "scan" for what scanLocked finds broken
   or expired, "evict" for the objects there are, oldest first, "commit" for the renames of Put. *)
Scanning == [Idle EXCEPT !.phase = "scan", !.usage = Bytes(data),
                         !.todo = {i \in data \cup meta : ~Valid(i)},
                         !.entries = {i \in data : Valid(i)}]
Removing(ids) == [Idle EXCEPT !.phase = "remove", !.todo = ids]
Evicting(target) == [Idle EXCEPT !.phase = "evict", !.todo = work.entries, !.usage = work.usage,
                                 !.target = target]
Committing == [Idle EXCEPT !.phase = "commit"]

\* The first phase of the operation.
FirstPhase(p) ==
  IF p \in Uploads \/ task[p].op = "list" THEN Scanning
  ELSE Removing(CASE task[p].op = "delete"  -> task[p].ids
                  [] task[p].op = "cleanup" -> meta \cap expired
                  [] task[p].op = "clear"   -> data \cup meta)
\* Mutant: the readers inside are not waited for.
EnterAtOnce(p) ==
  /\ pc[p] = "drain"
  /\ work' = FirstPhase(p) /\ Goto(p, "locked")
  /\ UNCHANGED <<files, made, expired, limit, server, canceled, task, stored, lockVars,
                 faults, crashes>>

Enter(p) ==
  /\ pc[p] = "drain" /\ readers = {}
  /\ work' = FirstPhase(p) /\ Goto(p, "locked")
  /\ UNCHANGED <<files, made, expired, limit, server, canceled, task, stored, lockVars, faults, crashes>>

\* Whoever holds the lock; NewFileStore, for which nobody competes, is Nobody.
Holds(p) == IF p = Nobody THEN server = "boot" ELSE pc[p] = "locked"
Age(i) == CHOOSE n \in DOMAIN made : made[n] = i
Oldest(i, objects) == i \in objects /\ \A j \in objects : Age(i) <= Age(j)
\* The object to be removed next.
Chosen(i) ==
  CASE work.phase \in {"scan", "remove"} -> i \in work.todo
    [] work.phase = "evict" -> work.usage > work.target /\ Oldest(i, work.todo)
    [] OTHER -> FALSE

(* removePathsLocked: the data file, if there is one, then the metadata file.  A removal that
   fails leaves the rest of the object alone.  The scan takes the bytes off its usage when the
   data file is gone, the eviction when both are. *)
RemoveData(p, i) ==
  /\ Holds(p) /\ work.half = Nobody /\ Chosen(i)
  /\ data' = data \ {i} /\ stored' = stored \ {i} /\ expired' = expired \ {i}
  /\ work' = [work EXCEPT !.todo = @ \ {i}, !.half = i,
                !.usage = IF work.phase = "scan" /\ i \in data THEN @ - Size[i] ELSE @]
  /\ UNCHANGED <<meta, upload, draft, made, limit, server, pc, canceled, task,
                 lockVars, faults, crashes>>
\* Mutant: the bytes are taken off although the file is still there.
RemoveDataFailsUnseen(p, i) ==
  /\ Holds(p) /\ work.half = Nobody /\ Chosen(i) /\ i \in data
  /\ Mishap /\ faults' = faults + 1
  /\ work' = [work EXCEPT !.todo = @ \ {i}, !.usage = @ - Size[i]]
  /\ UNCHANGED <<files, made, expired, limit, server, pc, canceled, task, stored, lockVars, crashes>>
RemoveDataFails(p, i) ==
  /\ Holds(p) /\ work.half = Nobody /\ Chosen(i) /\ i \in data
  /\ Mishap /\ faults' = faults + 1
  /\ work' = [work EXCEPT !.todo = @ \ {i}]
  /\ UNCHANGED <<files, made, expired, limit, server, pc, canceled, task, stored, lockVars, crashes>>
RemoveMeta(p) ==
  /\ Holds(p) /\ work.half # Nobody /\ work.phase # "commit"
  /\ meta' = meta \ {work.half}
  /\ work' = [work EXCEPT !.half = Nobody,
                !.usage = IF work.phase = "evict" THEN @ - Size[work.half] ELSE @]
  /\ UNCHANGED <<data, upload, draft, made, expired, limit, server, pc, canceled, task, stored,
                 lockVars, faults, crashes>>
RemoveMetaFails(p) ==
  /\ Holds(p) /\ work.half \in meta /\ work.phase # "commit"
  /\ Mishap /\ faults' = faults + 1
  /\ work' = [work EXCEPT !.half = Nobody]
  /\ UNCHANGED <<files, made, expired, limit, server, pc, canceled, task, stored, lockVars, crashes>>

-----------------------------------------------------------------------------
\* The operation returns and its deferred unlock runs.
Leave(p) == Unlock /\ Return(p, IF p \in Uploads THEN "ending" ELSE "done")

\* A context that is done stops the operation between two objects and before the renames.
Abandon(p) ==
  /\ pc[p] = "locked" /\ work.half = Nobody /\ p \in canceled
  /\ Leave(p)
  /\ UNCHANGED <<files, made, expired, limit, server, stored, faults, crashes>>

PhaseOver == work.half = Nobody /\ ~\E i \in Objects : Chosen(i)
\* The room is there, or is made, or there is none.
ScanOver(p) ==
  /\ pc[p] = "locked" /\ work.phase = "scan" /\ PhaseOver
  /\ IF p \in Uploads
     THEN /\ work' = IF Exceeds(work.usage, Size[p])
                     THEN Evicting(IF LowWatermark > Size[p] THEN LowWatermark - Size[p] ELSE 0)
                     ELSE Committing
          /\ UNCHANGED <<pc, canceled, task, lockVars>>
     ELSE Leave(p)
  /\ UNCHANGED <<files, made, expired, limit, server, stored, faults, crashes>>
EvictOver(p) ==
  /\ pc[p] = "locked" /\ work.phase = "evict" /\ PhaseOver
  /\ IF Exceeds(work.usage, Size[p]) THEN Leave(p)
     ELSE work' = Committing /\ UNCHANGED <<pc, canceled, task, lockVars>>
  /\ UNCHANGED <<files, made, expired, limit, server, stored, faults, crashes>>
\* CleanupExpired scans at last, Clear removes the temporary files, those of running uploads too.
RemoveOver(p) ==
  /\ pc[p] = "locked" /\ work.phase = "remove" /\ PhaseOver
  /\ IF task[p].op = "cleanup" THEN work' = Scanning /\ UNCHANGED <<pc, canceled, task, lockVars>> ELSE Leave(p)
  /\ IF task[p].op = "clear" THEN upload' = {} /\ draft' = {} ELSE UNCHANGED <<upload, draft>>
  /\ UNCHANGED <<data, meta, made, expired, limit, server, stored, faults, crashes>>

\* Mutant: a first rename that fails goes unnoticed.
RenameDataUnchecked(p) ==
  /\ pc[p] = "locked" /\ work.phase = "commit" /\ work.half = Nobody
  /\ upload' = upload \ {p} /\ data' = data \cup (upload \cap {p})
  /\ work' = [work EXCEPT !.half = p]
  /\ UNCHANGED <<meta, draft, made, expired, limit, server, pc, canceled, task, stored, lockVars,
                 faults, crashes>>

\* The two renames.  The first fails when Clear has taken the file away.
RenameData(p) ==
  /\ pc[p] = "locked" /\ work.phase = "commit" /\ work.half = Nobody
  /\ IF p \in upload
     THEN /\ upload' = upload \ {p} /\ data' = data \cup {p}
          /\ work' = [work EXCEPT !.half = p] /\ UNCHANGED <<pc, canceled, task, lockVars>>
     ELSE Leave(p) /\ UNCHANGED <<upload, data>>
  /\ UNCHANGED <<meta, draft, made, expired, limit, server, stored, faults, crashes>>
\* Put returns the object, and SignedURL its URL.
RenameMeta(p) ==
  /\ pc[p] = "locked" /\ work.half = p
  /\ draft' = draft \ {p} /\ meta' = meta \cup {p}
  /\ stored' = stored \cup {p}
  /\ Unlock
  /\ IF p \in Encoded THEN Goto(p, "open") /\ UNCHANGED <<canceled, task>> ELSE Return(p, "done")
  /\ UNCHANGED <<data, upload, made, expired, limit, server, faults, crashes>>
\* Mutant: the data file stays when its metadata cannot be put in place.
RenameMetaFailsHalfway(p) ==
  /\ pc[p] = "locked" /\ work.half = p
  /\ Leave(p)
  /\ UNCHANGED <<files, made, expired, limit, server, stored, faults, crashes>>
RenameMetaFails(p) ==
  /\ pc[p] = "locked" /\ work.half = p
  /\ data' = data \ {p} /\ Leave(p)
  /\ UNCHANGED <<meta, upload, draft, made, expired, limit, server, stored, faults, crashes>>

-----------------------------------------------------------------------------
\* Open, by a download whose signature is in order and by LocalizeBase64: the read lock first.
Wanted(p) == IF p \in Uploads THEN p ELSE CHOOSE i \in task[p].ids : TRUE
Download(p) ==
  /\ pc[p] = "idle" /\ server = "up"
  /\ \E i \in stored : task' = [task EXCEPT ![p] = [op |-> "open", ids |-> {i}]]
  /\ Goto(p, "open")
  /\ UNCHANGED <<files, made, expired, limit, server, canceled, stored, lockVars, work, faults, crashes>>
Open(p) ==
  /\ pc[p] = "open" /\ p \notin canceled /\ RLock(p) /\ Goto(p, "opening")
  /\ UNCHANGED <<files, made, expired, limit, server, canceled, task, stored, writer, work, faults, crashes>>
OpenCanceled(p) ==
  /\ pc[p] = "open" /\ p \in canceled /\ Return(p, "done")
  /\ UNCHANGED <<files, made, expired, limit, server, stored, lockVars, work, faults, crashes>>
\* The object is there: its reader keeps the lock.
Opened(p) ==
  /\ pc[p] = "opening" /\ p \in readers /\ Valid(Wanted(p))
  /\ Goto(p, "reading")
  /\ UNCHANGED <<files, made, expired, limit, server, canceled, task, stored, lockVars, work, faults, crashes>>
\* Mutant: a path that finds no object forgets the lock.
OpenFailsLocked(p) ==
  /\ pc[p] = "opening" /\ p \in readers /\ ~Valid(Wanted(p))
  /\ Return(p, "done")
  /\ UNCHANGED <<files, made, expired, limit, server, stored, lockVars, work, faults, crashes>>
OpenFails(p) ==
  /\ pc[p] = "opening" /\ p \in readers /\ ~Valid(Wanted(p))
  /\ RUnlock(p) /\ Return(p, "done")
  /\ UNCHANGED <<files, made, expired, limit, server, stored, writer, blocked, work,
                 faults, crashes>>
\* The last byte is read, or the write deadline of the server has passed.
Close(p) ==
  /\ pc[p] = "reading" /\ RUnlock(p) /\ Return(p, "done")
  /\ UNCHANGED <<files, made, expired, limit, server, stored, writer, blocked, work,
                 faults, crashes>>

\* An administrator's request that is in order asks the store for an operation; all take the lock.
Ask(p, op, ids) ==
  /\ pc[p] = "idle" /\ server = "up" /\ Goto(p, "lock")
  /\ task' = [task EXCEPT ![p] = [op |-> op, ids |-> ids]]
  /\ UNCHANGED <<files, made, expired, limit, server, canceled, stored, lockVars, work, faults, crashes>>
\* List and Summary scan, and so remove what is broken or expired.
ListMedia(p) == Ask(p, "list", {})
DeleteMedia(p) == \E i \in stored : Ask(p, "delete", {i})
BatchDeleteMedia(p) == stored # {} /\ Ask(p, "delete", stored)
CleanupMedia(p) == Ask(p, "cleanup", {}) \/ Ask(p, "clear", {})
Administer(p) == ListMedia(p) \/ DeleteMedia(p) \/ BatchDeleteMedia(p) \/ CleanupMedia(p)

-----------------------------------------------------------------------------
\* An object passes its time, a client leaves.
Expire ==
  /\ \E i \in (stored \cap Expiring) \ expired : expired' = expired \cup {i}
  /\ UNCHANGED <<files, made, limit, server, pc, canceled, task, stored, lockVars, work, faults, crashes>>
Cancel(p) ==
  /\ pc[p] \notin {"idle", "ending", "done"} /\ p \in Leaving \ canceled /\ canceled' = canceled \cup {p}
  /\ UNCHANGED <<files, made, expired, limit, server, pc, task, stored, lockVars, work, faults, crashes>>

\* The process dies; the files stay as they are.
Crash ==
  /\ server # "down" /\ Mishap /\ crashes' = crashes + 1
  /\ server' = "down" /\ writer' = Nobody /\ readers' = {} /\ blocked' = {} /\ work' = Idle
  /\ pc' = [p \in Processes |-> IF pc[p] = "idle" THEN "idle" ELSE "done"]
  /\ canceled' = {} /\ task' = [p \in DOMAIN task |-> NoTask]
  /\ UNCHANGED <<files, made, expired, limit, stored, faults>>

\* NewFileStore: the temporary files go, the directory is scanned, and emptied if need be.
Boot ==
  /\ server = "down" /\ server' = "boot" /\ limit' \in Limits
  /\ upload' = {} /\ draft' = {} /\ work' = Scanning
  /\ UNCHANGED <<data, meta, made, expired, pc, canceled, task, stored, lockVars, faults, crashes>>
BootScanned ==
  /\ server = "boot" /\ work.phase = "scan" /\ PhaseOver
  /\ IF work.usage > limit
     THEN work' = Evicting(LowWatermark) /\ UNCHANGED server
     ELSE work' = Idle /\ server' = "up"
  /\ UNCHANGED <<files, made, expired, limit, pc, canceled, task, stored, lockVars, faults, crashes>>
\* The store is ready, or does not fit its limit and the process ends.
Booted ==
  /\ server = "boot" /\ work.phase = "evict" /\ PhaseOver
  /\ work' = Idle /\ server' = IF work.usage > limit THEN "down" ELSE "up"
  /\ UNCHANGED <<files, made, expired, limit, pc, canceled, task, stored, lockVars, faults, crashes>>

Remove(p) ==
  \/ \E i \in Objects : RemoveData(p, i) \/ RemoveDataFails(p, i)
  \/ RemoveMeta(p) \/ RemoveMetaFails(p)
Write(p) == Announce(p) \/ Enter(p) \/ Remove(p) \/ Abandon(p) \/ ScanOver(p)
Read(p)  == Open(p) \/ OpenCanceled(p) \/ Opened(p) \/ OpenFails(p) \/ Close(p)
Put(p)   == \/ PutCopied(p) \/ PutEnds(p) \/ Write(p) \/ EvictOver(p)
            \/ RenameData(p) \/ RenameMeta(p) \/ RenameMetaFails(p) \/ Read(p)
Start    == Boot \/ BootScanned \/ Booted \/ Remove(Nobody)

Begin == \/ \E p \in Uploads : PutBegins(p)
         \/ \E p \in Downloads : Download(p)
         \/ \E p \in Admins : Administer(p)
Run   == \/ \E p \in Uploads : Put(p) \/ LocalizeFails(p)
         \/ \E p \in Downloads : Read(p)
         \/ \E p \in Admins : Write(p) \/ RemoveOver(p)
         \/ Start
Next  == Begin \/ Run \/ Expire \/ Crash \/ \E p \in Processes : Cancel(p)

Spec == Init /\ [][Next]_vars
(* Operations that have begun go on, the one that reads included: the server closes a connection
   that has not taken its bytes in time.  The process is started again when it has ended. *)
FairSpec == Spec /\ WF_vars(Run)

-----------------------------------------------------------------------------
\* The variables have their types, and the usage an operation computes is a size.
TypeOK ==
  /\ data \subseteq Objects /\ meta \subseteq Objects
  /\ upload \subseteq Uploads /\ draft \subseteq Uploads
  /\ expired \subseteq stored /\ stored \subseteq Objects /\ limit \in Limits
  /\ server \in {"up", "boot", "down"}
  /\ pc \in [Processes -> {"idle", "copy", "lock", "drain", "locked", "open", "opening", "reading",
                           "ending", "done"}]
  /\ writer \in Processes \cup {Nobody} /\ work.usage \in Nat
  /\ readers \subseteq Processes /\ blocked \subseteq Processes

(* The data files of a running store never take more than maxBytes: not when uploads race, not
   when a file cannot be removed, not when a start finds an earlier limit's files. *)
CapacityHeld == server = "up" => Bytes(data) <= limit

(* A client that reads an object is not disturbed: no eviction, deletion or clearing touches the
   object while its reader is open. *)
ReadersUndisturbed == \A p \in Processes : pc[p] = "reading" => Wanted(p) \in data \cap meta

(* Between operations every object has both its files or neither, as long as every
   removal succeeds: a rename that fails half-way is undone, and what a crash leaves is found by the
   start. *)
NoHalfObjects ==
  server = "up" /\ work.phase = "none" /\ faults = 0 => data = meta

(* An upload that returned an object has stored it whole, although Clear may have taken its
   temporary files in between: it can be opened until it is evicted, deleted or expired. *)
StoredMeansThere == server = "up" => stored \subseteq data \cap meta

(* Temporary files belong to a running upload: however an upload ends, and whenever the process
   died, none is left. *)
NoTemporaryFileLeft ==
  server = "up" => \A i \in upload \cup draft : pc[i] \notin {"idle", "done"}

(* Every operation ends: uploads, downloads and administrators do not wait for each other for
   ever, although a download holds the lock as long as its client reads. *)
EveryOperationEnds == <>[](\A p \in Processes : pc[p] \in {"idle", "done"})

\* The state is well formed and the directory in order: no half objects, no stray files.
DirectoryInOrder == TypeOK /\ NoHalfObjects /\ NoTemporaryFileLeft
=============================================================================
