----------------------------- MODULE ConfigSync -----------------------------
(***************************************************************************)
(* Instances of the gateway that start against one database, migrate it,   *)
(* load their settings and keep them in step: the runtime settings, their  *)
(* administrative endpoints, the synchronizer that listens for changes,    *)
(* and the maintenance loop that uses the log retention.                   *)
(*                                                                         *)
(* A setting's value is abstracted to the administrator's request that     *)
(* wrote it, or Default.  Every instance subscribes to one Redis channel;  *)
(* a notification carries its source and its scope, nothing else.          *)
(***************************************************************************)
EXTENDS Integers, Sequences

CONSTANTS
  Instances,      \* processes sharing the database and Redis
  Saves,          \* administrative requests that change one setting each
  Home,           \* [Saves -> Instances]: the instance that serves each
  Patches,        \* [Saves -> SUBSET Fields]: the settings each may change
  Fields,         \* the settings; see Hot, Restart and Strategy
  Retention, Base, Strategy,   \* three of them
  Default,        \* the value of a setting nobody saved
  NoInstance,     \* the migration lock is free
  Migrations,     \* the number of embedded migrations
  MaxFaults       \* failed calls, lost connections and crashes

ASSUME ConfigAssumption ==
  /\ Home \in [Saves -> Instances] /\ Patches \in [Saves -> SUBSET Fields]
  /\ {Retention, Base, Strategy} \subseteq Fields
  /\ Retention # Base /\ Retention # Strategy /\ Base # Strategy
  /\ Default \notin Saves /\ NoInstance \notin Instances
  /\ Migrations \in Nat /\ MaxFaults \in Nat

\* Fields that Apply activates in a running process, and the ones it keeps.
Hot == Fields \ {Base, Strategy}
Values == Saves \cup {Default}
Scopes == {"runtime_settings", "account_strategy"}
ScopeOf(f) == IF f = Strategy THEN "account_strategy" ELSE "runtime_settings"

VARIABLES
  schema,      \* schema_migrations: the versions committed, in order
  migrator,    \* holder of the advisory lock
  boot,        \* boot[i]: how far Run has come, see Stages
  next,        \* next[i]: the migration Migrate looks at
  persisted,   \* the settings row: the fields that were ever saved
  active,      \* active[i]: what Runtime and the pool of i use
  started,     \* started[i]: the restart-only value i was built with
  changed,     \* changed[i]: the one-element channel of Runtime
  upkeep,      \* upkeep[i]: the maintenance loop is "waiting", "woken", "deleting"
  used,        \* used[i]: the retention of the last clean-up
  sync,        \* sync[i]: the synchronizer's place and the scope it reloads
  loaded,      \* loaded[i]: the row the synchronizer read
  inbox,       \* inbox[i]: notifications delivered and not yet received
  save,        \* save[m]: an administrative request
  missed,      \* missed[i]: a failure reported and not made good since
  faults       \* failures so far

startVars == <<schema, migrator, next>>
vars == <<schema, migrator, boot, next, persisted, active, started, changed, upkeep,
          used, sync, loaded, inbox, save, missed, faults>>

Stages == {"down", "migrating", "applying", "migrated", "serving", "failed"}
Places == {"off", "subscribe", "load", "apply", "signal", "strategy", "consume"}
SavePlaces == {"idle", "save", "apply", "signal", "strategy", "notify", "done"}

TypeOK ==
  /\ schema \in Seq(1..Migrations)
  /\ migrator \in Instances \cup {NoInstance}
  /\ boot \in [Instances -> Stages]
  /\ next \in [Instances -> 1..(Migrations + 1)]
  /\ DOMAIN persisted \subseteq Fields /\ \A f \in DOMAIN persisted : persisted[f] \in Saves
  /\ active \in [Instances -> [Fields -> Values]]
  /\ started \in [Instances -> Values]
  /\ changed \in [Instances -> BOOLEAN]
  /\ upkeep \in [Instances -> {"waiting", "woken", "deleting"}]
  /\ used \in [Instances -> Values]
  /\ sync \in [Instances -> [at : Places, scope : Scopes \cup {""}]]
  /\ loaded \in [Instances -> [Fields -> Values]]
  /\ inbox \in [Instances -> Seq([source : Instances, scope : Scopes])]
  /\ save \in [Saves -> [at : SavePlaces, field : Fields, read : [Fields -> Values]]]
  /\ missed \in [Instances -> BOOLEAN]
  /\ faults \in 0..MaxFaults

Defaults == [f \in Fields |-> Default]
NoRead == Defaults
\* The saved fields over the defaults; all are valid, since nothing else is saved.
Resolve(saved) == [f \in Fields |-> IF f \in DOMAIN saved THEN saved[f] ELSE Default]
\* The upsert merges only the patched key.
Merge(saved, field, value) ==
  [f \in DOMAIN saved \cup {field} |-> IF f = field THEN value ELSE saved[f]]

Init ==
  /\ schema = <<>> /\ migrator = NoInstance
  /\ boot = [i \in Instances |-> "down"]
  /\ next = [i \in Instances |-> 1]
  /\ persisted = [f \in {} |-> Default]
  /\ active = [i \in Instances |-> Defaults]
  /\ started = [i \in Instances |-> Default]
  /\ changed = [i \in Instances |-> FALSE]
  /\ upkeep = [i \in Instances |-> "waiting"]
  /\ used = [i \in Instances |-> Default]
  /\ sync = [i \in Instances |-> [at |-> "off", scope |-> ""]]
  /\ loaded = [i \in Instances |-> NoRead]
  /\ inbox = [i \in Instances |-> <<>>]
  /\ save = [m \in Saves |-> [at |-> "idle", field |-> Base, read |-> NoRead]]
  /\ missed = [i \in Instances |-> FALSE]
  /\ faults = 0

Fault == faults < MaxFaults /\ faults' = faults + 1
(***************************************************************************)
(* Start-up: Migrate, under the advisory lock, then the settings.          *)
(***************************************************************************)
\* Mutant: the advisory lock is not taken.
LockNothing(i) ==
  /\ boot[i] = "down"
  /\ boot' = [boot EXCEPT ![i] = "migrating"]
  /\ next' = [next EXCEPT ![i] = 1]
  /\ UNCHANGED <<schema, migrator, persisted, active, started, changed, upkeep, used, sync,
                 loaded, inbox, save, missed, faults>>

LockMigrations(i) ==
  /\ boot[i] = "down" /\ migrator = NoInstance
  /\ migrator' = i
  /\ boot' = [boot EXCEPT ![i] = "migrating"]
  /\ next' = [next EXCEPT ![i] = 1]
  /\ UNCHANGED <<schema, persisted, active, started, changed, upkeep, used, sync,
                 loaded, inbox, save, missed, faults>>

Applied(v) == v \in {schema[n] : n \in 1..Len(schema)}

\* The query whether a version is recorded; an applied one is skipped.
CheckMigration(i) ==
  /\ boot[i] = "migrating" /\ next[i] <= Migrations
  /\ IF Applied(next[i])
       THEN next' = [next EXCEPT ![i] = @ + 1] /\ UNCHANGED boot
       ELSE boot' = [boot EXCEPT ![i] = "applying"] /\ UNCHANGED next
  /\ UNCHANGED <<schema, migrator, persisted, active, started, changed, upkeep, used,
                 sync, loaded, inbox, save, missed, faults>>

\* One transaction: the statements and the version row, whose primary key makes
\* a second application roll back and Run return the error.
ApplyMigration(i) ==
  /\ boot[i] = "applying"
  /\ IF Applied(next[i])
       THEN /\ boot' = [boot EXCEPT ![i] = "failed"]
            /\ UNCHANGED <<schema, next>>
       ELSE /\ schema' = Append(schema, next[i])
            /\ next' = [next EXCEPT ![i] = @ + 1]
            /\ boot' = [boot EXCEPT ![i] = "migrating"]
  /\ UNCHANGED <<migrator, persisted, active, started, changed, upkeep, used, sync,
                 loaded, inbox, save, missed, faults>>

UnlockMigrations(i) ==
  /\ boot[i] = "migrating" /\ next[i] > Migrations
  /\ migrator' = IF migrator = i THEN NoInstance ELSE migrator
  /\ boot' = [boot EXCEPT ![i] = "migrated"]
  /\ UNCHANGED <<schema, next, persisted, active, started, changed, upkeep, used, sync,
                 loaded, inbox, save, missed, faults>>

\* LoadSettings, Resolve and NewRuntime; then the background loops and the
\* server are started.  Every field takes effect here, restart-only ones too.
Serve(i) ==
  /\ boot[i] = "migrated"
  /\ boot' = [boot EXCEPT ![i] = "serving"]
  /\ active' = [active EXCEPT ![i] = Resolve(persisted)]
  /\ started' = [started EXCEPT ![i] = Resolve(persisted)[Base]]
  /\ used' = [used EXCEPT ![i] = Resolve(persisted)[Retention]]
  /\ sync' = [sync EXCEPT ![i] = [at |-> "subscribe", scope |-> ""]]
  /\ UNCHANGED <<schema, migrator, next, persisted, changed, upkeep, loaded, inbox, save,
                 missed, faults>>

\* Mutant: a lock row that outlives its writer.
LockStays(i) == migrator

\* The advisory lock belongs to the database session of its holder.
SessionEnds(i) == IF migrator = i THEN NoInstance ELSE migrator

\* A process dies: its lock, its subscription and its requests go with it.
Crash(i) ==
  /\ Fault
  /\ boot[i] \notin {"down", "failed"}
  /\ boot' = [boot EXCEPT ![i] = "down"]
  /\ migrator' = SessionEnds(i)
  /\ active' = [active EXCEPT ![i] = Defaults]
  /\ started' = [started EXCEPT ![i] = Default]
  /\ used' = [used EXCEPT ![i] = Default]
  /\ changed' = [changed EXCEPT ![i] = FALSE]
  /\ upkeep' = [upkeep EXCEPT ![i] = "waiting"]
  /\ sync' = [sync EXCEPT ![i] = [at |-> "off", scope |-> ""]]
  /\ loaded' = [loaded EXCEPT ![i] = NoRead]
  /\ inbox' = [inbox EXCEPT ![i] = <<>>]
  /\ save' = [m \in Saves |-> IF Home[m] = i /\ save[m].at \notin {"idle", "done"}
                                THEN [save[m] EXCEPT !.at = "done", !.read = NoRead]
                                ELSE save[m]]
  \* A change whose save committed and whose notification was not sent.
  /\ missed' = [j \in Instances |->
                  /\ j # i
                  /\ \/ missed[j]
                     \/ \E m \in Saves : Home[m] = i /\
                            save[m].at \in {"apply", "signal", "strategy", "notify"}]
  /\ UNCHANGED <<schema, next, persisted>>
(***************************************************************************)
(* Runtime.Apply, called by a save and by the synchronizer: the pointer is *)
(* replaced first, then the channel gets its one element.                  *)
(***************************************************************************)
Activate(i, configured) ==
  active' = [active EXCEPT ![i] = [f \in Fields |-> IF f \in Hot THEN configured[f] ELSE @[f]]]

SetStrategy(i, value) == active' = [active EXCEPT ![i][Strategy] = value]

\* Mutant: the channel has no buffer, the element is lost on a busy loop.
SignalUnbuffered(i) == changed' = [changed EXCEPT ![i] = @ \/ upkeep[i] = "waiting"]

Signal(i) == changed' = [changed EXCEPT ![i] = TRUE]
(***************************************************************************)
(* saveSettings and updateAccountPolicy.                                   *)
(***************************************************************************)
GoTo(m, place) == save' = [save EXCEPT ![m].at = place]

\* The request arrives; saveSettings loads the row it patches, and returns the
\* error if it cannot.
BeginSave(m) ==
  /\ save[m].at = "idle" /\ boot[Home[m]] = "serving"
  /\ \E f \in Patches[m] :
       save' = [save EXCEPT ![m] = [at |-> "save", field |-> f,
                                    read |-> IF f = Strategy THEN NoRead ELSE Resolve(persisted)]]
  /\ UNCHANGED <<startVars, boot, persisted, active, started, changed, upkeep, used, sync,
                 loaded, inbox, missed, faults>>

\* The row is stored; the caller goes on with the settings it has patched.
SaveSettings(m) ==
  /\ save[m].at = "save"
  /\ persisted' = Merge(persisted, save[m].field, m)
  /\ save' = [save EXCEPT ![m].at = IF save[m].field = Strategy THEN "strategy" ELSE "apply",
                          ![m].read = [@ EXCEPT ![save[m].field] = m]]
  /\ UNCHANGED <<startVars, boot, active, started, changed, upkeep, used, sync, loaded,
                 inbox, missed, faults>>

\* ApplyPatch or ParseStrategy refuses the patch: empty, unknown, of the wrong type or out of range.
SaveRejected(m) ==
  /\ save[m].at = "save"
  /\ save' = [save EXCEPT ![m].at = "done", ![m].read = NoRead]
  /\ UNCHANGED <<startVars, boot, persisted, active, started, changed, upkeep, used, sync, loaded,
                 inbox, missed, faults>>

\* A failed call ends the request; the upsert may have happened all the same,
\* and then nobody is told.
SaveFails(m) ==
  /\ Fault
  /\ save[m].at = "save"
  /\ save' = [save EXCEPT ![m].at = "done", ![m].read = NoRead]
  /\ \/ UNCHANGED <<persisted, missed>>
     \/ /\ persisted' = Merge(persisted, save[m].field, m)
        /\ missed' = [i \in Instances |-> TRUE]
  /\ UNCHANGED <<startVars, boot, active, started, changed, upkeep, used, sync, loaded,
                 inbox>>

SaveApplies(m) ==
  /\ save[m].at = "apply"
  /\ Activate(Home[m], save[m].read)
  /\ save' = [save EXCEPT ![m].at = "signal", ![m].read = NoRead]
  /\ UNCHANGED <<startVars, boot, persisted, started, changed, upkeep, used, sync, loaded,
                 inbox, missed, faults>>

SaveSignals(m) ==
  /\ save[m].at = "signal"
  /\ Signal(Home[m])
  /\ GoTo(m, "notify")
  /\ UNCHANGED <<startVars, boot, persisted, active, started, upkeep, used, sync, loaded,
                 inbox, missed, faults>>

SaveSetsStrategy(m) ==
  /\ save[m].at = "strategy"
  /\ SetStrategy(Home[m], m)
  /\ GoTo(m, "notify")
  /\ UNCHANGED <<startVars, boot, persisted, started, changed, upkeep, used, sync, loaded,
                 inbox, missed, faults>>

\* Mutant: Run reloads first and subscribes then.
SubscribedAfterReload(i) == sync[i].at = "consume"

\* Redis delivers to the connections subscribed at this moment.
Subscribed(i) == sync[i].at \notin {"off", "subscribe"}

Notify(m) ==
  /\ save[m].at = "notify"
  /\ LET event == [source |-> Home[m], scope |-> ScopeOf(save[m].field)]
     IN  inbox' = [i \in Instances |-> IF Subscribed(i) THEN Append(inbox[i], event) ELSE inbox[i]]
  /\ GoTo(m, "done")
  /\ UNCHANGED <<startVars, boot, persisted, active, started, changed, upkeep, used, sync,
                 loaded, missed, faults>>

\* notifyConfiguration only logs; also when the client's context has ended.
NotifyFails(m) ==
  /\ Fault
  /\ save[m].at = "notify"
  /\ save' = [save EXCEPT ![m].at = "done", ![m].read = NoRead]
  /\ missed' = [i \in Instances |-> missed[i] \/ i # Home[m]]
  /\ UNCHANGED <<startVars, boot, persisted, active, started, changed, upkeep, used, sync,
                 loaded, inbox>>
(***************************************************************************)
(* Synchronizer.Run: subscribe, reload everything, consume.                *)
(***************************************************************************)
SyncTo(i, place) == sync' = [sync EXCEPT ![i].at = place]

Subscribe(i) ==
  /\ sync[i].at = "subscribe"
  /\ sync' = [sync EXCEPT ![i] = [at |-> "load", scope |-> ""]]
  /\ UNCHANGED <<startVars, boot, persisted, active, started, changed, upkeep, used, loaded,
                 inbox, save, missed, faults>>

\* A broken connection ends consume; what was not received is gone.
Disconnect(i) ==
  /\ Fault
  /\ sync[i].at = "consume"
  /\ sync' = [sync EXCEPT ![i] = [at |-> "subscribe", scope |-> ""]]
  /\ inbox' = [inbox EXCEPT ![i] = <<>>]
  /\ UNCHANGED <<startVars, boot, persisted, active, started, changed, upkeep, used, loaded,
                 save, missed>>

Receive(i) ==
  /\ sync[i].at = "consume" /\ inbox[i] # <<>>
  /\ LET event == Head(inbox[i])
     IN  IF event.source = i THEN UNCHANGED sync
         ELSE sync' = [sync EXCEPT ![i] = [at |-> "load", scope |-> event.scope]]
  /\ inbox' = [inbox EXCEPT ![i] = Tail(@)]
  /\ UNCHANGED <<startVars, boot, persisted, active, started, changed, upkeep, used, loaded,
                 save, missed, faults>>

\* reload: LoadSettings, and a full reload makes good what was missed before.
Load(i) ==
  /\ sync[i].at = "load"
  /\ loaded' = [loaded EXCEPT ![i] = Resolve(persisted)]
  /\ SyncTo(i, IF sync[i].scope = "account_strategy" THEN "strategy" ELSE "apply")
  /\ missed' = [missed EXCEPT ![i] = @ /\ sync[i].scope # ""]
  /\ UNCHANGED <<startVars, boot, persisted, active, started, changed, upkeep, used, inbox,
                 save, faults>>

\* The error is reported and consume goes on with the next notification.
LoadFails(i) ==
  /\ Fault
  /\ sync[i].at = "load"
  /\ SyncTo(i, "consume")
  /\ missed' = [missed EXCEPT ![i] = TRUE]
  /\ UNCHANGED <<startVars, boot, persisted, active, started, changed, upkeep, used, loaded,
                 inbox, save>>

SyncApplies(i) ==
  /\ sync[i].at = "apply"
  /\ Activate(i, loaded[i])
  /\ SyncTo(i, "signal")
  /\ UNCHANGED <<startVars, boot, persisted, started, changed, upkeep, used, loaded, inbox,
                 save, missed, faults>>

SyncSignals(i) ==
  /\ sync[i].at = "signal"
  /\ Signal(i)
  /\ SyncTo(i, IF sync[i].scope = "" THEN "strategy" ELSE "consume")
  /\ loaded' = IF sync[i].scope = "" THEN loaded ELSE [loaded EXCEPT ![i] = NoRead]
  /\ UNCHANGED <<startVars, boot, persisted, active, started, upkeep, used, inbox, save,
                 missed, faults>>

SyncSetsStrategy(i) ==
  /\ sync[i].at = "strategy"
  /\ SetStrategy(i, loaded[i][Strategy])
  /\ SyncTo(i, "consume")
  /\ loaded' = [loaded EXCEPT ![i] = NoRead]
  /\ UNCHANGED <<startVars, boot, persisted, started, changed, upkeep, used, inbox, save,
                 missed, faults>>
(***************************************************************************)
(* maintainSessions: woken by the channel (or its ticker), it reads the    *)
(* retention after it has taken the element.                               *)
(***************************************************************************)
Wake(i) ==
  /\ boot[i] = "serving" /\ upkeep[i] = "waiting" /\ changed[i]
  /\ changed' = [changed EXCEPT ![i] = FALSE]
  /\ upkeep' = [upkeep EXCEPT ![i] = "woken"]
  /\ UNCHANGED <<startVars, boot, persisted, active, started, used, sync, loaded, inbox,
                 save, missed, faults>>

ReadRetention(i) ==
  /\ upkeep[i] = "woken"
  /\ used' = [used EXCEPT ![i] = active[i][Retention]]
  /\ upkeep' = [upkeep EXCEPT ![i] = "deleting"]
  /\ UNCHANGED <<startVars, boot, persisted, active, started, changed, sync, loaded, inbox,
                 save, missed, faults>>

\* DeleteRequestLogsBefore, whose error is only logged.
DeleteLogs(i) ==
  /\ upkeep[i] = "deleting"
  /\ upkeep' = [upkeep EXCEPT ![i] = "waiting"]
  /\ UNCHANGED <<startVars, boot, persisted, active, started, changed, used, sync, loaded,
                 inbox, save, missed, faults>>

InstanceStep(i) ==
  \/ LockMigrations(i) \/ CheckMigration(i) \/ ApplyMigration(i) \/ UnlockMigrations(i)
  \/ Serve(i)
  \/ Subscribe(i) \/ Receive(i) \/ Load(i) \/ SyncApplies(i) \/ SyncSignals(i)
  \/ SyncSetsStrategy(i) \/ Wake(i) \/ ReadRetention(i) \/ DeleteLogs(i)

SaveStep(m) ==
  \/ BeginSave(m) \/ SaveRejected(m) \/ SaveSettings(m) \/ SaveApplies(m) \/ SaveSignals(m)
  \/ SaveSetsStrategy(m) \/ Notify(m)

Next ==
  \/ \E i \in Instances : InstanceStep(i) \/ Crash(i) \/ Disconnect(i) \/ LoadFails(i)
  \/ \E m \in Saves : SaveStep(m) \/ SaveFails(m) \/ NotifyFails(m)

Spec == Init /\ [][Next]_vars
FairSpec == Spec /\ \A i \in Instances : SF_vars(LockMigrations(i)) /\ WF_vars(InstanceStep(i))
(***************************************************************************)
(* Properties.                                                             *)
(***************************************************************************)
Busy == \E m \in Saves : save[m].at \notin {"idle", "done"}
Listening(i) == sync[i].at = "consume" /\ inbox[i] = <<>>
ServedNoSave(i) == \A m \in Saves : Home[m] = i => save[m].at = "idle"

\* Once no save is under way and an instance has handled its notifications, it
\* uses the settings and the strategy of the database, whenever it subscribed,
\* unless a failure it or the saving instance has logged lost a change
\* (Synchronizer.Run subscribes before it reloads).
PeersConverge ==
  \A i \in Instances :
    ~Busy /\ Listening(i) /\ ServedNoSave(i) /\ ~missed[i]
      => \A f \in Hot \cup {Strategy} : active[i][f] = Resolve(persisted)[f]

\* A new retention is never left unused: while the clean-up has not used the
\* active one, the channel holds an element, the loop is awake, or a call of
\* Apply has stored its values and has its element still to send.
RetentionNotLost ==
  \A i \in Instances :
    boot[i] = "serving" /\ used[i] # active[i][Retention] =>
      \/ changed[i]
      \/ upkeep[i] = "woken"
      \/ sync[i].at = "signal"
      \/ \E m \in Saves : Home[m] = i /\ save[m].at = "signal"

\* Restart-only settings keep the value their consumers were built with, until
\* the process is started again, whatever is saved meanwhile.
RestartFieldsStable ==
  \A i \in Instances : boot[i] = "serving" => active[i][Base] = started[i]

\* Instances that start together apply the migrations in order, none of them
\* meets a version another one has just recorded, and no instance serves on an
\* incomplete schema, also when one of them dies between two migrations.
SchemaReady ==
  /\ \A n \in 1..Len(schema) : schema[n] = n
  /\ \A i \in Instances : boot[i] # "failed" /\ (boot[i] = "serving" => Len(schema) = Migrations)

\* An instance that does not crash for ever gets to serve requests and to listen
\* for changes: the advisory lock of a dead process is released.
EveryInstanceListens == \A i \in Instances : <>[](sync[i].at # "off")

\* The state is well formed, and a setting takes effect as its kind promises: one that is used
\* while the process runs reaches its user, one that needs a restart waits for it.
SettingsTakeEffect == TypeOK /\ RetentionNotLost /\ RestartFieldsStable
=============================================================================
