-------------------------- MODULE ConfigSyncProofs --------------------------
(***************************************************************************)
(* SchemaReady, SettingsTakeEffect and PeersConverge of ConfigSync, for    *)
(* any number of instances, saves, settings and migrations.                *)
(*                                                                         *)
(* Migrations: whoever is between the lock and its release holds the lock, *)
(* so the version it found missing is still missing when it is applied.    *)
(* Convergence: as long as an instance does not use the stored value of a  *)
(* setting, the change is still on its way to it: the save has yet to      *)
(* notify, the notification is in the inbox, a reload that covers the      *)
(* setting is under way, or the instance has yet to subscribe.             *)
(***************************************************************************)
EXTENDS ConfigSync, SequenceTheorems, TLAPS

\* Who is about to apply a migration holds the lock, and looks at the next one.
Migrating ==
  \A i \in Instances :
    /\ boot[i] \in {"migrating", "applying"} => migrator = i /\ next[i] <= Len(schema) + 1
    /\ boot[i] = "applying" => next[i] = Len(schema) + 1 /\ next[i] <= Migrations

\* The versions are recorded in order, and all of them once an instance has seen to it.
SchemaInOrder ==
  /\ \A n \in 1..Len(schema) : schema[n] = n
  /\ Len(schema) <= Migrations
  /\ \A i \in Instances : /\ boot[i] # "failed"
                          /\ boot[i] \in {"migrated", "serving"} => Len(schema) = Migrations

\* The inductive invariant of the start.
StartInv == TypeOK /\ Migrating /\ SchemaInOrder

----------------------------------------------------------------------------
(* Operators.                                                              *)

\* The row stays a partial function of the settings, and resolves to a value for each of them.
LEMMA RowTypes ==
  ASSUME NEW saved, DOMAIN saved \subseteq Fields, \A f \in DOMAIN saved : saved[f] \in Saves
  PROVE  /\ Resolve(saved) \in [Fields -> Values]
         /\ \A f \in Fields, m \in Saves :
              /\ DOMAIN Merge(saved, f, m) \subseteq Fields
              /\ \A g \in DOMAIN Merge(saved, f, m) : Merge(saved, f, m)[g] \in Saves
  BY DEF Resolve, Merge, Values

\* A save changes what one setting resolves to.
LEMMA MergeResolves ==
  ASSUME NEW saved, NEW f \in Fields, NEW m \in Saves, NEW g \in Fields
  PROVE  Resolve(Merge(saved, f, m))[g] = IF g = f THEN m ELSE Resolve(saved)[g]
  BY DEF Resolve, Merge

\* The defaults are values, and the hot settings are neither the base nor the strategy.
LEMMA SettingTypes ==
  /\ Defaults \in [Fields -> Values] /\ Default \in Values
  /\ Retention \in Hot /\ Base \in Fields /\ Strategy \in Fields /\ Base \notin Hot /\ Strategy \notin Hot
  BY ConfigAssumption DEF Defaults, Values, Hot

\* Apply and SetStrategy write the settings of one instance.
LEMMA ActiveTypes ==
  ASSUME TypeOK, NEW i \in Instances, NEW configured \in [Fields -> Values], NEW value \in Values,
         Activate(i, configured) \/ SetStrategy(i, value)
  PROVE  /\ active' \in [Instances -> [Fields -> Values]]
         /\ \A j \in Instances \ {i} : active'[j] = active[j]
         /\ active'[i][Base] = active[i][Base]
<1>1. active \in [Instances -> [Fields -> Values]]
  BY DEF TypeOK
<1>2. CASE Activate(i, configured)
  BY <1>1, <1>2, SettingTypes DEF Activate
<1>3. CASE SetStrategy(i, value)
  BY <1>1, <1>3, SettingTypes, ConfigAssumption DEF SetStrategy
<1> QED
  BY <1>2, <1>3

\* The records kept of a synchronizer, a save and a notification.
SyncRecord  == [at : Places, scope : Scopes \cup {""}]
SaveRecord  == [at : SavePlaces, field : Fields, read : [Fields -> Values]]
EventRecord == [source : Instances, scope : Scopes]

LEMMA SyncUpdate ==
  ASSUME NEW s \in [Instances -> SyncRecord], NEW i \in Instances,
         NEW place \in Places, NEW scope \in Scopes \cup {""}
  PROVE  /\ [s EXCEPT ![i].at = place] \in [Instances -> SyncRecord]
         /\ [s EXCEPT ![i] = [at |-> place, scope |-> scope]] \in [Instances -> SyncRecord]
<1> DEFINE r == [s[i] EXCEPT !.at = place]
           q == [at |-> place, scope |-> scope]
<1>1. r \in SyncRecord /\ q \in SyncRecord
  BY DEF SyncRecord
<1>2. [s EXCEPT ![i].at = place] = [s EXCEPT ![i] = r]
  OBVIOUS
<1> HIDE DEF r, q
<1>3. [s EXCEPT ![i] = r] \in [Instances -> SyncRecord] /\ [s EXCEPT ![i] = q] \in [Instances -> SyncRecord]
  BY <1>1
<1> QED
  BY <1>2, <1>3 DEF q

LEMMA SaveUpdate ==
  ASSUME NEW s \in [Saves -> SaveRecord], NEW m \in Saves, NEW place \in SavePlaces,
         NEW field \in Fields, NEW read \in [Fields -> Values]
  PROVE  /\ [s EXCEPT ![m].at = place] \in [Saves -> SaveRecord]
         /\ [s EXCEPT ![m].at = place, ![m].read = read] \in [Saves -> SaveRecord]
         /\ [s EXCEPT ![m] = [at |-> place, field |-> field, read |-> read]] \in [Saves -> SaveRecord]
<1> DEFINE r == [s[m] EXCEPT !.at = place]
           t == [s[m] EXCEPT !.at = place, !.read = read]
           q == [at |-> place, field |-> field, read |-> read]
<1>1. r \in SaveRecord /\ t \in SaveRecord /\ q \in SaveRecord
  BY DEF SaveRecord
<1>2. /\ [s EXCEPT ![m].at = place] = [s EXCEPT ![m] = r]
      /\ [s EXCEPT ![m].at = place, ![m].read = read] = [s EXCEPT ![m] = t]
  OBVIOUS
<1> HIDE DEF r, t, q
<1>3. /\ [s EXCEPT ![m] = r] \in [Saves -> SaveRecord] /\ [s EXCEPT ![m] = t] \in [Saves -> SaveRecord]
      /\ [s EXCEPT ![m] = q] \in [Saves -> SaveRecord]
  BY <1>1
<1> QED
  BY <1>2, <1>3 DEF q

\* A save that has no use for the row it has read any more.
LEMMA SaveEnds ==
  ASSUME save \in [Saves -> SaveRecord], NEW m \in Saves, NEW place \in SavePlaces
  PROVE  [save EXCEPT ![m].at = place, ![m].read = NoRead] \in [Saves -> SaveRecord]
<1>1. NoRead \in [Fields -> Values] /\ Base \in Fields
  BY SettingTypes DEF NoRead
<1> QED
  BY <1>1, SaveUpdate

LEMMA InboxUpdate ==
  ASSUME NEW b \in [Instances -> Seq(EventRecord)], NEW i \in Instances
  PROVE  /\ [b EXCEPT ![i] = <<>>] \in [Instances -> Seq(EventRecord)]
         /\ b[i] # <<>> => /\ Head(b[i]) \in EventRecord
                           /\ [b EXCEPT ![i] = Tail(@)] \in [Instances -> Seq(EventRecord)]
<1>1. b[i] \in Seq(EventRecord) /\ <<>> \in Seq(EventRecord)
  BY EmptySeq
<1>2. b[i] # <<>> => Head(b[i]) \in EventRecord /\ Tail(b[i]) \in Seq(EventRecord)
  BY <1>1, HeadTailProperties
<1> QED
  BY <1>1, <1>2

----------------------------------------------------------------------------
(* The start of an instance.                                               *)

StartUp(i) == LockMigrations(i) \/ CheckMigration(i) \/ ApplyMigration(i) \/ UnlockMigrations(i)

\* The other steps of an instance, and those of the saves.
Synchronize(i) ==
  \/ Subscribe(i) \/ Receive(i) \/ Load(i) \/ SyncApplies(i) \/ SyncSignals(i) \/ SyncSetsStrategy(i)
  \/ Disconnect(i) \/ LoadFails(i)
Maintain(i) == Wake(i) \/ ReadRetention(i) \/ DeleteLogs(i)
Saving(m) == SaveStep(m) \/ SaveFails(m) \/ NotifyFails(m)

LEMMA NextCases ==
  Next => \/ \E i \in Instances : StartUp(i) \/ Serve(i) \/ Crash(i) \/ Synchronize(i) \/ Maintain(i)
          \/ \E m \in Saves : Saving(m)
  BY DEF Next, InstanceStep, StartUp, Synchronize, Maintain, Saving

LEMMA StartUnchanged ==
  /\ \A i \in Instances : Synchronize(i) \/ Maintain(i) => UNCHANGED <<schema, migrator, next, boot>>
  /\ \A m \in Saves : Saving(m) => UNCHANGED <<schema, migrator, next, boot>>
<1> USE DEF startVars
<1>1. ASSUME NEW i \in Instances, Synchronize(i) PROVE UNCHANGED <<schema, migrator, next, boot>>
  BY <1>1 DEF Synchronize, Subscribe, Receive, Load, SyncApplies, SyncSignals, SyncSetsStrategy,
              Disconnect, LoadFails
<1>2. ASSUME NEW i \in Instances, Maintain(i) PROVE UNCHANGED <<schema, migrator, next, boot>>
  BY <1>2 DEF Maintain, Wake, ReadRetention, DeleteLogs
<1>3. ASSUME NEW m \in Saves, Saving(m) PROVE UNCHANGED <<schema, migrator, next, boot>>
  BY <1>3 DEF Saving, SaveStep, BeginSave, SaveRejected, SaveSettings, SaveApplies, SaveSignals,
              SaveSetsStrategy, Notify, SaveFails, NotifyFails
<1> QED
  BY <1>1, <1>2, <1>3

\* A version up to the length of the table is recorded, and no other.
LEMMA AppliedVersions ==
  ASSUME TypeOK, SchemaInOrder, NEW v \in Nat \ {0}
  PROVE  Applied(v) <=> v <= Len(schema)
<1>1. Len(schema) \in Nat
  BY LenProperties DEF TypeOK
<1> QED
  BY <1>1 DEF Applied, SchemaInOrder

\* One step of the start, as the variables of the migrations see it.
LEMMA StartStep ==
  ASSUME StartInv, Next
  PROVE  /\ Migrating' /\ SchemaInOrder'
         /\ schema' \in Seq(1..Migrations) /\ next' \in [Instances -> 1..(Migrations + 1)]
         /\ migrator' \in Instances \cup {NoInstance} /\ boot' \in [Instances -> Stages]
<1> DEFINE Goal == /\ Migrating' /\ SchemaInOrder'
                   /\ schema' \in Seq(1..Migrations) /\ next' \in [Instances -> 1..(Migrations + 1)]
                   /\ migrator' \in Instances \cup {NoInstance} /\ boot' \in [Instances -> Stages]
<1>0. /\ TypeOK /\ Migrating /\ SchemaInOrder /\ Migrations \in Nat /\ NoInstance \notin Instances
      /\ schema \in Seq(1..Migrations) /\ Len(schema) \in Nat
      /\ next \in [Instances -> 1..(Migrations + 1)] /\ boot \in [Instances -> Stages]
      /\ migrator \in Instances \cup {NoInstance}
  BY ConfigAssumption, LenProperties DEF StartInv, TypeOK
<1>1. CASE UNCHANGED <<schema, migrator, next, boot>>
  BY <1>0, <1>1 DEF Migrating, SchemaInOrder
<1>2. ASSUME NEW i \in Instances, LockMigrations(i)
      PROVE  Goal
  BY <1>0, <1>2 DEF LockMigrations, Migrating, SchemaInOrder, Stages
<1>3. ASSUME NEW i \in Instances, CheckMigration(i)
      PROVE  Goal
  <2>1. next[i] \in Nat \ {0} /\ next[i] <= Migrations /\ next[i] <= Len(schema) + 1 /\ migrator = i
    BY <1>0, <1>3 DEF CheckMigration, Migrating
  <2>2. Applied(next[i]) <=> next[i] <= Len(schema)
    BY <1>0, <2>1, AppliedVersions
  <2>3. CASE Applied(next[i])
    <3>1. next' = [next EXCEPT ![i] = @ + 1] /\ UNCHANGED <<boot, schema, migrator>>
      BY <1>3, <2>3 DEF CheckMigration
    <3>2. next' \in [Instances -> 1..(Migrations + 1)] /\ next'[i] = next[i] + 1
          /\ \A j \in Instances \ {i} : next'[j] = next[j]
      BY <1>0, <2>1, <3>1
    <3>3. Migrating'
      BY <1>0, <1>3, <2>1, <2>2, <2>3, <3>1, <3>2 DEF CheckMigration, Migrating
    <3> QED
      BY <1>0, <3>1, <3>2, <3>3 DEF SchemaInOrder
  <2>4. CASE ~Applied(next[i])
    BY <1>0, <1>3, <2>1, <2>2, <2>4 DEF CheckMigration, Migrating, SchemaInOrder, Stages
  <2> QED
    BY <2>3, <2>4
<1>4. ASSUME NEW i \in Instances, ApplyMigration(i)
      PROVE  Goal
  <2>1. next[i] = Len(schema) + 1 /\ next[i] <= Migrations /\ migrator = i /\ next[i] \in Nat \ {0}
    BY <1>0, <1>4 DEF ApplyMigration, Migrating
  <2>2. ~Applied(next[i])
    BY <1>0, <2>1, AppliedVersions
  <2>3. /\ schema' = Append(schema, next[i]) /\ UNCHANGED migrator
        /\ next' = [next EXCEPT ![i] = @ + 1] /\ boot' = [boot EXCEPT ![i] = "migrating"]
    BY <1>4, <2>2 DEF ApplyMigration
  <2>4. /\ schema' \in Seq(1..Migrations) /\ Len(schema') = Len(schema) + 1
        /\ schema'[Len(schema) + 1] = next[i] /\ \A n \in 1..Len(schema) : schema'[n] = schema[n]
    BY <1>0, <2>1, <2>3, AppendProperties
  <2>5. \A n \in 1..Len(schema') : schema'[n] = n
    <3> TAKE n \in 1..Len(schema')
    <3>1. CASE n = Len(schema) + 1
      BY <2>1, <2>4, <3>1
    <3>2. CASE n # Len(schema) + 1
      <4>1. n \in 1..Len(schema)
        BY <1>0, <2>4, <3>2
      <4> QED
        BY <1>0, <2>4, <4>1 DEF SchemaInOrder
    <3> QED
      BY <3>1, <3>2
  <2>6. \A j \in Instances \ {i} : boot[j] \notin {"migrating", "applying", "migrated", "serving"}
    BY <1>0, <2>1 DEF Migrating, SchemaInOrder
  <2>7. Migrating'
    BY <1>0, <2>1, <2>3, <2>4, <2>6 DEF Migrating
  <2>8. SchemaInOrder'
    BY <1>0, <2>1, <2>3, <2>4, <2>5, <2>6 DEF SchemaInOrder
  <2> QED
    BY <1>0, <2>1, <2>3, <2>4, <2>7, <2>8 DEF Stages
<1>5. ASSUME NEW i \in Instances, UnlockMigrations(i)
      PROVE  Goal
  BY <1>0, <1>5 DEF UnlockMigrations, Migrating, SchemaInOrder, Stages
<1>6. ASSUME NEW i \in Instances, Serve(i)
      PROVE  Goal
  BY <1>0, <1>6 DEF Serve, Migrating, SchemaInOrder, Stages
<1>7. ASSUME NEW i \in Instances, Crash(i)
      PROVE  Goal
  BY <1>0, <1>7 DEF Crash, SessionEnds, Migrating, SchemaInOrder, Stages
<1> QED
  BY <1>1, <1>2, <1>3, <1>4, <1>5, <1>6, <1>7, NextCases, StartUnchanged DEF StartUp

----------------------------------------------------------------------------
(* Types.                                                                  *)

LEMMA TypeStep ==
  ASSUME StartInv, Next
  PROVE  TypeOK'
<1> USE DEF startVars
<1>0. /\ TypeOK
      /\ schema' \in Seq(1..Migrations) /\ next' \in [Instances -> 1..(Migrations + 1)]
      /\ migrator' \in Instances \cup {NoInstance} /\ boot' \in [Instances -> Stages]
  BY StartStep DEF StartInv
<1>1. Fault \/ UNCHANGED faults => faults' \in 0..MaxFaults
  <2>1. faults \in 0..MaxFaults /\ MaxFaults \in Nat
    BY <1>0, ConfigAssumption DEF TypeOK
  <2> QED
    BY <2>1 DEF Fault
<1>2. /\ Resolve(persisted) \in [Fields -> Values]
      /\ \A f \in Fields, m \in Saves :
           /\ DOMAIN Merge(persisted, f, m) \subseteq Fields
           /\ \A g \in DOMAIN Merge(persisted, f, m) : Merge(persisted, f, m)[g] \in Saves
  BY <1>0, RowTypes DEF TypeOK
<1>3. /\ sync \in [Instances -> SyncRecord] /\ save \in [Saves -> SaveRecord]
      /\ inbox \in [Instances -> Seq(EventRecord)]
      /\ \A m \in Saves : save[m].field \in Fields /\ save[m].read \in [Fields -> Values]
  BY <1>0 DEF TypeOK, SyncRecord, SaveRecord, EventRecord
<1>4. ASSUME NEW i \in Instances, LockMigrations(i) PROVE TypeOK'
  BY <1>0, <1>4 DEF LockMigrations, TypeOK
<1>5. ASSUME NEW i \in Instances, CheckMigration(i) PROVE TypeOK'
  BY <1>0, <1>5 DEF CheckMigration, TypeOK
<1>6. ASSUME NEW i \in Instances, ApplyMigration(i) PROVE TypeOK'
  BY <1>0, <1>6 DEF ApplyMigration, TypeOK
<1>7. ASSUME NEW i \in Instances, UnlockMigrations(i) PROVE TypeOK'
  BY <1>0, <1>7 DEF UnlockMigrations, TypeOK
<1>8. ASSUME NEW i \in Instances, Serve(i) PROVE TypeOK'
  <2>1. active' \in [Instances -> [Fields -> Values]]
    BY <1>0, <1>2, <1>8, SettingTypes, ConfigAssumption DEF Serve, TypeOK, NoRead
  <2>2. started' \in [Instances -> Values]
    BY <1>0, <1>2, <1>8, SettingTypes, ConfigAssumption DEF Serve, TypeOK, NoRead
  <2>3. used' \in [Instances -> Values]
    BY <1>0, <1>2, <1>8, SettingTypes, ConfigAssumption DEF Serve, TypeOK, NoRead
  <2>4. sync' \in [Instances -> SyncRecord]
    BY <1>3, <1>8, SyncUpdate, InboxUpdate DEF Serve, SyncTo, Places, Scopes
  <2> QED
    BY <1>0, <1>8, <2>1, <2>2, <2>3, <2>4 DEF Serve, TypeOK, SyncRecord, SaveRecord, EventRecord
<1>9. ASSUME NEW i \in Instances, Crash(i) PROVE TypeOK'
  <2>1. active' \in [Instances -> [Fields -> Values]]
    BY <1>0, <1>2, <1>9, SettingTypes, ConfigAssumption DEF Crash, TypeOK, NoRead
  <2>2. started' \in [Instances -> Values]
    BY <1>0, <1>2, <1>9, SettingTypes, ConfigAssumption DEF Crash, TypeOK, NoRead
  <2>3. used' \in [Instances -> Values]
    BY <1>0, <1>2, <1>9, SettingTypes, ConfigAssumption DEF Crash, TypeOK, NoRead
  <2>4. changed' \in [Instances -> BOOLEAN]
    BY <1>0, <1>9, Zenon DEF Crash, TypeOK
  <2>5. upkeep' \in [Instances -> {"waiting", "woken", "deleting"}]
    BY <1>0, <1>2, <1>9, SettingTypes, ConfigAssumption DEF Crash, TypeOK, NoRead
  <2>6. sync' \in [Instances -> SyncRecord]
    BY <1>3, <1>9, SyncUpdate, InboxUpdate DEF Crash, SyncTo, Places, Scopes
  <2>7. loaded' \in [Instances -> [Fields -> Values]]
    BY <1>0, <1>2, <1>9, SettingTypes, ConfigAssumption DEF Crash, TypeOK, NoRead
  <2>8. inbox' \in [Instances -> Seq(EventRecord)]
    BY <1>3, <1>9, InboxUpdate DEF Crash
  <2>9. save' \in [Saves -> SaveRecord]
    <3>1. NoRead \in [Fields -> Values]
      BY SettingTypes DEF NoRead
    <3>2. \A m \in Saves : [save[m] EXCEPT !.at = "done", !.read = NoRead] \in SaveRecord /\ save[m] \in SaveRecord
      BY <1>3, <3>1 DEF SaveRecord, SavePlaces
    <3> QED
      BY <1>9, <3>2 DEF Crash
  <2>10. missed' \in [Instances -> BOOLEAN]
    BY <1>0, <1>9, Zenon DEF Crash, TypeOK
  <2>11. faults' \in 0..MaxFaults
    BY <1>1, <1>9 DEF Crash
  <2> QED
    BY <1>0, <1>9, <2>1, <2>2, <2>3, <2>4, <2>5, <2>6, <2>7, <2>8, <2>9, <2>10, <2>11 DEF Crash, TypeOK, SyncRecord, SaveRecord, EventRecord
<1>10. ASSUME NEW i \in Instances, Subscribe(i) PROVE TypeOK'
  <2>1. sync' \in [Instances -> SyncRecord]
    BY <1>3, <1>10, SyncUpdate, InboxUpdate DEF Subscribe, SyncTo, Places, Scopes
  <2> QED
    BY <1>0, <1>10, <2>1 DEF Subscribe, TypeOK, SyncRecord, SaveRecord, EventRecord
<1>11. ASSUME NEW i \in Instances, Receive(i) PROVE TypeOK'
  <2>1. sync' \in [Instances -> SyncRecord]
    <3>1. Head(inbox[i]).scope \in Scopes \cup {""} /\ "load" \in Places
      BY <1>3, <1>11, InboxUpdate DEF Receive, EventRecord, Places
    <3>2. [sync EXCEPT ![i] = [at |-> "load", scope |-> Head(inbox[i]).scope]] \in [Instances -> SyncRecord]
      BY <1>3, <3>1, SyncUpdate
    <3> QED
      BY <1>3, <1>11, <3>2 DEF Receive
  <2>2. inbox' \in [Instances -> Seq(EventRecord)]
    BY <1>3, <1>11, InboxUpdate DEF Receive
  <2> QED
    BY <1>0, <1>11, <2>1, <2>2 DEF Receive, TypeOK, SyncRecord, SaveRecord, EventRecord
<1>12. ASSUME NEW i \in Instances, Load(i) PROVE TypeOK'
  <2>1. loaded' \in [Instances -> [Fields -> Values]]
    BY <1>0, <1>2, <1>12, SettingTypes, ConfigAssumption DEF Load, TypeOK, NoRead
  <2>2. sync' \in [Instances -> SyncRecord]
    BY <1>3, <1>12, SyncUpdate, InboxUpdate DEF Load, SyncTo, Places, Scopes
  <2>3. missed' \in [Instances -> BOOLEAN]
    BY <1>0, <1>12, Zenon DEF Load, TypeOK
  <2> QED
    BY <1>0, <1>12, <2>1, <2>2, <2>3 DEF Load, TypeOK, SyncRecord, SaveRecord, EventRecord
<1>13. ASSUME NEW i \in Instances, SyncApplies(i) PROVE TypeOK'
  <2>1. active' \in [Instances -> [Fields -> Values]]
    BY <1>0, <1>3, <1>13, ActiveTypes, SettingTypes DEF SyncApplies, TypeOK, Values
  <2>2. sync' \in [Instances -> SyncRecord]
    BY <1>3, <1>13, SyncUpdate, InboxUpdate DEF SyncApplies, SyncTo, Places, Scopes
  <2> QED
    BY <1>0, <1>13, <2>1, <2>2 DEF SyncApplies, TypeOK, SyncRecord, SaveRecord, EventRecord
<1>14. ASSUME NEW i \in Instances, SyncSignals(i) PROVE TypeOK'
  <2>1. changed' \in [Instances -> BOOLEAN]
    BY <1>0, <1>14, Zenon DEF SyncSignals, TypeOK, Signal
  <2>2. sync' \in [Instances -> SyncRecord]
    BY <1>3, <1>14, SyncUpdate, InboxUpdate DEF SyncSignals, SyncTo, Places, Scopes
  <2>3. loaded' \in [Instances -> [Fields -> Values]]
    BY <1>0, <1>2, <1>14, SettingTypes, ConfigAssumption DEF SyncSignals, TypeOK, NoRead
  <2> QED
    BY <1>0, <1>14, <2>1, <2>2, <2>3 DEF SyncSignals, TypeOK, SyncRecord, SaveRecord, EventRecord
<1>15. ASSUME NEW i \in Instances, SyncSetsStrategy(i) PROVE TypeOK'
  <2>1. active' \in [Instances -> [Fields -> Values]]
    <3>1. loaded[i] \in [Fields -> Values] /\ Strategy \in Fields
      BY <1>0, SettingTypes DEF TypeOK
    <3>2. loaded[i][Strategy] \in Values
      BY <3>1
    <3> QED
      BY <1>0, <1>15, <3>1, <3>2, ActiveTypes DEF SyncSetsStrategy
  <2>2. sync' \in [Instances -> SyncRecord]
    BY <1>3, <1>15, SyncUpdate, InboxUpdate DEF SyncSetsStrategy, SyncTo, Places, Scopes
  <2>3. loaded' \in [Instances -> [Fields -> Values]]
    BY <1>0, <1>2, <1>15, SettingTypes, ConfigAssumption DEF SyncSetsStrategy, TypeOK, NoRead
  <2> QED
    BY <1>0, <1>15, <2>1, <2>2, <2>3 DEF SyncSetsStrategy, TypeOK, SyncRecord, SaveRecord, EventRecord
<1>16. ASSUME NEW i \in Instances, Disconnect(i) PROVE TypeOK'
  <2>1. sync' \in [Instances -> SyncRecord]
    BY <1>3, <1>16, SyncUpdate, InboxUpdate DEF Disconnect, SyncTo, Places, Scopes
  <2>2. inbox' \in [Instances -> Seq(EventRecord)]
    BY <1>3, <1>16, InboxUpdate DEF Disconnect
  <2>3. faults' \in 0..MaxFaults
    BY <1>1, <1>16 DEF Disconnect
  <2> QED
    BY <1>0, <1>16, <2>1, <2>2, <2>3 DEF Disconnect, TypeOK, SyncRecord, SaveRecord, EventRecord
<1>17. ASSUME NEW i \in Instances, LoadFails(i) PROVE TypeOK'
  <2>1. sync' \in [Instances -> SyncRecord]
    BY <1>3, <1>17, SyncUpdate, InboxUpdate DEF LoadFails, SyncTo, Places, Scopes
  <2>2. missed' \in [Instances -> BOOLEAN]
    BY <1>0, <1>17, Zenon DEF LoadFails, TypeOK
  <2>3. faults' \in 0..MaxFaults
    BY <1>1, <1>17 DEF LoadFails
  <2> QED
    BY <1>0, <1>17, <2>1, <2>2, <2>3 DEF LoadFails, TypeOK, SyncRecord, SaveRecord, EventRecord
<1>18. ASSUME NEW i \in Instances, Wake(i) PROVE TypeOK'
  <2>1. changed' \in [Instances -> BOOLEAN]
    BY <1>0, <1>18, Zenon DEF Wake, TypeOK
  <2>2. upkeep' \in [Instances -> {"waiting", "woken", "deleting"}]
    BY <1>0, <1>2, <1>18, SettingTypes, ConfigAssumption DEF Wake, TypeOK, NoRead
  <2> QED
    BY <1>0, <1>18, <2>1, <2>2 DEF Wake, TypeOK, SyncRecord, SaveRecord, EventRecord
<1>19. ASSUME NEW i \in Instances, ReadRetention(i) PROVE TypeOK'
  <2>1. used' \in [Instances -> Values]
    <3>1. active[i] \in [Fields -> Values] /\ Retention \in Fields
      BY <1>0, SettingTypes DEF TypeOK, Hot
    <3>2. active[i][Retention] \in Values
      BY <3>1
    <3> QED
      BY <1>0, <1>19, <3>2 DEF ReadRetention, TypeOK
  <2>2. upkeep' \in [Instances -> {"waiting", "woken", "deleting"}]
    BY <1>0, <1>2, <1>19, SettingTypes, ConfigAssumption DEF ReadRetention, TypeOK, NoRead
  <2> QED
    BY <1>0, <1>19, <2>1, <2>2 DEF ReadRetention, TypeOK, SyncRecord, SaveRecord, EventRecord
<1>20. ASSUME NEW i \in Instances, DeleteLogs(i) PROVE TypeOK'
  <2>1. upkeep' \in [Instances -> {"waiting", "woken", "deleting"}]
    BY <1>0, <1>2, <1>20, SettingTypes, ConfigAssumption DEF DeleteLogs, TypeOK, NoRead
  <2> QED
    BY <1>0, <1>20, <2>1 DEF DeleteLogs, TypeOK, SyncRecord, SaveRecord, EventRecord
<1>21. ASSUME NEW m \in Saves, BeginSave(m) PROVE TypeOK'
  <2>1. save' \in [Saves -> SaveRecord]
    <3>1. NoRead \in [Fields -> Values] /\ "save" \in SavePlaces
      BY SettingTypes DEF NoRead, SavePlaces
    <3>2. PICK f \in Patches[m] :
            save' = [save EXCEPT ![m] = [at |-> "save", field |-> f,
                       read |-> IF f = Strategy THEN NoRead ELSE Resolve(persisted)]]
      BY <1>21 DEF BeginSave
    <3>3. f \in Fields
      BY ConfigAssumption
    <3> QED
      BY <1>2, <1>3, <3>1, <3>2, <3>3, SaveUpdate
  <2> QED
    BY <1>0, <1>21, <2>1 DEF BeginSave, TypeOK, SyncRecord, SaveRecord, EventRecord
<1>22. ASSUME NEW m \in Saves, SaveRejected(m) PROVE TypeOK'
  <2>1. save' \in [Saves -> SaveRecord]
    <3>1. save' = [save EXCEPT ![m].at = "done", ![m].read = NoRead]
      BY <1>22 DEF SaveRejected
    <3> QED
      BY <1>3, <3>1, SaveEnds DEF SavePlaces
  <2> QED
    BY <1>0, <1>22, <2>1 DEF SaveRejected, TypeOK, SyncRecord, SaveRecord, EventRecord
<1>23. ASSUME NEW m \in Saves, SaveSettings(m) PROVE TypeOK'
  <2>1. DOMAIN persisted' \subseteq Fields /\ \A f \in DOMAIN persisted' : persisted'[f] \in Saves
    BY <1>0, <1>2, <1>3, <1>23 DEF SaveSettings, TypeOK
  <2>2. save' \in [Saves -> SaveRecord]
    <3> DEFINE place == IF save[m].field = Strategy THEN "strategy" ELSE "apply"
               patched == [save[m].read EXCEPT ![save[m].field] = m]
    <3>1. save' = [save EXCEPT ![m].at = place, ![m].read = patched]
      BY <1>23 DEF SaveSettings
    <3>2. place \in SavePlaces
      BY DEF SavePlaces
    <3>3. m \in Values
      BY DEF Values
    <3>4. patched \in [Fields -> Values]
      BY <1>3, <3>3
    <3> HIDE DEF place, patched
    <3> QED
      BY <1>3, <3>1, <3>2, <3>4, SaveUpdate
  <2> QED
    BY <1>0, <1>23, <2>1, <2>2 DEF SaveSettings, TypeOK, SyncRecord, SaveRecord, EventRecord
<1>24. ASSUME NEW m \in Saves, SaveApplies(m) PROVE TypeOK'
  <2>1. active' \in [Instances -> [Fields -> Values]]
    BY <1>0, <1>3, <1>24, ConfigAssumption, ActiveTypes, SettingTypes DEF SaveApplies, TypeOK, Values
  <2>2. save' \in [Saves -> SaveRecord]
    <3>1. save' = [save EXCEPT ![m].at = "signal", ![m].read = NoRead]
      BY <1>24 DEF SaveApplies
    <3> QED
      BY <1>3, <3>1, SaveEnds DEF SavePlaces
  <2> QED
    BY <1>0, <1>24, <2>1, <2>2 DEF SaveApplies, TypeOK, SyncRecord, SaveRecord, EventRecord
<1>25. ASSUME NEW m \in Saves, SaveSignals(m) PROVE TypeOK'
  <2>1. changed' \in [Instances -> BOOLEAN]
    BY <1>0, <1>25, Zenon DEF SaveSignals, TypeOK, Signal
  <2>2. save' \in [Saves -> SaveRecord]
    BY <1>2, <1>3, <1>25, SaveUpdate, SettingTypes DEF SaveSignals, GoTo, SavePlaces, NoRead, Values
  <2> QED
    BY <1>0, <1>25, <2>1, <2>2 DEF SaveSignals, TypeOK, SyncRecord, SaveRecord, EventRecord
<1>26. ASSUME NEW m \in Saves, SaveSetsStrategy(m) PROVE TypeOK'
  <2>1. active' \in [Instances -> [Fields -> Values]]
    BY <1>0, <1>3, <1>26, ConfigAssumption, ActiveTypes, SettingTypes DEF SaveSetsStrategy, TypeOK, Values
  <2>2. save' \in [Saves -> SaveRecord]
    BY <1>2, <1>3, <1>26, SaveUpdate, SettingTypes DEF SaveSetsStrategy, GoTo, SavePlaces, NoRead, Values
  <2> QED
    BY <1>0, <1>26, <2>1, <2>2 DEF SaveSetsStrategy, TypeOK, SyncRecord, SaveRecord, EventRecord
<1>27. ASSUME NEW m \in Saves, Notify(m) PROVE TypeOK'
  <2>1. inbox' \in [Instances -> Seq(EventRecord)]
    <3> DEFINE event == [source |-> Home[m], scope |-> ScopeOf(save[m].field)]
    <3>1. event \in EventRecord
      BY ConfigAssumption DEF EventRecord, ScopeOf, Scopes
    <3>2. inbox' = [i \in Instances |-> IF Subscribed(i) THEN Append(inbox[i], event) ELSE inbox[i]]
      BY <1>27 DEF Notify
    <3> HIDE DEF event
    <3>3. \A i \in Instances : inbox[i] \in Seq(EventRecord) /\ Append(inbox[i], event) \in Seq(EventRecord)
      BY <1>3, <3>1, AppendProperties
    <3> QED
      BY <3>2, <3>3
  <2>2. save' \in [Saves -> SaveRecord]
    BY <1>2, <1>3, <1>27, SaveUpdate, SettingTypes DEF Notify, GoTo, SavePlaces, NoRead, Values
  <2> QED
    BY <1>0, <1>27, <2>1, <2>2 DEF Notify, TypeOK, SyncRecord, SaveRecord, EventRecord
<1>28. ASSUME NEW m \in Saves, SaveFails(m) PROVE TypeOK'
  <2>1. save' \in [Saves -> SaveRecord]
    <3>1. save' = [save EXCEPT ![m].at = "done", ![m].read = NoRead]
      BY <1>28 DEF SaveFails
    <3> QED
      BY <1>3, <3>1, SaveEnds DEF SavePlaces
  <2>2. DOMAIN persisted' \subseteq Fields /\ \A f \in DOMAIN persisted' : persisted'[f] \in Saves
    BY <1>0, <1>2, <1>3, <1>28 DEF SaveFails, TypeOK
  <2>3. missed' \in [Instances -> BOOLEAN]
    BY <1>0, <1>28, Zenon DEF SaveFails, TypeOK
  <2>4. faults' \in 0..MaxFaults
    BY <1>1, <1>28 DEF SaveFails
  <2> QED
    BY <1>0, <1>28, <2>1, <2>2, <2>3, <2>4 DEF SaveFails, TypeOK, SyncRecord, SaveRecord, EventRecord
<1>29. ASSUME NEW m \in Saves, NotifyFails(m) PROVE TypeOK'
  <2>1. save' \in [Saves -> SaveRecord]
    <3>1. save' = [save EXCEPT ![m].at = "done", ![m].read = NoRead]
      BY <1>29 DEF NotifyFails
    <3> QED
      BY <1>3, <3>1, SaveEnds DEF SavePlaces
  <2>2. missed' \in [Instances -> BOOLEAN]
    BY <1>0, <1>29, Zenon DEF NotifyFails, TypeOK
  <2>3. faults' \in 0..MaxFaults
    BY <1>1, <1>29 DEF NotifyFails
  <2> QED
    BY <1>0, <1>29, <2>1, <2>2, <2>3 DEF NotifyFails, TypeOK, SyncRecord, SaveRecord, EventRecord
<1> QED
  BY <1>4, <1>5, <1>6, <1>7, <1>8, <1>9, <1>10, <1>11, <1>12, <1>13, <1>14, <1>15, <1>16, <1>17, <1>18, <1>19, <1>20, <1>21, <1>22, <1>23, <1>24, <1>25, <1>26, <1>27, <1>28, <1>29,
     NextCases DEF StartUp, Synchronize, Maintain, Saving, SaveStep

LEMMA TypeInit ==
  Init => TypeOK
<1> SUFFICES ASSUME Init PROVE TypeOK
  OBVIOUS
<1>1. /\ schema \in Seq(1..Migrations) /\ migrator \in Instances \cup {NoInstance}
      /\ boot \in [Instances -> Stages] /\ next \in [Instances -> 1..(Migrations + 1)] /\ faults \in 0..MaxFaults
  <2>1. schema \in Seq(1..Migrations)
    BY EmptySeq DEF Init
  <2>2. 1 \in 1..(Migrations + 1) /\ 0 \in 0..MaxFaults
    BY ConfigAssumption
  <2>3. next \in [Instances -> 1..(Migrations + 1)] /\ faults \in 0..MaxFaults
    BY <2>2 DEF Init
  <2> QED
    BY <2>1, <2>3 DEF Init, Stages
<1>2. /\ active \in [Instances -> [Fields -> Values]] /\ loaded \in [Instances -> [Fields -> Values]]
      /\ started \in [Instances -> Values] /\ used \in [Instances -> Values]
      /\ upkeep \in [Instances -> {"waiting", "woken", "deleting"}]
  BY SettingTypes DEF Init, NoRead
<1>3. changed \in [Instances -> BOOLEAN] /\ missed \in [Instances -> BOOLEAN]
  BY Zenon DEF Init
<1>4. sync \in [Instances -> SyncRecord]
  BY DEF Init, SyncRecord, Places
<1>5. inbox \in [Instances -> Seq(EventRecord)]
  BY EmptySeq DEF Init
<1>6. save \in [Saves -> SaveRecord]
  BY SettingTypes DEF Init, SaveRecord, SavePlaces, NoRead
<1>7. DOMAIN persisted \subseteq Fields /\ \A f \in DOMAIN persisted : persisted[f] \in Saves
  BY DEF Init
<1> QED
  BY <1>1, <1>2, <1>3, <1>4, <1>5, <1>6, <1>7 DEF TypeOK, SyncRecord, SaveRecord, EventRecord

LEMMA StartInductive ==
  Spec => []StartInv
<1>1. Init => StartInv
  <2> SUFFICES ASSUME Init PROVE Migrating /\ SchemaInOrder
    BY TypeInit DEF StartInv
  <2>1. Len(schema) = 0
    BY EmptySeq DEF Init
  <2>2. Migrating
    BY DEF Init, Migrating
  <2>3. SchemaInOrder
    <3>1. Len(schema) <= Migrations /\ \A n \in 1..Len(schema) : schema[n] = n
      BY <2>1, ConfigAssumption
    <3>2. \A i \in Instances : boot[i] = "down"
      BY DEF Init
    <3> QED
      BY <3>1, <3>2 DEF SchemaInOrder
  <2> QED
    BY <2>2, <2>3
<1>2. StartInv /\ [Next]_vars => StartInv'
  <2>1. CASE Next
    BY <2>1, StartStep, TypeStep DEF StartInv
  <2>2. CASE UNCHANGED vars
    BY <2>2 DEF vars, StartInv, TypeOK, Migrating, SchemaInOrder
  <2> QED
    BY <2>1, <2>2
<1> QED
  BY <1>1, <1>2, PTL DEF Spec

\* Instances that start against one database record every migration once and in order, none of them fails on
\* a version another has recorded, and none serves before all are recorded: Migrate's advisory lock, whatever
\* instance dies, and wherever (SchemaReady).
THEOREM SchemaIsReady ==
  Spec => []SchemaReady
<1>1. StartInv => SchemaReady
  BY DEF StartInv, SchemaInOrder, SchemaReady
<1> QED
  BY <1>1, StartInductive, PTL

----------------------------------------------------------------------------
(* A setting takes effect as its kind promises.                            *)

\* Both promises for one instance.
InEffect(i) ==
  boot[i] = "serving" =>
    /\ active[i][Base] = started[i]
    /\ used[i] # active[i][Retention] =>
         \/ changed[i] \/ upkeep[i] = "woken" \/ sync[i].at = "signal"
         \/ \E m \in Saves : Home[m] = i /\ save[m].at = "signal"

\* What one call of Apply or SetStrategy leaves alone.
LEMMA ActiveKept ==
  ASSUME TypeOK, NEW i \in Instances, NEW configured \in [Fields -> Values], NEW value \in Values
  PROVE  /\ Activate(i, configured) =>
              /\ \A j \in Instances \ {i} : active'[j] = active[j]
              /\ active'[i][Base] = active[i][Base] /\ active'[i][Strategy] = active[i][Strategy]
              /\ \A f \in Hot : active'[i][f] = configured[f]
         /\ SetStrategy(i, value) =>
              /\ \A j \in Instances \ {i} : active'[j] = active[j]
              /\ active'[i][Base] = active[i][Base] /\ active'[i][Strategy] = value
              /\ \A f \in Hot : active'[i][f] = active[i][f]
<1>1. active \in [Instances -> [Fields -> Values]] /\ Hot \subseteq Fields
  BY DEF TypeOK, Hot
<1> QED
  BY <1>1, SettingTypes, ConfigAssumption DEF Activate, SetStrategy

LEMMA SettingsStep ==
  ASSUME TypeOK, Next, NEW j \in Instances, InEffect(j)
  PROVE  InEffect(j)'
<1> USE DEF startVars
<1>0. /\ active \in [Instances -> [Fields -> Values]] /\ started \in [Instances -> Values]
      /\ used \in [Instances -> Values] /\ upkeep \in [Instances -> {"waiting", "woken", "deleting"}]
      /\ sync \in [Instances -> SyncRecord] /\ save \in [Saves -> SaveRecord]
      /\ loaded \in [Instances -> [Fields -> Values]] /\ boot \in [Instances -> Stages]
      /\ DOMAIN changed = Instances /\ Saves \subseteq Values
      /\ Retention \in Fields /\ Base \in Fields /\ Strategy \in Fields /\ Home \in [Saves -> Instances]
  BY ConfigAssumption, SettingTypes DEF TypeOK, SyncRecord, SaveRecord, Hot, Values
<1>1. ASSUME NEW i \in Instances, StartUp(i) PROVE InEffect(j)'
  BY <1>0, <1>1 DEF StartUp, LockMigrations, CheckMigration, ApplyMigration, UnlockMigrations, InEffect
<1>2. ASSUME NEW i \in Instances, Serve(i) PROVE InEffect(j)'
  BY <1>0, <1>2 DEF Serve, InEffect
<1>3. ASSUME NEW i \in Instances, Crash(i) PROVE InEffect(j)'
  BY <1>0, <1>3 DEF Crash, InEffect
<1>4. ASSUME NEW i \in Instances, Subscribe(i) PROVE InEffect(j)'
  BY <1>0, <1>4 DEF Subscribe, InEffect
<1>5. ASSUME NEW i \in Instances, Disconnect(i) PROVE InEffect(j)'
  BY <1>0, <1>5 DEF Disconnect, InEffect
<1>6. ASSUME NEW i \in Instances, Receive(i) PROVE InEffect(j)'
  BY <1>0, <1>6 DEF Receive, InEffect
<1>7. ASSUME NEW i \in Instances, Load(i) PROVE InEffect(j)'
  BY <1>0, <1>7 DEF Load, SyncTo, InEffect
<1>8. ASSUME NEW i \in Instances, LoadFails(i) PROVE InEffect(j)'
  BY <1>0, <1>8 DEF LoadFails, SyncTo, InEffect
<1>9. ASSUME NEW i \in Instances, SyncApplies(i) PROVE InEffect(j)'
  <2>1. /\ \A k \in Instances \ {i} : active'[k] = active[k]
        /\ active'[i][Base] = active[i][Base]
    BY <1>0, <1>9, ActiveKept, SettingTypes DEF SyncApplies
  <2>2. sync'[i].at = "signal" /\ \A k \in Instances \ {i} : sync'[k] = sync[k]
    BY <1>0, <1>9 DEF SyncApplies, SyncTo, SyncRecord
  <2> QED
    BY <1>9, <2>1, <2>2 DEF SyncApplies, InEffect
<1>10. ASSUME NEW i \in Instances, SyncSignals(i) PROVE InEffect(j)'
  <2>1. changed'[i] /\ \A k \in Instances \ {i} : changed'[k] = changed[k] /\ sync'[k] = sync[k]
    BY <1>0, <1>10 DEF SyncSignals, Signal, SyncTo
  <2> QED
    BY <1>10, <2>1 DEF SyncSignals, InEffect
<1>11. ASSUME NEW i \in Instances, SyncSetsStrategy(i) PROVE InEffect(j)'
  <2>1. loaded[i][Strategy] \in Values
    BY <1>0
  <2>2. /\ \A k \in Instances \ {i} : active'[k] = active[k]
        /\ active'[i][Base] = active[i][Base] /\ active'[i][Retention] = active[i][Retention]
    BY <1>0, <1>11, <2>1, ActiveKept, SettingTypes DEF SyncSetsStrategy
  <2>3. sync[i].at # "signal" /\ \A k \in Instances \ {i} : sync'[k] = sync[k]
    BY <1>0, <1>11 DEF SyncSetsStrategy, SyncTo
  <2> QED
    BY <1>11, <2>2, <2>3 DEF SyncSetsStrategy, InEffect
<1>12. ASSUME NEW i \in Instances, Maintain(i) PROVE InEffect(j)'
  BY <1>0, <1>12 DEF Maintain, Wake, ReadRetention, DeleteLogs, InEffect
<1>13. ASSUME NEW m \in Saves, BeginSave(m) \/ SaveRejected(m) \/ SaveSettings(m) \/ Notify(m)
                                \/ SaveFails(m) \/ NotifyFails(m)
       PROVE  InEffect(j)'
  <2>1. save[m].at # "signal" /\ \A k \in Saves \ {m} : save'[k] = save[k]
    BY <1>0, <1>13 DEF BeginSave, SaveRejected, SaveSettings, Notify, SaveFails, NotifyFails, GoTo
  <2>2. UNCHANGED <<boot, active, started, used, changed, upkeep, sync>>
    BY <1>13 DEF BeginSave, SaveRejected, SaveSettings, Notify, SaveFails, NotifyFails
  <2> QED
    BY <2>1, <2>2 DEF InEffect
<1>14. ASSUME NEW m \in Saves, SaveApplies(m) PROVE InEffect(j)'
  <2>1. save[m].read \in [Fields -> Values] /\ Home[m] \in Instances
    BY <1>0 DEF SaveRecord
  <2>2. /\ \A k \in Instances \ {Home[m]} : active'[k] = active[k]
        /\ active'[Home[m]][Base] = active[Home[m]][Base]
    BY <1>0, <1>14, <2>1, ActiveKept, SettingTypes DEF SaveApplies
  <2>3. save'[m].at = "signal" /\ \A k \in Saves \ {m} : save'[k] = save[k]
    BY <1>0, <1>14 DEF SaveApplies, SaveRecord
  <2> QED
    BY <1>14, <2>2, <2>3 DEF SaveApplies, InEffect
<1>15. ASSUME NEW m \in Saves, SaveSignals(m) PROVE InEffect(j)'
  <2>1. changed'[Home[m]] /\ \A k \in Instances \ {Home[m]} : changed'[k] = changed[k]
    BY <1>0, <1>15 DEF SaveSignals, Signal
  <2>2. \A k \in Saves \ {m} : save'[k] = save[k]
    BY <1>0, <1>15 DEF SaveSignals, GoTo
  <2> QED
    BY <1>15, <2>1, <2>2 DEF SaveSignals, InEffect
<1>16. ASSUME NEW m \in Saves, SaveSetsStrategy(m) PROVE InEffect(j)'
  <2>1. m \in Values /\ Home[m] \in Instances
    BY <1>0
  <2>2. /\ \A k \in Instances \ {Home[m]} : active'[k] = active[k]
        /\ active'[Home[m]][Base] = active[Home[m]][Base]
        /\ active'[Home[m]][Retention] = active[Home[m]][Retention]
    BY <1>0, <1>16, <2>1, ActiveKept, SettingTypes DEF SaveSetsStrategy
  <2>3. save[m].at # "signal" /\ \A k \in Saves \ {m} : save'[k] = save[k]
    BY <1>0, <1>16 DEF SaveSetsStrategy, GoTo
  <2> QED
    BY <1>16, <2>2, <2>3 DEF SaveSetsStrategy, InEffect
<1> QED
  BY <1>1, <1>2, <1>3, <1>4, <1>5, <1>6, <1>7, <1>8, <1>9, <1>10, <1>11, <1>12, <1>13, <1>14, <1>15, <1>16,
     NextCases DEF Synchronize, Saving, SaveStep

\* A retention that Apply stored reaches the clean-up loop, whose one-element channel is never left empty while it
\* has not been used, and a restart-only setting keeps the value its consumers were built with (SettingsTakeEffect).
THEOREM SettingsAreInEffect ==
  Spec => []SettingsTakeEffect
<1> DEFINE Inv == \A j \in Instances : InEffect(j)
<1>1. Init => Inv
  BY DEF Init, InEffect
<1>2. StartInv /\ Inv /\ [Next]_vars => Inv'
  <2>1. CASE Next
    BY <2>1, SettingsStep DEF StartInv
  <2>2. CASE UNCHANGED vars
    BY <2>2 DEF vars, InEffect
  <2> QED
    BY <2>1, <2>2
<1>3. StartInv /\ Inv => SettingsTakeEffect
  BY DEF StartInv, InEffect, SettingsTakeEffect, RetentionNotLost, RestartFieldsStable
<1> QED
  BY <1>1, <1>2, <1>3, StartInductive, PTL DEF Spec

----------------------------------------------------------------------------
(* Peers converge.                                                         *)

\* The row is stored and the notification is not sent.
Published == {"apply", "signal", "strategy", "notify"}

\* A change of f is on its way to i.
Coming(i, f) ==
  \/ \E m \in Saves : save[m].at \in Published /\ ScopeOf(save[m].field) = ScopeOf(f)
  \/ \E n \in 1..Len(inbox[i]) : inbox[i][n].source # i /\ inbox[i][n].scope = ScopeOf(f)
  \/ sync[i].at = "load" /\ sync[i].scope \in {"", ScopeOf(f)}
  \/ ~Subscribed(i)

\* The reload under way has yet to apply f.
ToApply(i, f) ==
  IF f = Strategy THEN \/ sync[i].at = "strategy"
                       \/ sync[i].scope = "" /\ sync[i].at \in {"apply", "signal"}
                  ELSE sync[i].at = "apply"

Current(i, f) ==
  IF ToApply(i, f) THEN loaded[i][f] = Resolve(persisted)[f] ELSE active[i][f] = Resolve(persisted)[f]

\* An instance that has served no save and missed no change uses the stored value or will be told.
Followed(i, f) == ServedNoSave(i) /\ ~missed[i] => Coming(i, f) \/ Current(i, f)

\* A save never becomes idle again, so an instance that has served none so far had served none before.
LEMMA StillNoSave ==
  ASSUME TypeOK, Next, NEW i \in Instances, ServedNoSave(i)'
  PROVE  ServedNoSave(i)
<1> USE DEF startVars
<1>1. save \in [Saves -> SaveRecord]
  BY DEF TypeOK, SaveRecord
<1>2. CASE UNCHANGED save
  BY <1>2 DEF ServedNoSave
<1>3. ASSUME NEW j \in Instances, Crash(j) PROVE ServedNoSave(i)
  BY <1>1, <1>3 DEF Crash, ServedNoSave, SaveRecord
<1>4. ASSUME NEW m \in Saves, Saving(m) PROVE ServedNoSave(i)
  <2>1. save'[m].at # "idle" /\ \A k \in Saves \ {m} : save'[k] = save[k]
    BY <1>1, <1>4 DEF Saving, SaveStep, BeginSave, SaveRejected, SaveSettings, SaveApplies, SaveSignals,
                      SaveSetsStrategy, Notify, SaveFails, NotifyFails, GoTo, SaveRecord
  <2> QED
    BY <2>1 DEF ServedNoSave
<1>5. ASSUME NEW j \in Instances, StartUp(j) \/ Serve(j) \/ Synchronize(j) \/ Maintain(j) PROVE UNCHANGED save
  BY <1>5 DEF StartUp, LockMigrations, CheckMigration, ApplyMigration, UnlockMigrations, Serve, Synchronize, Subscribe,
              Receive, Load, SyncApplies, SyncSignals, SyncSetsStrategy, Disconnect, LoadFails, Maintain, Wake,
              ReadRetention, DeleteLogs
<1> QED
  BY <1>2, <1>3, <1>4, <1>5, NextCases

\* A step that touches nothing of this.
LEMMA FollowedFrame ==
  ASSUME NEW i \in Instances, NEW f \in Fields, Followed(i, f), ServedNoSave(i)' => ServedNoSave(i),
         UNCHANGED persisted, active'[i] = active[i], sync'[i] = sync[i], loaded'[i] = loaded[i],
         inbox'[i] = inbox[i], ~missed'[i] => ~missed[i],
         \A m \in Saves : save[m].at \in Published => save'[m].at \in Published /\ save'[m].field = save[m].field
  PROVE  Followed(i, f)'
  BY DEF Followed, Coming, Current, ToApply, Subscribed

\* The steps of a save, seen from an instance that serves none.
LEMMA SavingFollowed ==
  ASSUME TypeOK, Next, NEW m \in Saves, Saving(m), NEW i \in Instances, NEW f \in Hot \cup {Strategy},
         Followed(i, f)
  PROVE  Followed(i, f)'
<1> USE DEF startVars
<1>0. /\ active \in [Instances -> [Fields -> Values]] /\ save \in [Saves -> SaveRecord]
      /\ inbox \in [Instances -> Seq(EventRecord)] /\ Saves \subseteq Values
      /\ Strategy \in Fields /\ Home[m] \in Instances /\ f \in Fields /\ save[m].field \in Fields
      /\ save[m].read \in [Fields -> Values]
  BY ConfigAssumption, SettingTypes DEF TypeOK, SyncRecord, SaveRecord, EventRecord, Hot, Values
<1> SUFFICES ASSUME ServedNoSave(i)', ~missed'[i] PROVE Coming(i, f)' \/ Current(i, f)'
  BY DEF Followed
<1>1. ServedNoSave(i)
  BY StillNoSave
<1>2. Home[m] # i
  <2>1. save'[m].at # "idle"
    BY <1>0 DEF Saving, SaveStep, BeginSave, SaveRejected, SaveSettings, SaveApplies, SaveSignals,
                SaveSetsStrategy, Notify, SaveFails, NotifyFails, GoTo, SaveRecord
  <2> QED
    BY <2>1 DEF ServedNoSave
<1>3. active'[i] = active[i]
  <2>1. CASE SaveApplies(m)
    BY <1>0, <1>2, <2>1, ActiveKept DEF SaveApplies
  <2>2. CASE SaveSetsStrategy(m)
    BY <1>0, <1>2, <2>2, ActiveKept DEF SaveSetsStrategy
  <2> QED
    BY <2>1, <2>2 DEF Saving, SaveStep, BeginSave, SaveRejected, SaveSettings, SaveSignals, Notify, SaveFails, NotifyFails
<1>4. UNCHANGED <<sync, loaded>> /\ \A k \in Saves \ {m} : save'[k] = save[k]
  BY <1>0 DEF Saving, SaveStep, BeginSave, SaveRejected, SaveSettings, SaveApplies, SaveSignals,
              SaveSetsStrategy, Notify, SaveFails, NotifyFails, GoTo
<1>5. CASE BeginSave(m) \/ SaveRejected(m) \/ SaveApplies(m) \/ SaveSignals(m) \/ SaveSetsStrategy(m)
  <2>1. save[m].at \in Published => save'[m].at \in Published /\ save'[m].field = save[m].field
    BY <1>0, <1>5 DEF BeginSave, SaveRejected, SaveApplies, SaveSignals, SaveSetsStrategy, GoTo, SaveRecord, Published
  <2>2. UNCHANGED <<persisted, inbox, missed>>
    BY <1>5 DEF BeginSave, SaveRejected, SaveApplies, SaveSignals, SaveSetsStrategy
  <2>3. Followed(i, f)'
    BY <1>0, <1>1, <1>3, <1>4, <2>1, <2>2, FollowedFrame
  <2> QED
    BY <2>3 DEF Followed
<1>6. CASE SaveSettings(m)
  <2>1. save'[m].at \in Published /\ save'[m].field = save[m].field /\ save[m].at \notin Published
    BY <1>0, <1>6 DEF SaveSettings, SaveRecord, Published
  <2>2. CASE save[m].field = f
    BY <2>1, <2>2 DEF Coming
  <2>3. CASE save[m].field # f
    <3>1. Resolve(persisted')[f] = Resolve(persisted)[f]
      BY <1>0, <1>6, <2>3, MergeResolves DEF SaveSettings
    <3>2. UNCHANGED <<inbox, missed>>
      BY <1>6 DEF SaveSettings
    <3>3. Coming(i, f) => Coming(i, f)'
      BY <1>4, <2>1, <3>2 DEF Coming, Subscribed
    <3>4. Current(i, f) => Current(i, f)'
      BY <1>3, <1>4, <3>1 DEF Current, ToApply
    <3> QED
      BY <1>1, <3>2, <3>3, <3>4 DEF Followed
  <2> QED
    BY <2>2, <2>3
<1>7. CASE Notify(m)
  <2> DEFINE event == [source |-> Home[m], scope |-> ScopeOf(save[m].field)]
  <2>1. /\ UNCHANGED <<persisted, missed>>
        /\ inbox' = [j \in Instances |-> IF Subscribed(j) THEN Append(inbox[j], event) ELSE inbox[j]]
    BY <1>7 DEF Notify
  <2>2. event.source = Home[m] /\ event.scope = ScopeOf(save[m].field) /\ event \in EventRecord
    BY <1>0 DEF EventRecord, ScopeOf, Scopes
  <2> HIDE DEF event
  <2>3. CASE ~Subscribed(i)
    BY <1>4, <2>3 DEF Subscribed, Coming
  <2>4. CASE Subscribed(i)
    <3>1. /\ Len(inbox'[i]) = Len(inbox[i]) + 1 /\ Len(inbox[i]) \in Nat
          /\ inbox'[i][Len(inbox[i]) + 1] = event
          /\ \A n \in 1..Len(inbox[i]) : inbox'[i][n] = inbox[i][n]
      BY <1>0, <2>1, <2>2, <2>4, AppendProperties, LenProperties
    <3>2. ScopeOf(save[m].field) = ScopeOf(f) => Coming(i, f)'
      <4> SUFFICES ASSUME ScopeOf(save[m].field) = ScopeOf(f)
                   PROVE  \E n \in 1..Len(inbox'[i]) : inbox'[i][n].source # i /\ inbox'[i][n].scope = ScopeOf(f)
        BY DEF Coming, ScopeOf
      <4>1. Len(inbox[i]) + 1 \in 1..Len(inbox'[i])
        BY <3>1
      <4> WITNESS Len(inbox[i]) + 1 \in 1..Len(inbox'[i])
      <4> QED
        BY <1>2, <2>2, <3>1
    <3>3. Coming(i, f) => Coming(i, f)'
      <4>1. ASSUME NEW n \in 1..Len(inbox[i]), inbox[i][n].source # i, inbox[i][n].scope = ScopeOf(f)
            PROVE  Coming(i, f)'
        <5>1. n \in 1..Len(inbox'[i]) /\ inbox'[i][n] = inbox[i][n]
          BY <3>1
        <5> QED
          BY <4>1, <5>1 DEF Coming, ScopeOf
      <4> QED
        BY <1>4, <2>4, <3>2, <4>1 DEF Coming, Subscribed, ScopeOf
    <3>4. Current(i, f) => Current(i, f)'
      BY <1>3, <1>4, <2>1 DEF Current, ToApply
    <3> QED
      BY <1>1, <2>1, <3>3, <3>4 DEF Followed
  <2> QED
    BY <2>3, <2>4
<1>8. CASE SaveFails(m)
  <2>1. UNCHANGED <<persisted, missed, inbox>> /\ save[m].at \notin Published
    BY <1>8 DEF SaveFails, Published
  <2>2. Followed(i, f)'
    BY <1>0, <1>1, <1>3, <1>4, <2>1, FollowedFrame
  <2> QED
    BY <2>2 DEF Followed
<1>9. CASE NotifyFails(m)
  BY <1>2, <1>9 DEF NotifyFails
<1> QED
  BY <1>5, <1>6, <1>7, <1>8, <1>9 DEF Saving, SaveStep

\* A notification that is received is another one's, and is reloaded for, or it was not the one f waits for.
LEMMA ReceiveFollowed ==
  ASSUME TypeOK, NEW i \in Instances, NEW f \in Hot \cup {Strategy}, Receive(i), Followed(i, f)
  PROVE  Followed(i, f)'
<1> USE DEF startVars
<1> SUFFICES ASSUME ServedNoSave(i)', ~missed'[i] PROVE Coming(i, f)' \/ Current(i, f)'
  BY DEF Followed
<1>0. /\ sync \in [Instances -> SyncRecord] /\ inbox[i] \in Seq(EventRecord) /\ inbox[i] # <<>>
      /\ DOMAIN inbox = Instances /\ sync[i].at = "consume"
  BY DEF TypeOK, SyncRecord, EventRecord, Receive
<1>1. UNCHANGED <<persisted, active, loaded, save, missed>> /\ inbox'[i] = Tail(inbox[i])
  BY <1>0 DEF Receive
<1>2. Coming(i, f) \/ active[i][f] = Resolve(persisted)[f]
  BY <1>0, <1>1 DEF Followed, ServedNoSave, Current, ToApply
<1>3. CASE active[i][f] = Resolve(persisted)[f]
  <2>1. sync'[i].at \in {"consume", "load"}
    BY <1>0 DEF Receive
  <2> QED
    BY <1>1, <1>3, <2>1 DEF Current, ToApply
<1>4. CASE \E m \in Saves : save[m].at \in Published /\ ScopeOf(save[m].field) = ScopeOf(f)
  BY <1>1, <1>4 DEF Coming
<1>5. ASSUME NEW n \in 1..Len(inbox[i]), inbox[i][n].source # i, inbox[i][n].scope = ScopeOf(f)
      PROVE  Coming(i, f)'
  <2>1. /\ Len(inbox[i]) \in Nat /\ Head(inbox[i]) = inbox[i][1] /\ Len(Tail(inbox[i])) = Len(inbox[i]) - 1
        /\ \A k \in 1..Len(Tail(inbox[i])) : Tail(inbox[i])[k] = inbox[i][k + 1]
    BY <1>0, HeadTailProperties, LenProperties
  <2>2. CASE n = 1
    <3>1. sync' = [sync EXCEPT ![i] = [at |-> "load", scope |-> Head(inbox[i]).scope]]
      BY <1>5, <2>1, <2>2 DEF Receive
    <3>2. sync'[i].at = "load" /\ sync'[i].scope = ScopeOf(f)
      BY <1>0, <1>5, <2>1, <2>2, <3>1
    <3> QED
      BY <3>2 DEF Coming, ScopeOf
  <2>3. CASE n # 1
    <3>1. n - 1 \in 1..Len(inbox'[i]) /\ inbox'[i][n - 1] = inbox[i][n]
      BY <1>1, <2>1, <2>3
    <3> QED
      BY <1>5, <3>1 DEF Coming, ScopeOf
  <2> QED
    BY <2>2, <2>3
<1> QED
  BY <1>0, <1>2, <1>3, <1>4, <1>5 DEF Coming, Subscribed

LEMMA FollowedStep ==
  ASSUME TypeOK, Next, \A i \in Instances, f \in Hot \cup {Strategy} : Followed(i, f)
  PROVE  \A i \in Instances, f \in Hot \cup {Strategy} : Followed(i, f)'
<1> USE DEF startVars
<1> TAKE i \in Instances, f \in Hot \cup {Strategy}
<1>0. /\ active \in [Instances -> [Fields -> Values]] /\ loaded \in [Instances -> [Fields -> Values]]
      /\ sync \in [Instances -> SyncRecord] /\ save \in [Saves -> SaveRecord] /\ DOMAIN inbox = Instances
      /\ DOMAIN missed = Instances /\ f \in Fields /\ Strategy \in Fields /\ Followed(i, f)
      /\ Hot \subseteq Fields /\ Strategy \notin Hot
      /\ ServedNoSave(i)' => ServedNoSave(i)
  BY SettingTypes, StillNoSave DEF TypeOK, SyncRecord, SaveRecord, Hot
<1>1. ASSUME NEW j \in Instances, StartUp(j) \/ Maintain(j) PROVE Followed(i, f)'
  <2>1. UNCHANGED <<persisted, active, sync, loaded, inbox, missed, save>>
    BY <1>1 DEF StartUp, LockMigrations, CheckMigration, ApplyMigration, UnlockMigrations, Maintain, Wake,
                ReadRetention, DeleteLogs
  <2> QED
    BY <1>0, <2>1, FollowedFrame
<1>2. ASSUME Crash(i) \/ Serve(i) \/ Disconnect(i) PROVE Followed(i, f)'
  <2>1. sync'[i].at \in {"off", "subscribe"}
    <3>1. CASE Crash(i)
      BY <1>0, <3>1 DEF Crash
    <3>2. CASE Serve(i)
      BY <1>0, <3>2 DEF Serve
    <3>3. CASE Disconnect(i)
      BY <1>0, <3>3 DEF Disconnect
    <3> QED
      BY <1>2, <3>1, <3>2, <3>3
  <2> QED
    BY <2>1 DEF Followed, Coming, Subscribed
<1>3. ASSUME NEW j \in Instances \ {i}, Crash(j) PROVE Followed(i, f)'
  <2> SUFFICES ASSUME ~missed'[i] PROVE Followed(i, f)'
    BY DEF Followed
  <2>1. ~missed[i] /\ \A m \in Saves : Home[m] = j => save[m].at \notin Published
    BY <1>3 DEF Crash, Published
  <2>2. \A m \in Saves : save[m].at \in Published => save'[m] = save[m]
    BY <1>3, <2>1 DEF Crash
  <2>3. /\ UNCHANGED persisted
        /\ active'[i] = active[i] /\ sync'[i] = sync[i] /\ loaded'[i] = loaded[i] /\ inbox'[i] = inbox[i]
    BY <1>0, <1>3 DEF Crash
  <2> QED
    BY <1>0, <2>1, <2>2, <2>3, FollowedFrame
<1>4. ASSUME NEW j \in Instances \ {i}, Synchronize(j) \/ Serve(j) PROVE Followed(i, f)'
  <2>1. UNCHANGED <<persisted, save>> /\ inbox'[i] = inbox[i] /\ missed'[i] = missed[i] /\ loaded'[i] = loaded[i]
        /\ sync'[i] = sync[i]
    BY <1>0, <1>4 DEF Synchronize, Serve, Subscribe, Receive, Load, SyncApplies, SyncSignals, SyncSetsStrategy,
                      Disconnect, LoadFails, SyncTo
  <2>2. active'[i] = active[i]
    BY <1>0, <1>4 DEF Synchronize, Serve, Subscribe, Receive, Load, SyncApplies, SyncSignals, SyncSetsStrategy,
                      Disconnect, LoadFails, Activate, SetStrategy
  <2> QED
    BY <1>0, <2>1, <2>2, FollowedFrame
<1>5. ASSUME Subscribe(i) PROVE Followed(i, f)'
  <2>1. sync'[i].at = "load" /\ sync'[i].scope = ""
    BY <1>0, <1>5 DEF Subscribe
  <2> QED
    BY <2>1 DEF Followed, Coming
<1>6. ASSUME Receive(i) PROVE Followed(i, f)'
  BY <1>0, <1>6, ReceiveFollowed
<1>7. ASSUME LoadFails(i) PROVE Followed(i, f)'
  BY <1>0, <1>7 DEF LoadFails, Followed
\* The part of Coming that a reload does not touch, and what a reload of i leaves alone.
<1> DEFINE Elsewhere ==
      \/ \E m \in Saves : save[m].at \in Published /\ ScopeOf(save[m].field) = ScopeOf(f)
      \/ \E n \in 1..Len(inbox[i]) : inbox[i][n].source # i /\ inbox[i][n].scope = ScopeOf(f)
<1>8. UNCHANGED <<save, inbox>> /\ Elsewhere => Coming(i, f)'
  BY DEF Coming, ScopeOf
<1> HIDE DEF Elsewhere
<1>9. Coming(i, f) => Elsewhere \/ (sync[i].at = "load" /\ sync[i].scope \in {"", ScopeOf(f)})
                                \/ sync[i].at \in {"off", "subscribe"}
  BY DEF Coming, Elsewhere, Subscribed
<1>10. ASSUME Load(i) PROVE Followed(i, f)'
  <2> SUFFICES ASSUME ServedNoSave(i)', ~missed'[i], ~Elsewhere PROVE Current(i, f)'
    BY <1>8, <1>10 DEF Followed, Load
  <2>1. /\ UNCHANGED <<persisted, active>> /\ loaded'[i] = Resolve(persisted) /\ sync'[i].scope = sync[i].scope
        /\ sync[i].at = "load" /\ sync[i].scope \in {"", "account_strategy", "runtime_settings"}
        /\ sync'[i].at = IF sync[i].scope = "account_strategy" THEN "strategy" ELSE "apply"
    BY <1>0, <1>10 DEF Load, SyncTo, SyncRecord, Scopes
  <2>2. CASE sync[i].scope = ""
    BY <1>0, <2>1, <2>2 DEF Current, ToApply
  <2>3. CASE sync[i].scope # "" /\ ScopeOf(f) = sync[i].scope
    BY <1>0, <2>1, <2>3 DEF Current, ToApply, ScopeOf
  <2>4. CASE sync[i].scope # "" /\ ScopeOf(f) # sync[i].scope
    <3>1. ~missed[i]
      BY <1>0, <1>10, <2>4 DEF Load
    <3>2. Current(i, f)
      BY <1>0, <1>9, <2>1, <2>4, <3>1 DEF Followed
    <3> QED
      BY <1>0, <2>1, <2>4, <3>2 DEF Current, ToApply, ScopeOf
  <2> QED
    BY <2>2, <2>3, <2>4
<1>11. ASSUME SyncApplies(i) \/ SyncSignals(i) \/ SyncSetsStrategy(i) PROVE Followed(i, f)'
  <2> SUFFICES ASSUME ServedNoSave(i)', ~missed'[i], ~Elsewhere PROVE Current(i, f)'
    BY <1>8, <1>11 DEF Followed, SyncApplies, SyncSignals, SyncSetsStrategy
  <2>1. /\ UNCHANGED <<persisted, missed>> /\ sync'[i].scope = sync[i].scope
        /\ sync[i].at \in {"apply", "signal", "strategy"}
    <3>1. \E p \in Places : sync' = [sync EXCEPT ![i].at = p]
      BY <1>11 DEF SyncApplies, SyncSignals, SyncSetsStrategy, SyncTo, Places
    <3>2. sync'[i].scope = sync[i].scope
      BY <1>0, <3>1 DEF SyncRecord
    <3> QED
      BY <1>11, <3>2 DEF SyncApplies, SyncSignals, SyncSetsStrategy
  <2>2. Current(i, f)
    BY <1>0, <1>9, <2>1 DEF Followed
  <2>3. CASE SyncApplies(i)
    <3>1. sync[i].at = "apply" /\ sync'[i].at = "signal" /\ UNCHANGED loaded
      BY <1>0, <2>3 DEF SyncApplies, SyncTo, SyncRecord
    <3>2. /\ active'[i][Strategy] = active[i][Strategy] /\ \A g \in Hot : active'[i][g] = loaded[i][g]
      BY <1>0, <2>3, ActiveKept, SettingTypes DEF SyncApplies
    <3> QED
      BY <1>0, <2>1, <2>2, <3>1, <3>2 DEF Current, ToApply
  <2>4. CASE SyncSignals(i)
    <3>1. /\ sync[i].at = "signal" /\ sync'[i].at = IF sync[i].scope = "" THEN "strategy" ELSE "consume"
          /\ UNCHANGED active /\ (sync[i].scope = "" => UNCHANGED loaded)
      BY <1>0, <2>4 DEF SyncSignals, SyncTo, SyncRecord
    <3> QED
      BY <1>0, <2>1, <2>2, <3>1 DEF Current, ToApply
  <2>5. CASE SyncSetsStrategy(i)
    <3>0. loaded[i][Strategy] \in Values
      BY <1>0
    <3>1. sync[i].at = "strategy" /\ sync'[i].at = "consume"
      BY <1>0, <2>5 DEF SyncSetsStrategy, SyncTo, SyncRecord
    <3>2. /\ active'[i][Strategy] = loaded[i][Strategy] /\ \A g \in Hot : active'[i][g] = active[i][g]
      BY <1>0, <2>5, <3>0, ActiveKept, SettingTypes DEF SyncSetsStrategy
    <3> QED
      BY <1>0, <2>1, <2>2, <3>1, <3>2 DEF Current, ToApply
  <2> QED
    BY <1>11, <2>3, <2>4, <2>5
<1>12. ASSUME NEW m \in Saves, Saving(m) PROVE Followed(i, f)'
  BY <1>0, <1>12, SavingFollowed
<1> QED
  BY <1>1, <1>2, <1>3, <1>4, <1>5, <1>6, <1>7, <1>10, <1>11, <1>12, NextCases DEF Synchronize

\* An instance that has served no save and missed no change, has handled its notifications and has no save to wait
\* for uses the stored value of every setting that needs no restart: Run subscribes before it reloads (PeersConverge).
THEOREM PeersDoConverge ==
  Spec => []PeersConverge
<1> DEFINE Inv == \A i \in Instances, f \in Hot \cup {Strategy} : Followed(i, f)
<1>1. Init => Inv
  <2>1. Init => \A i \in Instances : sync[i].at = "off"
    <3> SUFFICES ASSUME Init, NEW i \in Instances PROVE sync[i].at = "off"
      OBVIOUS
    <3> QED
      BY DEF Init
  <2> QED
    BY <2>1 DEF Followed, Coming, Subscribed
<1>2. StartInv /\ Inv /\ [Next]_vars => Inv'
  <2>1. CASE Next
    BY <2>1, FollowedStep DEF StartInv
  <2>2. CASE UNCHANGED vars
    BY <2>2 DEF vars, Followed, Coming, Current, ToApply, Subscribed, ServedNoSave
  <2> QED
    BY <2>1, <2>2
<1>3. StartInv /\ Inv => PeersConverge
  <2> SUFFICES ASSUME StartInv, Inv, NEW i \in Instances, ~Busy, Listening(i), ServedNoSave(i), ~missed[i],
                      NEW f \in Hot \cup {Strategy}
               PROVE  active[i][f] = Resolve(persisted)[f]
    BY DEF PeersConverge
  <2>1. Coming(i, f) \/ Current(i, f)
    BY DEF Followed
  <2>2. Len(inbox[i]) = 0 /\ sync[i].at = "consume"
    BY EmptySeq DEF Listening
  <2>3. ~Coming(i, f)
    BY <2>2 DEF Coming, Busy, Published, Subscribed
  <2> QED
    BY <2>1, <2>2, <2>3 DEF Current, ToApply
<1> QED
  BY <1>1, <1>2, <1>3, StartInductive, PTL DEF Spec

=============================================================================
