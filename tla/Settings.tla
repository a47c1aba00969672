------------------------------ MODULE Settings ------------------------------
(***************************************************************************)
(* The persistent settings (nvs_config.c) and the updates that depend on    *)
(* them: firmware and web interface uploads and the choice of the boot      *)
(* partition (http_server.c, bzm_ota_guard.c, system.c, app_main).          *)
(*                                                                         *)
(* A setter changes the cache and queues the value; nvs_task writes the     *)
(* queue to flash, one update at a time. A restart, wanted or not, loses    *)
(* the cache and whatever is still queued.                                  *)
(***************************************************************************)
EXTENDS Sequences, Integers, FiniteSets

CONSTANTS Firmware,    \* the builds that may be installed, one fingerprint each
          Shipped,     \* the build and the partition the device starts with
          Partitions, FirstPartition,
          QueueSize,   \* length of nvs_save_queue
          MaxLost      \* bound: keys whose write to flash may fail

\* A build is told apart from the marks for no build, and there are two partitions.
ASSUME SettingsAssumption ==
    /\ Shipped \in Firmware
    /\ Firmware \intersect {"absent", "partial", "off", "none"} = {}
    /\ Partitions = {"ota_0", "ota_1"} /\ FirstPartition \in Partitions
    /\ QueueSize \in Nat

VARIABLES
    cache,     \* settings[].value with is_set: a value of the key, or Absent
    flash,     \* the NVS partition
    queue,     \* nvs_save_queue
    todo,      \* the settings each task still has to change, in order
    lock,      \* the holder of nvs_update_mutex
    lost,      \* keys whose last write to flash failed
    slot,      \* contents of the application partitions
    boot,      \* the partition otadata selects
    running,   \* the partition that runs
    pc,        \* the phase of the boot, or of the request the server handles
    lease      \* the maintenance lease a request holds, and is_firmware_update

vars == <<cache, flash, queue, todo, lock, lost, slot, boot, running, pc, lease>>

Absent == "absent"
Keys == {"custom", "fingerprint", "marker", "pool1", "pool2"}
Tasks == {"main", "http", "power"}
Nobody == "nobody"

\* use_custom_www is a flag; the model keeps with it the build it was turned on under.
Off == "off"
Values(k) == CASE k = "custom"      -> {Off} \union Firmware
               [] k = "fingerprint" -> {"none"} \union Firmware
               [] k = "marker"      -> {"set", "clear"}
               [] OTHER             -> {"legacy", "new"}

Build == slot[running]
CustomOn == cache["custom"] \in Firmware

\* The setters compare the value, which for use_custom_www is only the flag.
Same(k, old, new) == IF k = "custom" THEN old # Absent /\ (old = Off) = (new = Off) ELSE old = new

NoLease == [owner |-> Nobody, kept |-> FALSE, failed |-> FALSE, updating |-> FALSE]

Init ==
    /\ cache = [k \in Keys |-> Absent]
    /\ flash \in {[k \in Keys |-> Absent],
                  [k \in Keys |-> IF k \in {"pool1", "pool2"} THEN "new" ELSE Absent]}
    /\ queue = <<>>
    /\ todo = [t \in Tasks |-> <<>>]
    /\ lock = Nobody
    /\ lost = {}
    /\ slot = [s \in Partitions |-> IF s = FirstPartition THEN Shipped ELSE Absent]
    /\ boot = FirstPartition
    /\ running = FirstPartition
    /\ pc = "boot"
    /\ lease = NoLease

(***************************************************************************)
(* Booting: nvs_config_init with the migration of the legacy pools, then    *)
(* SYSTEM_check_firmware_migration, then the services.                      *)
(***************************************************************************)
\* migrate_legacy_pools writes the new keys one by one; pool_1 marks it done.
MigrateLegacyPools ==
    \/ /\ pc = "boot" /\ flash["pool1"] = Absent
       /\ flash' = [flash EXCEPT !["pool1"] = "legacy"]
       /\ pc' = "migrating"
       /\ UNCHANGED <<cache, queue, todo, lock, lost, slot, boot, running, lease>>
    \/ /\ pc = "migrating"
       /\ flash' = [flash EXCEPT !["pool2"] = "legacy"]
       /\ pc' = "boot"
       /\ UNCHANGED <<cache, queue, todo, lock, lost, slot, boot, running, lease>>

\* Mutant: the new fingerprint is stored before the flag is cleared.
CheckFirmwareMigrationReordered(values, build) ==
    IF values["fingerprint"] = build THEN <<>>
    ELSE <<<<"fingerprint", build>>>> \o
         (IF values["custom"] \in Firmware THEN <<<<"custom", Off>>>> ELSE <<>>)

CheckFirmwareMigration(values, build) ==
    IF values["fingerprint"] = build THEN <<>>
    ELSE (IF values["custom"] \in Firmware THEN <<<<"custom", Off>>>> ELSE <<>>)
         \o <<<<"fingerprint", build>>>>

NvsConfigInit ==
    /\ pc = "boot" /\ flash["pool1"] # Absent
    /\ cache' = flash
    /\ todo' = [todo EXCEPT !["main"] = CheckFirmwareMigration(flash, Build)]
    /\ pc' = "starting"
    /\ UNCHANGED <<flash, queue, lock, lost, slot, boot, running, lease>>

\* app_main goes on to the peripherals, the server and the tasks.
AppMain ==
    /\ pc = "starting" /\ todo["main"] = <<>>
    /\ pc' = "idle"
    /\ UNCHANGED <<cache, flash, queue, todo, lock, lost, slot, boot, running, lease>>

(***************************************************************************)
(* nvs_config_set_*: under nvs_update_mutex the value is compared, written  *)
(* to the cache and queued; a full queue makes the setter wait.             *)
(***************************************************************************)
\* Mutant: the cache is changed before the mutex is taken.
MayUpdateUnlocked(t) == TRUE

MayUpdate(t) == lock = Nobody

BeginSet(t) ==
    LET k == Head(todo[t])[1]
        v == Head(todo[t])[2]
    IN /\ todo[t] # <<>> /\ Len(Head(todo[t])) = 2
       /\ MayUpdate(t)
       /\ IF Same(k, cache[k], v)
          THEN /\ todo' = [todo EXCEPT ![t] = Tail(@)]
               /\ UNCHANGED <<cache, lock>>
          ELSE /\ cache' = [cache EXCEPT ![k] = v]
               /\ lock' = t
               \* a third field marks an update that waits to be queued
               /\ todo' = [todo EXCEPT ![t] = <<<<k, v, "queue">>>> \o Tail(@)]
       /\ UNCHANGED <<flash, queue, lost, slot, boot, running, pc, lease>>

Queueing(t) == todo[t] # <<>> /\ Len(Head(todo[t])) = 3

Enqueue(t) ==
    /\ Queueing(t)
    /\ Len(queue) < QueueSize
    /\ queue' = Append(queue, SubSeq(Head(todo[t]), 1, 2))
    /\ todo' = [todo EXCEPT ![t] = Tail(@)]
    /\ lock' = Nobody
    /\ UNCHANGED <<cache, flash, lost, slot, boot, running, pc, lease>>

\* nvs_task: a failed write is logged and forgotten.
NvsTask ==
    /\ queue # <<>>
    /\ queue' = Tail(queue)
    /\ LET k == Head(queue)[1]
       IN \/ /\ flash' = [flash EXCEPT ![k] = Head(queue)[2]]
             /\ lost' = lost \ {k}
          \/ /\ Cardinality(lost \union {k}) <= MaxLost
             /\ lost' = lost \union {k}
             /\ UNCHANGED flash
    /\ UNCHANGED <<cache, todo, lock, slot, boot, running, pc, lease>>

(***************************************************************************)
(* The power task keeps the overheat marker; the settings page changes it   *)
(* too.                                                                     *)
(***************************************************************************)
StoreMarker(v) ==
    /\ pc \notin {"boot", "migrating", "starting"} /\ todo["power"] = <<>>
    /\ todo' = [todo EXCEPT !["power"] = <<<<"marker", v>>>>]
    /\ UNCHANGED <<cache, flash, queue, lock, lost, slot, boot, running, pc, lease>>

\* check_settings_and_update validates the whole body before it sets anything; one of the
\* bodies has lost its overheat_mode because a recovery is under way.
AcceptedBodies == {<<<<"custom", Build>>>>, <<<<"custom", Off>>>>, <<<<"custom", Off>>, <<"marker", "clear">>>>}

\* PATCH_update_settings; a refused body changes nothing.
Patch ==
    /\ pc = "idle" /\ todo["http"] = <<>>
    /\ \E body \in AcceptedBodies : todo' = [todo EXCEPT !["http"] = body]
    /\ UNCHANGED <<cache, flash, queue, lock, lost, slot, boot, running, pc, lease>>

(***************************************************************************)
(* bzm_ota_guard: the update begins with the maintenance lease, an error    *)
(* gives it back, success keeps it until the reboot.                        *)
(***************************************************************************)
OtaGuardBegin ==
    /\ pc = "idle" /\ todo["http"] = <<>> /\ lease.owner = Nobody
    /\ lease' = [NoLease EXCEPT !.owner = "ota", !.updating = TRUE]

OtaGuardRetain == lease' = [lease EXCEPT !.kept = TRUE]

\* Mutant: the error path of a request keeps the lease.
ErrorAfterReleaseForgotten ==
    /\ pc' = "idle"
    /\ lease' = [lease EXCEPT !.updating = FALSE]

\* bzm_ota_error_after_release; the release itself may fail, which the answer reports.
ErrorAfterRelease ==
    /\ pc' = "idle"
    /\ \E failed \in BOOLEAN :
          lease' = IF failed THEN [lease EXCEPT !.failed = TRUE, !.updating = FALSE] ELSE NoLease

Reset(build) == <<<<"custom", Off>>, <<"fingerprint", "none">>>>

(***************************************************************************)
(* POST_OTA_update                                                          *)
(***************************************************************************)
\* Mutant: the image is written over the partition that runs.
UpdatePartitionRunning == running

\* esp_ota_get_next_update_partition
UpdatePartition == IF running = "ota_0" THEN "ota_1" ELSE "ota_0"

BeginOta ==
    /\ OtaGuardBegin
    /\ slot' = [slot EXCEPT ![UpdatePartition] = "partial"]   \* esp_ota_begin erases
    /\ pc' = "ota"
    /\ UNCHANGED <<cache, flash, queue, todo, lock, lost, boot, running>>

OtaFails ==
    /\ pc = "ota"
    /\ ErrorAfterRelease
    /\ UNCHANGED <<cache, flash, queue, todo, lock, lost, slot, boot, running>>

OtaCompletes(f) ==
    /\ pc = "ota"
    /\ slot' = [slot EXCEPT ![UpdatePartition] = f]           \* esp_ota_end validates
    /\ boot' = UpdatePartition
    /\ OtaGuardRetain
    /\ todo' = [todo EXCEPT !["http"] = Reset(f)]
    /\ pc' = "rebooting"
    /\ UNCHANGED <<cache, flash, queue, lock, lost, running>>

(***************************************************************************)
(* POST_WWW_update                                                          *)
(***************************************************************************)
BeginWww ==
    /\ OtaGuardBegin
    /\ pc' = "www"
    /\ UNCHANGED <<cache, flash, queue, todo, lock, lost, slot, boot, running>>

WwwFails ==
    /\ pc = "www"
    /\ ErrorAfterRelease
    /\ UNCHANGED <<cache, flash, queue, todo, lock, lost, slot, boot, running>>

WwwCompletes ==
    /\ pc = "www"
    /\ todo' = [todo EXCEPT !["http"] = <<<<"custom", Build>>>>]
    /\ OtaGuardRetain
    /\ pc' = "rebooting"
    /\ UNCHANGED <<cache, flash, queue, lock, lost, slot, boot, running>>

(***************************************************************************)
(* POST_system_boot: a partition with a readable description is asked for;  *)
(* esp_ota_set_boot_partition verifies the image.                           *)
(***************************************************************************)
PostBoot(s) ==
    /\ slot[s] # Absent
    /\ pc = "idle" /\ todo["http"] = <<>> /\ lease.owner = Nobody
    /\ \/ /\ slot[s] \in Firmware
          /\ boot' = s
          /\ todo' = [todo EXCEPT !["http"] = Reset(slot[s])]
          /\ lease' = [NoLease EXCEPT !.owner = "restart", !.kept = TRUE]
          /\ pc' = "rebooting"
       \/ /\ slot[s] \notin Firmware
          /\ ErrorAfterRelease
          /\ UNCHANGED <<boot, todo>>
    /\ UNCHANGED <<cache, flash, queue, lock, lost, slot, running>>

\* POST_restart: prepare_restart takes the lease; esp_restart follows the answer.
PostRestart ==
    /\ pc = "idle" /\ todo["http"] = <<>>
    /\ lease.owner = Nobody
    /\ lease' = [NoLease EXCEPT !.owner = "restart", !.kept = TRUE]
    /\ pc' = "rebooting"
    /\ UNCHANGED <<cache, flash, queue, todo, lock, lost, slot, boot, running>>

\* esp_restart, a reset or a power failure: RAM is gone, whatever was queued with it.
Restart ==
    /\ pc' = "boot"
    /\ running' = boot
    /\ cache' = [k \in Keys |-> Absent]
    /\ queue' = <<>>
    /\ todo' = [t \in Tasks |-> <<>>]
    /\ lock' = Nobody
    /\ lease' = NoLease
    /\ UNCHANGED <<flash, lost, slot, boot>>

Next ==
    \/ MigrateLegacyPools \/ NvsConfigInit \/ AppMain \/ NvsTask
    \/ \E t \in Tasks : BeginSet(t) \/ Enqueue(t)
    \/ \E v \in {"set", "clear"} : StoreMarker(v)
    \/ Patch
    \/ BeginOta \/ OtaFails \/ \E f \in Firmware : OtaCompletes(f)
    \/ BeginWww \/ WwwFails \/ WwwCompletes
    \/ \E s \in Partitions : PostBoot(s)
    \/ PostRestart \/ Restart

Spec == Init /\ [][Next]_vars

(***************************************************************************)
(* Properties                                                               *)
(***************************************************************************)
TypeOK ==
    /\ \A k \in Keys : cache[k] \in Values(k) \union {Absent} /\ flash[k] \in Values(k) \union {Absent}
    /\ Len(queue) <= QueueSize
    /\ lock \in Tasks \union {Nobody}
    /\ lost \subseteq Keys
    /\ \A s \in Partitions : slot[s] \in Firmware \union {Absent, "partial"}
    /\ boot \in Partitions /\ running \in Partitions

\* Once the queue is drained flash holds what the cache says, whichever tasks set the same
\* key at the same time; only a key whose last write failed is excepted (nvs_config_set_*
\* against nvs_task).
FlashFollowsCache ==
    (pc \notin {"boot", "migrating"} /\ queue = <<>> /\ \A t \in Tasks : ~Queueing(t))
        => \A k \in Keys \ lost : flash[k] = cache[k]

\* Once the services run, a custom web interface is served only under the build it was
\* turned on under, whatever restart cut an update or a migration short
\* (SYSTEM_check_firmware_migration, SYSTEM_reset_custom_www).
MatchingWebUi ==
    (pc \notin {"boot", "migrating", "starting"} /\ {"custom", "fingerprint"} \intersect lost = {})
        => cache["custom"] \in {Off, Absent, Build}

\* The partition the next boot takes holds a complete image at every moment of an update
\* (POST_OTA_update, POST_system_boot).
BootableImage == slot[boot] \in Firmware

\* A request that ended without a reboot left no update behind: the flag is down and the
\* lease is back, unless its release failed and was reported.
LeaseReturned == pc = "idle" => ~lease.updating /\ (lease.owner = Nobody \/ lease.failed)

\* What restarts, lost writes and failing requests leave of the settings and the
\* firmware: the four properties above.
SettingsSurvive == FlashFollowsCache /\ MatchingWebUi /\ BootableImage /\ LeaseReturned
=============================================================================
