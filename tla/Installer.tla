------------------------------ MODULE Installer ------------------------------
(***************************************************************************)
(* The installer (scripts/hesar.sh): update with its backup and roll-back, *)
(* offline and online installation, and removal, as the commands that      *)
(* touch /usr/local/bin and the service.  Commands fail, the operator      *)
(* interrupts, the machine reboots, and systemd restarts the daemon, each  *)
(* between any two commands.                                               *)
(*                                                                         *)
(* A file is what it holds: a release, "built" from source, a "foreign"    *)
(* binary that the manifest does not list, "partial" or "absent".  The     *)
(* script runs once at a time.  Configuration, user and unit file are left *)
(* out: nothing below depends on them.                                     *)
(***************************************************************************)

CONSTANT Release     \* binaries that a manifest vouches for

ASSUME ReleaseAssumption ==
    Release \cap {"built", "foreign", "partial", "absent"} = {}

VARIABLES
    pc,        \* the next command of the script
    hesar,     \* /usr/local/bin/hesar
    bak,       \* hesar.bak
    tmp,       \* the download of an update
    stage,     \* the staging directory of an offline installation
    artifact,  \* what that was given to install
    manifest,  \* whether a manifest lies beside it
    service,   \* the unit
    image,     \* what its process was last started from
    task,      \* what the script was last run for
    before,    \* hesar when it was
    failed,    \* copies and builds that failed unnoticed in this run
    said       \* how the run ended

files == <<hesar, bak, tmp, stage>>
given == <<artifact, manifest>>
unit == <<service, image>>
run == <<given, task, before, failed, said>>
vars == <<pc, files, unit, run>>

Whole == Release \cup {"built", "foreign"}
Contents == Whole \cup {"partial", "absent"}

TypeOK ==
    /\ pc \in {"idle", "backingUp", "stopping", "downloading", "verifying",
               "restoring", "starting", "removing", "moving", "restarting",
               "checking", "rollingBack", "reinstating", "reviving",
               "staging", "validating", "renaming",
               "clearing", "fetching", "attesting", "building", "activating",
               "disabling", "erasing"}
    /\ hesar \in Contents /\ bak \in Contents /\ tmp \in Contents
    /\ artifact \in Contents /\ manifest \in BOOLEAN
    /\ stage \in Contents /\ image \in Contents /\ before \in Contents
    /\ service \in {"none", "stopped", "failing", "active"}
    /\ task \in {"none", "update", "offline", "online", "uninstall"}
    /\ failed \subseteq {"backup", "restore", "build"}
    /\ said \in {"nothing", "updated", "restored", "installed", "failed",
                 "died", "interrupted", "uninstalled"}

(* A machine without HESAR.                                                *)
Init ==
    /\ pc = "idle" /\ service = "none" /\ image = "absent"
    /\ hesar = "absent" /\ bak = "absent" /\ tmp = "absent" /\ stage = "absent"
    /\ artifact = "absent" /\ manifest = FALSE
    /\ task = "none" /\ before = "absent" /\ failed = {} /\ said = "nothing"

Step(from, to) == pc = from /\ pc' = to

Goes(from, to) == Step(from, to) /\ UNCHANGED run

(* The run is over, with this message; "died" is set -e.                   *)
Ends(from, message) ==
    Step(from, "idle") /\ said' = message /\ UNCHANGED <<given, task, before, failed>>

Begins(what, first) ==
    /\ Step("idle", first)
    /\ task' = what /\ before' = hesar /\ failed' = {} /\ said' = "nothing"
    /\ UNCHANGED <<files, unit>>

GivenNothing == artifact' = "absent" /\ manifest' = FALSE

(* What a cp may leave at its destination: the copy, a part of it when the *)
(* disk fills up, or what was there.                                       *)
Copied(source, there) ==
    IF source = "absent" THEN {there} ELSE {source, "partial", there}

(* The daemon is started: a binary that is not whole does not run, and one *)
(* that is may still refuse to.                                            *)
Launch ==
    /\ service' \in IF hesar \in Whole THEN {"active", "failing"} ELSE {"failing"}
    /\ image' = hesar

Restart == service # "none" /\ Launch

(* systemctl stop ... || true                                              *)
StopUnit ==
    /\ service' \in {service} \cup (IF service = "none" THEN {} ELSE {"stopped"})
    /\ UNCHANGED image

-----------------------------------------------------------------------------
(* Update.                                                                 *)

BeginUpdate == hesar # "absent" /\ Begins("update", "backingUp") /\ GivenNothing

(* Mutant: a backup that is there is not overwritten. *)
BackUpOnce ==
    /\ Step("backingUp", "stopping")
    /\ bak' \in IF bak = "absent" THEN Copied(hesar, bak) ELSE {bak}
    /\ failed' = IF bak' = "partial" THEN failed \cup {"backup"} ELSE failed
    /\ UNCHANGED <<hesar, tmp, stage, unit, given, task, before, said>>

BackUp ==
    /\ Step("backingUp", "stopping")
    /\ bak' \in Copied(hesar, bak)
    /\ failed' = IF bak' = hesar THEN failed ELSE failed \cup {"backup"}
    /\ UNCHANGED <<hesar, tmp, stage, unit, given, task, before, said>>

StopForUpdate ==
    /\ Goes("stopping", "downloading")
    /\ StopUnit
    /\ UNCHANGED files

(* The five attempts.                                                      *)
Download ==
    /\ \/ Goes("downloading", "verifying") /\ tmp' \in Release \cup {"foreign"}
       \/ Goes("downloading", "restoring") /\ tmp' = "absent"
    /\ UNCHANGED <<hesar, bak, stage, unit>>

(* Size, manifest, its signature if cosign is there, and checksum.         *)
Verify ==
    /\ \/ Goes("verifying", "removing") /\ tmp \in Release /\ UNCHANGED tmp
       \/ Goes("verifying", "restoring") /\ tmp' = "absent"
    /\ UNCHANGED <<hesar, bak, stage, unit>>

(* Mutant: the backup is moved back instead of copied. *)
MoveBack ==
    /\ Step("restoring", "starting") \/ Step("reinstating", "reviving")
    /\ hesar' \in Copied(bak, hesar)
    /\ bak' = "absent"
    /\ failed' = IF hesar' = bak THEN failed ELSE failed \cup {"restore"}
    /\ UNCHANGED <<tmp, stage, unit, given, task, before, said>>

CopyBack ==
    /\ Step("restoring", "starting") \/ Step("reinstating", "reviving")
    /\ hesar' \in Copied(bak, hesar)
    /\ failed' = IF hesar' = bak THEN failed ELSE failed \cup {"restore"}
    /\ UNCHANGED <<bak, tmp, stage, unit, given, task, before, said>>

(* start leaves a daemon alone that the stop failed to stop.               *)
StartOld ==
    /\ Ends("starting", "restored")
    /\ UNCHANGED unit \/ (service # "active" /\ Restart)
    /\ UNCHANGED files

RemoveOld ==
    /\ \/ Goes("removing", "moving") /\ hesar' = "absent"
       \/ Ends("removing", "died") /\ UNCHANGED hesar
    /\ UNCHANGED <<bak, tmp, stage, unit>>

(* From /tmp, another file system for all the script knows; and chmod.     *)
MoveNew ==
    /\ \/ /\ Goes("moving", "restarting") \/ Ends("moving", "died")
          /\ hesar' = tmp /\ tmp' = "absent"
       \/ Ends("moving", "died") /\ hesar' \in {hesar, "partial"} /\ UNCHANGED tmp
    /\ UNCHANGED <<bak, stage, unit>>

(* Mutant: start, which a daemon that is still up does not notice. *)
StartNew ==
    /\ Goes("restarting", "checking")
    /\ IF service = "active" THEN UNCHANGED unit ELSE Launch
    /\ UNCHANGED files

RestartNew ==
    /\ \/ Goes("restarting", "checking") /\ Restart
       \/ Ends("restarting", "died") /\ StopUnit
    /\ UNCHANGED files

(* is-active, after up to three more restarts.                             *)
CheckActive ==
    /\ \/ service = "active" /\ Ends("checking", "updated") /\ UNCHANGED unit
       \/ service # "active" /\ Goes("checking", "checking") /\ Restart
       \/ service # "active" /\ Goes("checking", "rollingBack") /\ UNCHANGED unit
    /\ UNCHANGED files

StopToRollBack ==
    /\ Goes("rollingBack", "reinstating")
    /\ StopUnit
    /\ UNCHANGED files

(* chmod, which ends the script if it fails, and restart ... || true       *)
RestartOld ==
    /\ \/ Ends("reviving", "restored") /\ (UNCHANGED unit \/ Restart)
       \/ Ends("reviving", "died") /\ UNCHANGED unit
    /\ UNCHANGED files

-----------------------------------------------------------------------------
(* Offline installation.                                                   *)

BeginOffline ==
    /\ Begins("offline", "staging")
    /\ artifact' \in Contents
    /\ manifest' \in BOOLEAN

(* cp or tar, which is refused if it does not complete.                    *)
StageArtifact ==
    /\ \/ Goes("staging", "validating") /\ artifact # "absent" /\ stage' = artifact
       \/ Ends("staging", "failed") /\ UNCHANGED stage
    /\ UNCHANGED <<hesar, bak, tmp, unit>>

(* The header of an executable for this machine and 5 MB, which a binary   *)
(* cut short may have too; and, if a manifest lies beside the artifact, an *)
(* entry there that agrees.                                                *)
Validate ==
    /\ \/ /\ Goes("validating", "renaming")
          /\ manifest => stage \in Release
          /\ UNCHANGED stage
       \/ Ends("validating", "failed") /\ stage' = "absent"
    /\ UNCHANGED <<hesar, bak, tmp, unit>>

(* Mutant: the binary is copied into place from another file system.       *)
CopyStage ==
    /\ \/ Goes("renaming", "activating") /\ hesar' = stage
       \/ Ends("renaming", "failed") /\ hesar' \in Copied(stage, hesar)
    /\ stage' = "absent"
    /\ UNCHANGED <<bak, tmp, unit>>

(* The staging directory is on the file system of the binary.              *)
RenameStage ==
    /\ \/ Goes("renaming", "activating") /\ hesar' = stage
       \/ Ends("renaming", "failed") /\ UNCHANGED hesar
    /\ stage' = "absent"
    /\ UNCHANGED <<bak, tmp, unit>>

-----------------------------------------------------------------------------
(* Online installation.                                                    *)

BeginOnline == Begins("online", "clearing") /\ GivenNothing

ClearOld ==
    /\ Goes("clearing", "fetching")
    /\ hesar' = "absent"
    /\ UNCHANGED <<bak, tmp, stage, unit>>

Fetch ==
    /\ \/ Goes("fetching", "attesting") /\ hesar' \in Release \cup {"foreign"}
       \/ Goes("fetching", "building") /\ hesar' \in {"absent", "partial"}
    /\ UNCHANGED <<bak, tmp, stage, unit>>

Attest ==
    /\ \/ Goes("attesting", "activating") /\ hesar \in Release /\ UNCHANGED hesar
       \/ Goes("attesting", "building") /\ hesar' = "absent"
    /\ UNCHANGED <<bak, tmp, stage, unit>>

(* A build that fails goes unnoticed: set -e does not reach into           *)
(* install_binaries, whose callers test its result.                        *)
BuildFromSource ==
    /\ \/ /\ Step("building", "activating")
          /\ \/ hesar' = "built" /\ UNCHANGED failed
             \/ UNCHANGED hesar /\ failed' = failed \cup {"build"}
          /\ UNCHANGED <<given, task, before, said>>
       \/ Ends("building", "failed") /\ UNCHANGED hesar
    /\ UNCHANGED <<bak, tmp, stage, unit>>

(* setup_systemd: the unit is written, enabled and restarted.  The menu's  *)
(* offline installation tests the result of all this, so there a failing   *)
(* command does not end the script either.                                 *)
Activate ==
    /\ \/ Ends("activating", "installed") /\ Launch
       \/ /\ \/ Ends("activating", "died")
             \/ task = "offline" /\ Ends("activating", "installed")
          /\ service' \in {service, "stopped"} /\ UNCHANGED image
    /\ UNCHANGED files

-----------------------------------------------------------------------------
(* Removal, which forgets hesar.bak, and a daemon that does not stop.      *)

BeginUninstall == Begins("uninstall", "disabling") /\ GivenNothing

DisableUnit ==
    /\ Goes("disabling", "erasing")
    /\ service' = "none" /\ UNCHANGED image
    /\ UNCHANGED files

EraseFiles ==
    /\ \/ Ends("erasing", "uninstalled") /\ hesar' = "absent"
       \/ Ends("erasing", "died") /\ UNCHANGED hesar
    /\ UNCHANGED <<bak, tmp, stage, unit>>

-----------------------------------------------------------------------------
(* Around the script.                                                      *)

(* Ctrl-C, a lost terminal; the download may have begun.                   *)
Interrupt ==
    /\ pc # "idle"
    /\ pc' = "idle" /\ said' = "interrupted"
    /\ stage' = "absent"
    /\ tmp' \in {tmp} \cup (IF pc = "downloading" THEN {"partial"} ELSE {})
    /\ UNCHANGED <<hesar, bak, unit, given, task, before, failed>>

(* The enabled unit is started, and what was under way is not resumed.     *)
Reboot ==
    /\ pc' = "idle"
    /\ said' = IF pc = "idle" THEN said ELSE "interrupted"
    /\ (service = "none" /\ UNCHANGED unit) \/ Restart
    /\ UNCHANGED <<files, given, task, before, failed>>

DaemonDies ==
    /\ service = "active"
    /\ service' = "failing"
    /\ UNCHANGED <<pc, files, image, run>>

(* Restart=always                                                          *)
SystemdRestarts ==
    /\ service = "failing"
    /\ Launch
    /\ UNCHANGED <<pc, files, run>>

Update ==
    \/ BeginUpdate \/ BackUp \/ StopForUpdate \/ Download \/ Verify
    \/ CopyBack \/ StartOld
    \/ RemoveOld \/ MoveNew \/ RestartNew \/ CheckActive
    \/ StopToRollBack \/ RestartOld

Offline == BeginOffline \/ StageArtifact \/ Validate \/ RenameStage

Online == BeginOnline \/ ClearOld \/ Fetch \/ Attest \/ BuildFromSource

Uninstall == BeginUninstall \/ DisableUnit \/ EraseFiles

Environment == Interrupt \/ Reboot \/ DaemonDies \/ SystemdRestarts

Next == Update \/ Offline \/ Online \/ Activate \/ Uninstall \/ Environment

Spec == Init /\ [][Next]_vars

-----------------------------------------------------------------------------
(* Properties.                                                             *)

(* Wherever an update stops, by a failing command, Ctrl-C or a reboot, the *)
(* binary it found is still in place or in the backup, unless the copy to  *)
(* the backup failed (which the script neither checks nor reports).        *)
OldBinaryKept ==
    task = "update" /\ "backup" \notin failed => before \in {hesar, bak}

(* "Previous version restored" is true if both copies succeeded.           *)
RestoredIsPrevious == said = "restored" /\ failed = {} => hesar = before

(* "Updated successfully": what is installed was verified, and it is what  *)
(* the service runs, also if the old daemon had refused to stop.           *)
UpdatedIsEarned ==
    said = "updated" =>
        hesar \in Release /\ (service = "active" => image = hesar)

(* An offline installation, wherever it stops, leaves either the binary it *)
(* found in place or exactly what it was given, never a mixture; and with  *)
(* a manifest beside the artifact, nothing new but what that vouches for   *)
(* (hesar.sh:309-358).                                                     *)
OfflineIsAtomic ==
    task = "offline" =>
        /\ hesar \in {before, artifact}
        /\ manifest => hesar = before \/ hesar \in Release

(* One that downloads reports success with a verified binary or one built  *)
(* here; when the build failed, which nothing notices, with what a failed  *)
(* download left or nothing.  It never leaves a download that was refused  *)
(* (hesar.sh:408-449).                                                     *)
OnlineIsVerified ==
    task = "online" /\ said = "installed" =>
        \/ hesar \in Release \cup {"built"}
        \/ "build" \in failed /\ hesar \in {"absent", "partial"}

InstallsWhole == OfflineIsAtomic /\ OnlineIsVerified

=============================================================================
