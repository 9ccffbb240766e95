--------------------------- MODULE InstallerProofs ---------------------------
(***************************************************************************)
(* Proofs about the installer, for any set of releases and any number of   *)
(* runs, failures, interruptions and reboots.                              *)
(***************************************************************************)
EXTENDS Installer, TLAPS

(* Every command writes contents that exist, into the right places.        *)
THEOREM TypeCorrect == Spec => []TypeOK
<1> USE DEF TypeOK, Contents, Whole, files, unit, given, run
<1>1. Init => TypeOK
  <2> SUFFICES ASSUME Init PROVE TypeOK
    OBVIOUS
  <2>1. manifest \in BOOLEAN
    BY DEF Init
  <2>2. /\ pc = "idle" /\ service = "none" /\ image = "absent"
        /\ hesar = "absent" /\ bak = "absent" /\ tmp = "absent" /\ stage = "absent"
        /\ artifact = "absent" /\ task = "none" /\ before = "absent" /\ failed = {}
        /\ said = "nothing"
    BY DEF Init
  <2> QED
    BY <2>1, <2>2, SMT
<1>2. TypeOK /\ [Next]_vars => TypeOK'
  <2> SUFFICES ASSUME TypeOK, [Next]_vars PROVE TypeOK'
    OBVIOUS
  <2>1. CASE Update
    <3>1. CASE BeginUpdate
      <4>1. manifest' \in BOOLEAN /\ artifact' = "absent" /\ Begins("update", "backingUp")
        BY <3>1 DEF BeginUpdate, GivenNothing
      <4>2. hesar \in Contents
        OBVIOUS
      <4> QED
        BY <4>1, <4>2, SMT DEF Begins, Step
    <3>2. CASE BackUp
      BY <3>2, SMT DEF BackUp, Step, Copied
    <3>3. CASE StopForUpdate
      BY <3>3, SMT DEF StopForUpdate, Goes, Step, StopUnit
    <3>4. CASE Download
      <4>1. CASE Goes("downloading", "verifying") /\ tmp' \in Release \cup {"foreign"}
        BY <3>4, <4>1, SMT DEF Download, Goes, Ends, Step
      <4>2. CASE Goes("downloading", "restoring") /\ tmp' = "absent"
        BY <3>4, <4>2, SMT DEF Download, Goes, Ends, Step
      <4> QED
        BY <3>4, <4>1, <4>2 DEF Download
    <3>5. CASE Verify
      <4>1. CASE Goes("verifying", "removing") /\ tmp \in Release /\ UNCHANGED tmp
        BY <3>5, <4>1, SMT DEF Verify, Goes, Ends, Step
      <4>2. CASE Goes("verifying", "restoring") /\ tmp' = "absent"
        BY <3>5, <4>2, SMT DEF Verify, Goes, Ends, Step
      <4> QED
        BY <3>5, <4>1, <4>2 DEF Verify
    <3>6. CASE CopyBack
      BY <3>6, SMT DEF CopyBack, Step, Copied
    <3>7. CASE StartOld
      BY <3>7, SMT DEF StartOld, Goes, Ends, Step, Restart, Launch
    <3>8. CASE RemoveOld
      <4>1. CASE Goes("removing", "moving") /\ hesar' = "absent"
        BY <3>8, <4>1, SMT DEF RemoveOld, Goes, Step
      <4>2. CASE Ends("removing", "died") /\ UNCHANGED hesar
        BY <3>8, <4>2, SMT DEF RemoveOld, Ends, Step
      <4> QED
        BY <3>8, <4>1, <4>2 DEF RemoveOld
    <3>9. CASE MoveNew
      <4>1. CASE Goes("moving", "restarting") /\ hesar' = tmp /\ tmp' = "absent"
        BY <3>9, <4>1, SMT DEF MoveNew, Goes, Step
      <4>3. CASE Ends("moving", "died") /\ hesar' = tmp /\ tmp' = "absent"
        BY <3>9, <4>3, SMT DEF MoveNew, Ends, Step
      <4>2. CASE Ends("moving", "died") /\ hesar' \in {hesar, "partial"} /\ UNCHANGED tmp
        BY <3>9, <4>2, SMT DEF MoveNew, Goes, Ends, Step
      <4> QED
        BY <3>9, <4>1, <4>2, <4>3 DEF MoveNew
    <3>10. CASE RestartNew
      <4>1. CASE Goes("restarting", "checking") /\ Restart
        BY <3>10, <4>1, SMT DEF RestartNew, StopUnit, Goes, Ends, Step, Restart, Launch
      <4>2. CASE Ends("restarting", "died") /\ StopUnit
        BY <3>10, <4>2, SMT DEF RestartNew, StopUnit, Goes, Ends, Step, Restart, Launch
      <4> QED
        BY <3>10, <4>1, <4>2 DEF RestartNew
    <3>11. CASE CheckActive
      <4>1. CASE service = "active" /\ Ends("checking", "updated") /\ UNCHANGED unit
        BY <3>11, <4>1, SMT DEF CheckActive, Goes, Ends, Step, Restart, Launch
      <4>2. CASE service # "active" /\ Goes("checking", "checking") /\ Restart
        BY <3>11, <4>2, SMT DEF CheckActive, Goes, Ends, Step, Restart, Launch
      <4>3. CASE service # "active" /\ Goes("checking", "rollingBack") /\ UNCHANGED unit
        BY <3>11, <4>3, SMT DEF CheckActive, Goes, Ends, Step, Restart, Launch
      <4> QED
        BY <3>11, <4>1, <4>2, <4>3 DEF CheckActive
    <3>12. CASE StopToRollBack
      BY <3>12, SMT DEF StopToRollBack, Goes, Step, StopUnit
    <3>13. CASE RestartOld
      <4>1. CASE Ends("reviving", "restored") /\ (UNCHANGED unit \/ Restart)
        BY <3>13, <4>1, SMT DEF RestartOld, Ends, Step, Restart, Launch
      <4>2. CASE Ends("reviving", "died") /\ UNCHANGED unit
        BY <3>13, <4>2, SMT DEF RestartOld, Ends, Step
      <4> QED
        BY <3>13, <4>1, <4>2 DEF RestartOld
    <3> QED
      BY <2>1, <3>1, <3>2, <3>3, <3>4, <3>5, <3>6, <3>7, <3>8, <3>9, <3>10,
         <3>11, <3>12, <3>13 DEF Update
  <2>2. CASE Offline
    <3>1. CASE BeginOffline
      BY <3>1, SMT DEF BeginOffline, Begins, Step
    <3>2. CASE StageArtifact
      <4>1. CASE Goes("staging", "validating") /\ stage' = artifact
        BY <3>2, <4>1, SMT DEF StageArtifact, Goes, Ends, Step
      <4>2. CASE Ends("staging", "failed") /\ UNCHANGED stage
        BY <3>2, <4>2, SMT DEF StageArtifact, Goes, Ends, Step
      <4> QED
        BY <3>2, <4>1, <4>2 DEF StageArtifact
    <3>3. CASE Validate
      <4>1. CASE Goes("validating", "renaming") /\ UNCHANGED stage
        BY <3>3, <4>1, SMT DEF Validate, Goes, Ends, Step
      <4>2. CASE Ends("validating", "failed") /\ stage' = "absent"
        BY <3>3, <4>2, SMT DEF Validate, Goes, Ends, Step
      <4> QED
        BY <3>3, <4>1, <4>2 DEF Validate
    <3>4. CASE RenameStage
      <4>1. CASE Goes("renaming", "activating") /\ hesar' = stage
        BY <3>4, <4>1, SMT DEF RenameStage, Goes, Ends, Step
      <4>2. CASE Ends("renaming", "failed") /\ UNCHANGED hesar
        BY <3>4, <4>2, SMT DEF RenameStage, Goes, Ends, Step
      <4> QED
        BY <3>4, <4>1, <4>2 DEF RenameStage
    <3> QED
      BY <2>2, <3>1, <3>2, <3>3, <3>4 DEF Offline
  <2>3. CASE Online
    <3>1. CASE BeginOnline
      <4>1. manifest' \in BOOLEAN /\ artifact' = "absent" /\ Begins("online", "clearing")
        BY <3>1 DEF BeginOnline, GivenNothing
      <4>2. hesar \in Contents
        OBVIOUS
      <4> QED
        BY <4>1, <4>2, SMT DEF Begins, Step
    <3>2. CASE ClearOld
      BY <3>2, SMT DEF ClearOld, Goes, Ends, Step
    <3>3. CASE Fetch
      <4>1. CASE Goes("fetching", "attesting") /\ hesar' \in Release \cup {"foreign"}
        BY <3>3, <4>1, SMT DEF Fetch, Goes, Ends, Step
      <4>2. CASE Goes("fetching", "building") /\ hesar' \in {"absent", "partial"}
        BY <3>3, <4>2, SMT DEF Fetch, Goes, Ends, Step
      <4> QED
        BY <3>3, <4>1, <4>2 DEF Fetch
    <3>4. CASE Attest
      <4>1. CASE Goes("attesting", "activating") /\ hesar \in Release /\ UNCHANGED hesar
        BY <3>4, <4>1, SMT DEF Attest, Goes, Ends, Step
      <4>2. CASE Goes("attesting", "building") /\ hesar' = "absent"
        BY <3>4, <4>2, SMT DEF Attest, Goes, Ends, Step
      <4> QED
        BY <3>4, <4>1, <4>2 DEF Attest
    <3>5. CASE BuildFromSource
      <4>1. CASE Step("building", "activating")
        <5>1. hesar' \in {"built", hesar} /\ failed' \in {failed, failed \cup {"build"}}
          BY <3>5, <4>1 DEF BuildFromSource, Ends, Step
        <5>2. UNCHANGED <<bak, tmp, stage, unit, given, task, before, said>>
          BY <3>5, <4>1 DEF BuildFromSource, Ends, Step
        <5> QED
          BY <4>1, <5>1, <5>2, SMT DEF Step
      <4>2. CASE Ends("building", "failed") /\ UNCHANGED hesar
        BY <3>5, <4>2, SMT DEF BuildFromSource, Goes, Ends, Step
      <4> QED
        BY <3>5, <4>1, <4>2 DEF BuildFromSource
    <3> QED
      BY <2>3, <3>1, <3>2, <3>3, <3>4, <3>5 DEF Online
  <2>4. CASE Activate
    <3>1. CASE Ends("activating", "installed") /\ Launch
      BY <2>4, <3>1, SMT DEF Activate, Goes, Ends, Step, Launch
    <3>2. CASE /\ Ends("activating", "died") \/ Ends("activating", "installed")
               /\ service' \in {service, "stopped"} /\ UNCHANGED image
      <4>1. pc' = "idle" /\ said' \in {"died", "installed"}
        BY <3>2 DEF Ends, Step
      <4>2. UNCHANGED <<files, given, task, before, failed>>
        BY <2>4, <3>2 DEF Activate, Ends
      <4> QED
        BY <3>2, <4>1, <4>2, SMT
    <3> QED
      BY <2>4, <3>1, <3>2 DEF Activate
  <2>5. CASE Uninstall
    <3>1. CASE BeginUninstall
      <4>1. manifest' \in BOOLEAN /\ artifact' = "absent" /\ Begins("uninstall", "disabling")
        BY <3>1 DEF BeginUninstall, GivenNothing
      <4>2. hesar \in Contents
        OBVIOUS
      <4> QED
        BY <4>1, <4>2, SMT DEF Begins, Step
    <3>2. CASE DisableUnit
      BY <3>2, SMT DEF DisableUnit, Goes, Ends, Step
    <3>3. CASE EraseFiles
      <4>1. CASE Ends("erasing", "uninstalled") /\ hesar' = "absent"
        BY <3>3, <4>1, SMT DEF EraseFiles, Goes, Ends, Step
      <4>2. CASE Ends("erasing", "died") /\ UNCHANGED hesar
        BY <3>3, <4>2, SMT DEF EraseFiles, Goes, Ends, Step
      <4> QED
        BY <3>3, <4>1, <4>2 DEF EraseFiles
    <3> QED
      BY <2>5, <3>1, <3>2, <3>3 DEF Uninstall
  <2>6. CASE Environment
    <3>1. CASE Interrupt
      BY <3>1, SMT DEF Interrupt
    <3>2. CASE Reboot
      BY <3>2, SMT DEF Reboot, Restart, Launch
    <3>3. CASE DaemonDies
      BY <3>3, SMT DEF DaemonDies
    <3>4. CASE SystemdRestarts
      BY <3>4, SMT DEF SystemdRestarts, Launch
    <3> QED
      BY <2>6, <3>1, <3>2, <3>3, <3>4 DEF Environment
  <2>7. CASE UNCHANGED vars
    BY <2>7, SMT DEF vars
  <2> QED
    BY <2>1, <2>2, <2>3, <2>4, <2>5, <2>6, <2>7 DEF Next
<1> QED
  BY <1>1, <1>2, PTL DEF Spec

Backed == {"stopping", "downloading", "verifying", "restoring", "starting",
           "removing", "moving", "restarting", "checking",
           "rollingBack", "reinstating", "reviving"}
Staging == {"staging", "validating", "renaming"}
Fetching == {"clearing", "fetching", "attesting", "building"}

(* Every command belongs to a run of its own kind.                         *)
CommandsFit ==
    /\ pc \in Backed \cup {"backingUp"} => task = "update"
    /\ pc \in Staging => task = "offline"
    /\ pc \in Fetching => task = "online"
    /\ pc = "activating" => task \in {"offline", "online"}
    /\ pc \in {"disabling", "erasing"} => task = "uninstall"
    /\ pc \in {"idle", "activating"} \cup Backed \cup {"backingUp"} \cup Staging
                \cup Fetching \cup {"disabling", "erasing"}
    /\ said # "nothing" => pc = "idle"

(* From the copy to hesar.bak on the old binary is there; until something  *)
(* is copied or moved over it, it is in place too.                         *)
OldBinaryInv ==
    /\ pc \in {"backingUp", "stopping"} => hesar = before
    /\ pc \in Backed /\ "backup" \notin failed => bak = before
    /\ pc \in {"starting", "reviving"} /\ failed = {} => hesar = before
    /\ OldBinaryKept /\ RestoredIsPrevious

(* What goes in place was verified first, and the daemon started from it.  *)
VerifiedInv ==
    /\ pc \in {"removing", "moving"} => tmp \in Release
    /\ pc \in {"restarting", "checking"} => hesar \in Release
    /\ pc = "checking" => image = hesar
    /\ said = "updated" => hesar \in Release /\ image = hesar

StagedInv ==
    /\ pc \in {"validating", "renaming"} => stage = artifact
    /\ pc = "renaming" /\ manifest => artifact \in Release
    /\ pc = "building" => hesar \in {"absent", "partial"}
    /\ pc = "activating" /\ task = "online" =>
          \/ hesar \in Release \cup {"built"}
          \/ "build" \in failed /\ hesar \in {"absent", "partial"}
    /\ InstallsWhole

InstallerInv == CommandsFit /\ OldBinaryInv /\ VerifiedInv /\ StagedInv

LEMMA InitSound == Init => InstallerInv
BY SMT DEF Init, InstallerInv, CommandsFit, OldBinaryInv, VerifiedInv, StagedInv,
   OldBinaryKept, RestoredIsPrevious, InstallsWhole, OfflineIsAtomic, OnlineIsVerified,
   Backed, Staging, Fetching

(* A command that belongs to one part of an update.                        *)
LEMMA UpdateSound == InstallerInv /\ Update => InstallerInv'
<1> SUFFICES ASSUME InstallerInv, Update PROVE InstallerInv'
  OBVIOUS
<1> USE DEF InstallerInv, CommandsFit, OldBinaryInv, VerifiedInv, StagedInv,
        OldBinaryKept, RestoredIsPrevious, InstallsWhole, OfflineIsAtomic, OnlineIsVerified,
        Backed, Staging, Fetching, Step, Goes, Ends, GivenNothing, files, unit, given, run
<1>1. CASE BeginUpdate
  BY <1>1, SMT DEF BeginUpdate, Begins
<1>2. CASE BackUp
  BY <1>2, SMT DEF BackUp, Copied
<1>3. CASE StopForUpdate
  BY <1>3, SMT DEF StopForUpdate, StopUnit
<1>4. CASE Download
  BY <1>4, SMT DEF Download
<1>5. CASE Verify
  BY <1>5, SMT DEF Verify
<1>6. CASE CopyBack
  BY <1>6, SMT DEF CopyBack, Copied
<1>7. CASE StartOld
  BY <1>7, SMT DEF StartOld, Restart, Launch
<1>8. CASE RemoveOld
  BY <1>8, SMT DEF RemoveOld
<1>9. CASE MoveNew
  BY <1>9, SMT DEF MoveNew
<1>10. CASE RestartNew
  BY <1>10, SMT DEF RestartNew, StopUnit, Restart, Launch
<1>11. CASE CheckActive
  BY <1>11, SMT DEF CheckActive, Restart, Launch
<1>12. CASE StopToRollBack
  BY <1>12, SMT DEF StopToRollBack, StopUnit
<1>13. CASE RestartOld
  BY <1>13, SMT DEF RestartOld, Restart, Launch
<1> QED
  BY <1>1, <1>2, <1>3, <1>4, <1>5, <1>6, <1>7, <1>8, <1>9, <1>10, <1>11, <1>12,
     <1>13 DEF Update

(* The installations and the removal.                                      *)
LEMMA InstallSound ==
    InstallerInv /\ (Offline \/ Online \/ Activate \/ Uninstall) => InstallerInv'
<1> SUFFICES ASSUME InstallerInv, Offline \/ Online \/ Activate \/ Uninstall
             PROVE  InstallerInv'
  OBVIOUS
<1> USE DEF InstallerInv, CommandsFit, OldBinaryInv, VerifiedInv, StagedInv,
        OldBinaryKept, RestoredIsPrevious, InstallsWhole, OfflineIsAtomic, OnlineIsVerified,
        Backed, Staging, Fetching, Step, Goes, Ends, GivenNothing, files, unit, given, run
<1>1. CASE BeginOffline \/ BeginOnline \/ BeginUninstall
  BY <1>1, SMT DEF BeginOffline, BeginOnline, BeginUninstall, Begins
<1>2. CASE StageArtifact
  BY <1>2, SMT DEF StageArtifact
<1>3. CASE Validate
  BY <1>3, SMT DEF Validate
<1>4. CASE RenameStage
  BY <1>4, SMT DEF RenameStage
<1>5. CASE ClearOld \/ Fetch
  BY <1>5, SMT DEF ClearOld, Fetch
<1>6. CASE Attest \/ BuildFromSource
  BY <1>6, SMT DEF Attest, BuildFromSource
<1>7. CASE Activate
  BY <1>7, SMT DEF Activate, Launch
<1>8. CASE DisableUnit \/ EraseFiles
  BY <1>8, SMT DEF DisableUnit, EraseFiles
<1> QED
  BY <1>1, <1>2, <1>3, <1>4, <1>5, <1>6, <1>7, <1>8 DEF Offline, Online, Uninstall

(* Interruptions, reboots and what systemd does on its own.                *)
LEMMA EnvironmentSound == InstallerInv /\ Environment => InstallerInv'
<1> SUFFICES ASSUME InstallerInv, Environment PROVE InstallerInv'
  OBVIOUS
<1> USE DEF InstallerInv, CommandsFit, OldBinaryInv, VerifiedInv, StagedInv,
        OldBinaryKept, RestoredIsPrevious, InstallsWhole, OfflineIsAtomic, OnlineIsVerified,
        Backed, Staging, Fetching, files, unit, given, run
<1>1. CASE Interrupt
  BY <1>1, SMT DEF Interrupt
<1>2. CASE Reboot
  BY <1>2, SMT DEF Reboot, Restart, Launch
<1>3. CASE DaemonDies \/ SystemdRestarts
  BY <1>3, SMT DEF DaemonDies, SystemdRestarts, Launch
<1> QED
  BY <1>1, <1>2, <1>3 DEF Environment

LEMMA StepSound == InstallerInv /\ [Next]_vars => InstallerInv'
<1> SUFFICES ASSUME InstallerInv, [Next]_vars PROVE InstallerInv'
  OBVIOUS
<1>1. CASE Next
  BY <1>1, UpdateSound, InstallSound, EnvironmentSound DEF Next
<1>2. CASE UNCHANGED vars
  BY <1>2, SMT DEF vars, files, unit, given, run, InstallerInv, CommandsFit, OldBinaryInv,
     VerifiedInv, StagedInv, OldBinaryKept, RestoredIsPrevious, InstallsWhole, OfflineIsAtomic, OnlineIsVerified
<1> QED
  BY <1>1, <1>2

(* What each command of the script may rely on.                            *)
THEOREM CommandsOrdered == Spec => []InstallerInv
BY InitSound, StepSound, PTL DEF Spec

(* No failure and no interruption of an update loses the old binary.       *)
THEOREM OldBinaryAlwaysKept == Spec => []OldBinaryKept
<1>1. InstallerInv => OldBinaryKept
  BY DEF InstallerInv, OldBinaryInv
<1> QED
  BY <1>1, CommandsOrdered, PTL

(* The report of a roll-back is true when its copies succeeded.            *)
THEOREM RestoredIsAlwaysPrevious == Spec => []RestoredIsPrevious
<1>1. InstallerInv => RestoredIsPrevious
  BY DEF InstallerInv, OldBinaryInv
<1> QED
  BY <1>1, CommandsOrdered, PTL

(* The report of an update is true.                                        *)
THEOREM UpdatedIsAlwaysEarned == Spec => []UpdatedIsEarned
<1>1. InstallerInv => UpdatedIsEarned
  BY DEF InstallerInv, VerifiedInv, UpdatedIsEarned
<1> QED
  BY <1>1, CommandsOrdered, PTL

(* An offline installation leaves the binary it found or the artifact it   *)
(* was given, and with a manifest beside that nothing new that it does not *)
(* vouch for; one that downloads never reports success with a download     *)
(* that was refused.                                                       *)
THEOREM InstallsAlwaysWhole == Spec => []InstallsWhole
<1>1. InstallerInv => InstallsWhole
  BY DEF InstallerInv, StagedInv
<1> QED
  BY <1>1, CommandsOrdered, PTL

=============================================================================
