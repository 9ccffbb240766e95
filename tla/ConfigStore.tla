---------------------------- MODULE ConfigStore ----------------------------
(***************************************************************************)
(* The tunnel list of internal/config/config.go: the copy every request    *)
(* reads and writes in memory, and the file it is saved to.                *)
(*                                                                         *)
(* Every setter changes memory first, under m.mu, and then saves.  A save  *)
(* writes a temporary file and renames it, so the file is either the old   *)
(* or the new list, never a torn one; a save that fails leaves memory      *)
(* changed and the file as it was.                                         *)
(***************************************************************************)
EXTENDS Naturals

CONSTANTS
    Id,        \* tunnel identifiers
    Port,      \* local ports
    MaxFaults  \* bound: how many saves may fail

ASSUME FaultsAssumption == MaxFaults \in Nat

(* The settings of a tunnel that matter here are the ports it binds, {}   *)
(* when a start refuses it for its settings.                              *)
Entry == [status : {"none", "inactive", "active"}, ports : SUBSET Port]
NoEntry == [status |-> "none", ports |-> {}]

VARIABLES
    mem,     \* m.config.Tunnels, by identifier; NoEntry where there is none
    disk,    \* the tunnels of the file m.configPath
    faults   \* how many saves have failed

storeVars == <<mem, disk, faults>>

StoreTypeOK ==
    /\ mem \in [Id -> Entry]
    /\ disk \in [Id -> Entry]
    /\ faults \in 0..MaxFaults

Known(id) == mem[id].status # "none"

StoreInit ==
    /\ mem = [id \in Id |-> NoEntry]
    /\ disk = mem
    /\ faults = 0

(* Load, at boot. *)
Load ==
    /\ mem' = disk
    /\ UNCHANGED <<disk, faults>>

(* Mutant: a setter that, like UpdateTunnelStats, does not save. *)
SaveSkipped == UNCHANGED <<disk, faults>>

(* saveLocked, the last step of every setter; it reports whether it saved. *)
SaveSucceeds ==
    /\ disk' = mem'
    /\ UNCHANGED faults

SaveFails ==
    /\ faults < MaxFaults
    /\ faults' = faults + 1
    /\ UNCHANGED disk

Put(id, entry) == mem' = [mem EXCEPT ![id] = entry]

(* AddTunnel, with a fresh identifier; no status is stored as inactive. *)
AddTunnel(id, ports, status) ==
    Put(id, [status |-> IF status = "" THEN "inactive" ELSE status,
             ports |-> ports])

(* Mutant: an edit that omits the status clears it. *)
UpdateClearsStatus(id, ports, status) ==
    /\ Known(id)
    /\ Put(id, [status |-> IF status = "" THEN "inactive" ELSE status,
                ports |-> ports])

(* UpdateTunnel: an empty status keeps the stored one. *)
UpdateTunnel(id, ports, status) ==
    /\ Known(id)
    /\ Put(id, [status |-> IF status = "" THEN mem[id].status ELSE status,
                ports |-> ports])

DeleteTunnel(id) == Known(id) /\ Put(id, NoEntry)

(* UpdateTunnelStatus returns ErrTunnelNotFound, and saves nothing, for an *)
(* identifier that is not stored.  The manager ignores both errors.        *)
UpdateTunnelStatus(id, status) ==
    IF Known(id)
        THEN /\ Put(id, [mem[id] EXCEPT !.status = status])
             /\ SaveSucceeds \/ SaveFails
        ELSE UNCHANGED storeVars

=============================================================================
