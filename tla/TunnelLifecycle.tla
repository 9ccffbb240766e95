-------------------------- MODULE TunnelLifecycle --------------------------
(***************************************************************************)
(* The life of the configured tunnels: the HTTP handlers that save,        *)
(* delete, start and stop them (internal/api/handlers.go), the manager     *)
(* that owns the running ones (internal/tunnel/manager.go), the store      *)
(* (ConfigStore), and the process that boots, auto-starts, shuts down and  *)
(* crashes (cmd/hesar/main.go).                                            *)
(*                                                                         *)
(* A request is a goroutine.  The manager's mutex is held from the change  *)
(* of the handler map to the saved status; the store has a mutex of its    *)
(* own, taken inside it.  A handler that needs both takes them one after   *)
(* the other, and what it read under the first may be stale by the second. *)
(* Binding several ports one by one is TunnelHandler's subject: here a     *)
(* Start binds all its ports or none.                                      *)
(***************************************************************************)
EXTENDS ConfigStore, TunnelSettings

CONSTANTS
    Request,      \* goroutines that serve requests
    Main,         \* the main goroutine
    Nobody,       \* holder of a free mutex, subject of an idle goroutine
    Submitted,    \* tunnels clients post; the panel leaves the status out
    MaxCrashes    \* bound: how often the process may crash

ASSUME ProcAssumption == Main \notin Request /\ Nobody \notin Request \cup {Main}
ASSUME CrashesAssumption == MaxCrashes \in Nat
ASSUME SubmittedAssumption ==
    \A form \in Submitted : /\ form.status = ""
                             /\ form.ports \in Seq(Part)
                             /\ PortsToBind(form) \subseteq Port

VARIABLES
    phase,     \* of the process
    handlers,  \* m.handlers: per tunnel the ports its handler has bound
    owner,     \* who holds the manager's mutex
    task,      \* per goroutine: where it is, and the settings it has read
    todo,      \* tunnels main has still to auto-start or to mark inactive
    crashes,
    history    \* what clients asked for and were told

vars == <<storeVars, phase, handlers, owner, task, todo, crashes, history>>

Proc == Request \cup {Main}
Busy == {"start", "up", "failed", "stop", "delete", "drop", "settle"}
Idle == [at |-> "idle", id |-> Nobody, ports |-> {}]
Task == {Idle} \cup [at : Busy, id : Id, ports : SUBSET Port]

Running == {id \in Id : handlers[id] # {}}

History == [issued : SUBSET Id,    \* ever handed out by generateSecureID
            created : SUBSET Id,   \* answered 200 to a create, not deleted
            deleted : SUBSET Id,   \* answered 200 to a delete
            wanted : SUBSET Id,    \* started by the operator or at boot,
                                   \* and neither stopped nor deleted since
            shutdown : BOOLEAN]    \* a regular shutdown has been begun

TypeOK ==
    /\ StoreTypeOK
    /\ phase \in {"off", "booting", "serving", "stopping", "exiting"}
    /\ handlers \in [Id -> SUBSET Port]
    /\ owner \in Proc \cup {Nobody}
    /\ task \in [Proc -> Task]
    /\ todo \subseteq Id
    /\ crashes \in 0..MaxCrashes
    /\ history \in History

Init ==
    /\ StoreInit
    /\ phase = "off"
    /\ handlers = [id \in Id |-> {}]
    /\ owner = Nobody
    /\ task = [p \in Proc |-> Idle]
    /\ todo = {}
    /\ crashes = 0
    /\ history = [issued |-> {}, created |-> {}, deleted |-> {}, wanted |-> {},
                shutdown |-> FALSE]

At(p, where) == task[p].at = where
Goto(p, where) == task' = [task EXCEPT ![p].at = where]
Begin(p, where, id, ports) ==
    /\ At(p, "idle")
    /\ task' = [task EXCEPT ![p] = [at |-> where, id |-> id, ports |-> ports]]
Done(p) == task' = [task EXCEPT ![p] = Idle]

Answering == phase \in {"serving", "stopping", "exiting"}

-----------------------------------------------------------------------------
(* The manager.  A step that changes the handler map takes the mutex; the  *)
(* step that saves the status lets it go.                                  *)

CanBind(id, ports) ==
    ports # {} /\ ports \cap UNION {handlers[x] : x \in Id \ {id}} = {}

TakeOver(p, id, ports) ==
    /\ owner = Nobody
    /\ owner' = p
    /\ handlers' = [handlers EXCEPT ![id] = ports]

(* StartTunnel: an existing handler is stopped first, whatever follows. *)
StartBinds(p) ==
    /\ At(p, "start")
    /\ CanBind(task[p].id, task[p].ports)
    /\ TakeOver(p, task[p].id, task[p].ports)
    /\ Goto(p, "up")
    /\ UNCHANGED <<storeVars, phase, todo, crashes, history>>

(* The settings cannot be started (Start; newHandler knows every protocol  *)
(* a save accepts), or a port is taken, here or by another program.        *)
StartFails(p) ==
    /\ At(p, "start")
    /\ TakeOver(p, task[p].id, {})
    /\ Goto(p, "failed")
    /\ UNCHANGED <<storeVars, phase, todo, crashes, history>>

StartEnds(p) ==
    LET id == task[p].id IN
    /\ At(p, "up")
    /\ UpdateTunnelStatus(id, "active")
    /\ owner' = Nobody
    /\ Done(p)
    /\ history' = IF Known(id) THEN [history EXCEPT !.wanted = @ \cup {id}]
                               ELSE history
    /\ UNCHANGED <<phase, handlers, todo, crashes>>

(* Mutant: the status of a tunnel that could not start stays as it was. *)
FailureKeepsStatus(p) ==
    /\ At(p, "failed")
    /\ owner' = Nobody
    /\ Done(p)
    /\ history' = [history EXCEPT !.wanted = @ \ {task[p].id}]
    /\ UNCHANGED <<storeVars, phase, handlers, todo, crashes>>

(* Mutant: the error return of StartTunnel leaves the mutex locked. *)
FailureKeepsMutex(p) ==
    /\ At(p, "failed")
    /\ UpdateTunnelStatus(task[p].id, "inactive")
    /\ IF p = Main THEN Goto(p, "settle") ELSE Done(p)
    /\ history' = [history EXCEPT !.wanted = @ \ {task[p].id}]
    /\ UNCHANGED <<phase, handlers, owner, todo, crashes>>

(* Main goes on to UpdateTunnelStatus once more when its start failed. *)
FailureEnds(p) ==
    /\ At(p, "failed")
    /\ UpdateTunnelStatus(task[p].id, "inactive")
    /\ owner' = Nobody
    /\ IF p = Main THEN Goto(p, "settle") ELSE Done(p)
    /\ history' = [history EXCEPT !.wanted = @ \ {task[p].id}]
    /\ UNCHANGED <<phase, handlers, todo, crashes>>

(* StopTunnel, for a request that stops, or that goes on to delete. *)
StopHandler(p, id, where) ==
    /\ id \in Running
    /\ TakeOver(p, id, {})
    /\ Begin(p, where, id, {})
    /\ UNCHANGED <<storeVars, phase, todo, crashes, history>>

StopEnds(p) ==
    /\ At(p, "stop") \/ At(p, "delete")
    /\ UpdateTunnelStatus(task[p].id, "inactive")
    /\ owner' = Nobody
    /\ IF At(p, "delete") THEN Goto(p, "drop") ELSE Done(p)
    /\ history' = [history EXCEPT !.wanted = @ \ {task[p].id}]
    /\ UNCHANGED <<phase, handlers, todo, crashes>>

-----------------------------------------------------------------------------
(* The HTTP handlers.                                                      *)

(* TunnelSaveHandler without an identifier: a fresh one, then AddTunnel. *)
Create(r, id, form) ==
    /\ Answering /\ At(r, "idle")
    /\ id \notin history.issued
    /\ ValidateTunnel(form)
    /\ AddTunnel(id, PortsToBind(form), form.status)
    /\ \/ /\ SaveSucceeds
          /\ history' = [history EXCEPT !.issued = @ \cup {id},
                                        !.created = @ \cup {id}]
       \/ /\ SaveFails
          /\ history' = [history EXCEPT !.issued = @ \cup {id}]
    /\ UNCHANGED <<phase, handlers, owner, task, todo, crashes>>

(* TunnelSaveHandler with one: UpdateTunnel.  A running handler keeps the  *)
(* settings it was started with.                                           *)
Update(r, id, form) ==
    /\ Answering /\ At(r, "idle")
    /\ ValidateTunnel(form)
    /\ UpdateTunnel(id, PortsToBind(form), form.status)
    /\ SaveSucceeds \/ SaveFails
    /\ UNCHANGED <<phase, handlers, owner, task, todo, crashes, history>>

(* TunnelStartHandler reads the settings, and starts with that copy. *)
StartRequest(r, id) ==
    /\ Answering
    /\ Known(id)
    /\ Begin(r, "start", id, mem[id].ports)
    /\ UNCHANGED <<storeVars, phase, handlers, owner, todo, crashes, history>>

StopRequest(r, id) == Answering /\ StopHandler(r, id, "stop")

(* TunnelDeleteHandler stops the tunnel if it is running ..               *)
DeleteRunning(r, id) == Answering /\ StopHandler(r, id, "delete")

DeleteStopped(r, id) ==
    /\ Answering
    /\ owner = Nobody
    /\ id \notin Running
    /\ Known(id)
    /\ Begin(r, "drop", id, {})
    /\ UNCHANGED <<storeVars, phase, handlers, owner, todo, crashes, history>>

(* .. and then removes it from the store, in a second critical section. *)
DeleteEnds(r) ==
    LET id == task[r].id IN
    /\ At(r, "drop")
    /\ Done(r)
    /\ DeleteTunnel(id)
    /\ \/ /\ SaveSucceeds
          /\ history' = [history EXCEPT !.deleted = @ \cup {id},
                            !.created = @ \ {id}, !.wanted = @ \ {id}]
       \/ /\ SaveFails
          /\ history' = [history EXCEPT !.created = @ \ {id},
                                        !.wanted = @ \ {id}]
    /\ UNCHANGED <<phase, handlers, owner, todo, crashes>>

DeleteFindsNothing(r) ==
    /\ At(r, "drop")
    /\ ~Known(task[r].id)
    /\ Done(r)
    /\ UNCHANGED <<storeVars, phase, handlers, owner, todo, crashes, history>>

-----------------------------------------------------------------------------
(* The process.                                                            *)

(* Load, then the snapshot StartConfiguredActiveTunnels iterates over. *)
Boot ==
    /\ phase = "off"
    /\ phase' = "booting"
    /\ Load
    /\ todo' = {id \in Id : disk[id].status = "active"}
    /\ UNCHANGED <<handlers, owner, task, crashes, history>>

AutoStart(id) ==
    /\ phase = "booting"
    /\ id \in todo
    /\ Begin(Main, "start", id, mem[id].ports)
    /\ todo' = todo \ {id}
    /\ UNCHANGED <<storeVars, phase, handlers, owner, crashes, history>>

AutoStartSettles ==
    /\ At(Main, "settle")
    /\ UpdateTunnelStatus(task[Main].id, "inactive")
    /\ Done(Main)
    /\ UNCHANGED <<phase, handlers, owner, todo, crashes, history>>

Serve ==
    /\ phase = "booting"
    /\ todo = {} /\ At(Main, "idle")
    /\ phase' = "serving"
    /\ UNCHANGED <<storeVars, handlers, owner, task, todo, crashes, history>>

(* SIGTERM: StopAll takes over the handler map; requests still arrive, for *)
(* nothing waits for the server to have stopped.                           *)
Shutdown ==
    /\ phase = "serving"
    /\ owner = Nobody
    /\ phase' = "stopping"
    /\ owner' = Main
    /\ todo' = Running
    /\ handlers' = [id \in Id |-> {}]
    /\ history' = [history EXCEPT !.shutdown = TRUE]
    /\ UNCHANGED <<storeVars, task, crashes>>

StopAllMarks(id) ==
    /\ phase = "stopping"
    /\ id \in todo
    /\ UpdateTunnelStatus(id, "inactive")
    /\ todo' = todo \ {id}
    /\ UNCHANGED <<phase, handlers, owner, task, crashes, history>>

StopAllEnds ==
    /\ phase = "stopping"
    /\ todo = {}
    /\ phase' = "exiting"
    /\ owner' = Nobody
    /\ UNCHANGED <<storeVars, handlers, task, todo, crashes, history>>

(* The process is gone, and with it every goroutine, handler and mutex. *)
Die ==
    /\ phase' = "off"
    /\ mem' = [id \in Id |-> NoEntry]
    /\ handlers' = [id \in Id |-> {}]
    /\ owner' = Nobody
    /\ task' = [p \in Proc |-> Idle]
    /\ todo' = {}
    /\ UNCHANGED <<disk, faults, history>>

Exit == phase = "exiting" /\ Die /\ UNCHANGED crashes

Crash ==
    /\ phase # "off"
    /\ crashes < MaxCrashes
    /\ crashes' = crashes + 1
    /\ Die

-----------------------------------------------------------------------------

ManagerStep(p) ==
    \/ StartBinds(p) \/ StartFails(p) \/ StartEnds(p) \/ FailureEnds(p)
    \/ StopEnds(p)

RequestStep(r) ==
    \/ DeleteEnds(r) \/ DeleteFindsNothing(r)
    \/ \E id \in Id :
         \/ StartRequest(r, id) \/ StopRequest(r, id)
         \/ DeleteRunning(r, id) \/ DeleteStopped(r, id)
         \/ \E form \in Submitted : Create(r, id, form) \/ Update(r, id, form)

MainStep ==
    \/ Boot \/ AutoStartSettles \/ Serve \/ Shutdown \/ StopAllEnds \/ Exit
    \/ \E id \in Id : AutoStart(id) \/ StopAllMarks(id)

Next ==
    \/ MainStep
    \/ Crash
    \/ \E p \in Proc : ManagerStep(p)
    \/ \E r \in Request : RequestStep(r)

Spec == Init /\ [][Next]_vars

(* A started request and a started boot or shutdown run to their end; a    *)
(* goroutine that waits for the manager's mutex gets it in the end (Go's   *)
(* mutexes do not starve a waiter).  Nobody has to send a request, to shut *)
(* the process down, or to boot it.                                        *)
Fairness ==
    /\ \A p \in Proc :
         /\ SF_vars(StartBinds(p) \/ StartFails(p))
         /\ WF_vars(StartEnds(p) \/ FailureEnds(p) \/ StopEnds(p))
    /\ \A r \in Request : WF_vars(DeleteEnds(r) \/ DeleteFindsNothing(r))
    /\ WF_vars(AutoStartSettles \/ Serve \/ StopAllEnds \/ Exit)
    /\ \A id \in Id : WF_vars(AutoStart(id) \/ StopAllMarks(id))

FairSpec == Spec /\ Fairness

-----------------------------------------------------------------------------
(* Properties.                                                             *)

(* What the panel shows is what runs: between lifecycle operations, and    *)
(* whatever edits, failed starts, failed saves and restarts came before, a *)
(* stored tunnel is marked active exactly when it has a running handler.   *)
StatusAgrees ==
    phase \in {"serving", "exiting"} /\ owner = Nobody =>
        \A id \in Id : Known(id) =>
            (mem[id].status = "active" <=> id \in Running)

(* What a client was told survives the process: a tunnel reported created  *)
(* is in the file until a delete removes it, and one reported deleted is   *)
(* gone from memory and file for good, through failed saves of other       *)
(* requests and crashes at any point.                                      *)
AnswersSurvive ==
    /\ \A id \in history.created : disk[id].status # "none"
    /\ \A id \in history.deleted : disk[id].status = "none" /\ ~Known(id)

(* "An omitted status must therefore mean keep" (config.go:463-468): while *)
(* the process serves and saves succeed, a tunnel the operator started is  *)
(* marked active in the file, whatever edits are made and wherever it      *)
(* crashed before, so that the next boot starts it.                        *)
AutoStartRecorded ==
    phase = "serving" /\ faults = 0 /\ ~history.shutdown =>
        \A id \in history.wanted : disk[id].status = "active"

(* A tunnel "the operator had explicitly enabled" must not have auto-start *)
(* "silently disabled" (config.go:465-468), so also not when the process   *)
(* has been shut down in the regular way.                                  *)
AutoStartSurvivesShutdown ==
    phase = "off" /\ faults = 0 =>
        \A id \in history.wanted : disk[id].status = "active"

(* "Tunnel deleted" (handlers.go:330), "permanently" (Tunnels.tsx:480):    *)
(* once no request is in progress, no deleted tunnel is running.           *)
DeletedNeverRuns ==
    (\A p \in Proc : At(p, "idle")) => history.deleted \cap Running = {}

(* A port list means the ports it names: a running tunnel has bound each   *)
(* port its list names and no other, and, however its ranges overlap, a    *)
(* list names a port once and is refused exactly when a part of it is not  *)
(* a port or a range, when it names nothing, or when it names more         *)
(* different ports than a tunnel may have (helper.go:25-79).               *)
PortsParsed ==
    /\ ListsParsed
    /\ \A id \in Running :
          \E form \in Submitted : handlers[id] = NamedBy(form)

(* What a save accepts a start can use.  Every stored tunnel, also after a *)
(* restart, is one validation let through, and newHandler or Start refuses *)
(* it only for the two reasons the save does not look at, its port list    *)
(* and the disabled UDP relay.  Its key is one somebody chose: an edit     *)
(* that echoes the mask of the stored key, or leaves the key out, keeps    *)
(* it, and no mask gets stored as a key, not even by a create, which does  *)
(* not look for masks (config.go:150-215, 455-461; handlers.go:125-140,    *)
(* 294-296).                                                               *)
SavedIsUsable ==
    /\ FormsUsable
    /\ KeysKept
    /\ \A id \in Id : Known(id) =>
          \E form \in Submitted :
              ValidateTunnel(form) /\ mem[id].ports = PortsToBind(form)

(* Every start and delete that was begun comes to an end, and a shutdown   *)
(* ends the process, although all of them compete for one mutex.           *)
OperationsEnd ==
    /\ \A p \in Proc : ~At(p, "idle") ~> At(p, "idle")
    /\ phase = "stopping" ~> phase = "off"

-----------------------------------------------------------------------------
(* Why these hold: the inductive invariant.                                *)

Holding == {"up", "failed", "stop", "delete"}

(* The mutex belongs to the goroutine between a change of the handler map  *)
(* and the saved status, and to main throughout a shutdown.                *)
OwnerHolds ==
    /\ \A p \in Proc : task[p].at \in Holding => owner = p
    /\ \/ owner = Nobody
       \/ task[owner].at \in Holding
       \/ owner = Main /\ phase = "stopping"
    /\ phase = "stopping" => owner = Main

(* Who can be where in which phase. *)
Stages ==
    /\ task[Main].at \in {"idle", "start", "up", "failed", "settle"}
    /\ task[Main].at # "idle" => phase = "booting" /\ task[Main].id \notin todo
    /\ \A r \in Request : task[r].at # "settle"
    /\ phase \in {"off", "booting"} => \A r \in Request : At(r, "idle")
    /\ phase \notin {"booting", "stopping"} => todo = {}
    /\ phase \in {"stopping", "exiting"} => history.shutdown
    /\ phase = "off" => \A id \in Id : ~Known(id)

(* What the handler map holds at each of these places. *)
HandlerStages ==
    /\ \A p \in Proc :
          /\ At(p, "up") => task[p].id \in Running
          /\ task[p].at \in {"failed", "stop", "delete", "settle"} =>
                task[p].id \notin Running
    /\ phase \in {"off", "stopping"} => Running = {}

(* Identifiers are fresh: nothing of a tunnel exists before its creation.  *)
AllIssued ==
    /\ {id \in Id : Known(id) \/ disk[id].status # "none"} \subseteq history.issued
    /\ Running \cup todo \subseteq history.issued
    /\ \A p \in Proc : task[p].at # "idle" => task[p].id \in history.issued

(* Main has still to start, or to mark, these. *)
Pending == todo \cup {id \in Id : At(Main, "start") /\ task[Main].id = id}

Held(id) == \E p \in Proc : task[p].at \in Holding /\ task[p].id = id

Agreement ==
    \A id \in Id : Known(id) /\ ~Held(id) =>
        (mem[id].status = "active" <=> id \in Running \cup Pending)

LifecycleInv ==
    TypeOK /\ OwnerHolds /\ Stages /\ HandlerStages /\ AllIssued /\ Agreement

(* AnswersSurvive is inductive with what memory knows of the answers. *)
AnswersKept ==
    /\ AnswersSurvive
    /\ history.created \cup history.deleted \subseteq history.issued
    /\ phase # "off" => \A id \in history.created : Known(id)

(* AutoStartRecorded with what it needs while the process boots. *)
WantedRecorded ==
    /\ faults = 0 /\ phase # "off" => mem = disk
    /\ faults = 0 /\ ~history.shutdown =>
          \A id \in history.wanted : disk[id].status = "active"
    /\ At(Main, "settle") => task[Main].id \notin history.wanted

(* What is stored, being started or running has the ports of a valid form. *)
OfForm(ports) ==
    \E form \in Submitted : ValidateTunnel(form) /\ ports = PortsToBind(form)

PortsOfForms ==
    /\ \A id \in Id : /\ Known(id) => OfForm(mem[id].ports)
                      /\ disk[id].status # "none" => OfForm(disk[id].ports)
                      /\ id \in Running => OfForm(handlers[id])
    /\ \A p \in Proc : task[p].at \in {"start", "up"} => OfForm(task[p].ports)
    /\ phase = "booting" => \A id \in todo : Known(id)

=============================================================================
