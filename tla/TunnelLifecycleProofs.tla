------------------------- MODULE TunnelLifecycleProofs -------------------------
(***************************************************************************)
(* What TunnelLifecycle promises about the status, the answers and the     *)
(* auto-start of tunnels, proved for any number of tunnels, requests,      *)
(* failed saves and crashes.                                               *)
(***************************************************************************)
EXTENDS TunnelLifecycle, SequenceTheorems, FiniteSetTheorems, TLAPS

-----------------------------------------------------------------------------
(* Effects of the building blocks. *)

(* A goroutine that moves on keeps its subject and touches no other.       *)
LEMMA GotoEffect ==
    ASSUME task \in [Proc -> Task], NEW p \in Proc, NEW where, Goto(p, where)
    PROVE  /\ \A q \in Proc \ {p} : task'[q] = task[q]
           /\ task'[p] = [at |-> where, id |-> task[p].id, ports |-> task[p].ports]
<1>1. task[p] \in [at : Busy \cup {"idle"}, id : Id \cup {Nobody}, ports : SUBSET Port]
  BY DEF Task, Idle
<1>2. [task[p] EXCEPT !.at = where]
         = [at |-> where, id |-> task[p].id, ports |-> task[p].ports]
  BY <1>1
<1> QED
  BY <1>2, Zenon DEF Goto

LEMMA BeginEffect ==
    ASSUME task \in [Proc -> Task], NEW p \in Proc, NEW where, NEW id, NEW ports,
           Begin(p, where, id, ports)
    PROVE  /\ At(p, "idle")
           /\ \A q \in Proc \ {p} : task'[q] = task[q]
           /\ task'[p] = [at |-> where, id |-> id, ports |-> ports]
BY DEF Begin

LEMMA DoneEffect ==
    ASSUME task \in [Proc -> Task], NEW p \in Proc, Done(p)
    PROVE  /\ \A q \in Proc \ {p} : task'[q] = task[q]
           /\ task'[p] = Idle
BY DEF Done

(* A status update changes one status, of a stored tunnel, and nothing if  *)
(* there is none; the file keeps what it had or gets what is in memory.    *)
LEMMA StatusEffect ==
    ASSUME StoreTypeOK, NEW id \in Id, NEW status \in {"inactive", "active"},
           UpdateTunnelStatus(id, status)
    PROVE  /\ StoreTypeOK'
           /\ \A x \in Id \ {id} : mem'[x] = mem[x]
           /\ mem'[id].ports = mem[id].ports
           /\ Known(id) => mem'[id].status = status
           /\ ~Known(id) => UNCHANGED storeVars
           /\ disk' = disk \/ disk' = mem'
           /\ faults' = 0 => faults = 0 /\ (disk' = mem' \/ UNCHANGED storeVars)
<1>1. CASE ~Known(id)
  BY <1>1 DEF UpdateTunnelStatus, storeVars, StoreTypeOK, Known
<1>2. CASE Known(id)
  <2>1. mem' = [mem EXCEPT ![id] = [mem[id] EXCEPT !.status = status]]
    BY <1>2 DEF UpdateTunnelStatus, Put
  <2>2. [mem[id] EXCEPT !.status = status] \in Entry
        /\ [mem[id] EXCEPT !.status = status].status = status
        /\ [mem[id] EXCEPT !.status = status].ports = mem[id].ports
    BY DEF StoreTypeOK, Entry
  <2>3. /\ mem' \in [Id -> Entry]
        /\ mem'[id].status = status /\ mem'[id].ports = mem[id].ports
        /\ \A x \in Id \ {id} : mem'[x] = mem[x]
    BY <2>1, <2>2 DEF StoreTypeOK
  <2>4. \/ disk' = mem' /\ faults' = faults
        \/ disk' = disk /\ faults' = faults + 1 /\ faults < MaxFaults
    BY <1>2, Zenon DEF UpdateTunnelStatus, SaveSucceeds, SaveFails
  <2>5. disk' \in [Id -> Entry]
    BY <2>3, <2>4 DEF StoreTypeOK
  <2>6. faults' \in 0..MaxFaults /\ (faults' = 0 => faults = 0 /\ disk' = mem')
    BY <2>4, FaultsAssumption DEF StoreTypeOK
  <2> QED
    BY <1>2, <2>3, <2>4, <2>5, <2>6 DEF StoreTypeOK
<1> QED
  BY <1>1, <1>2

LEMMA PutEffect ==
    ASSUME mem \in [Id -> Entry], NEW id \in Id, NEW entry \in Entry, Put(id, entry)
    PROVE  /\ mem' \in [Id -> Entry]
           /\ \A x \in Id \ {id} : mem'[x] = mem[x]
           /\ mem'[id] = entry
BY DEF Put

LEMMA SaveEffect ==
    ASSUME StoreTypeOK, mem' \in [Id -> Entry], SaveSucceeds \/ SaveFails
    PROVE  /\ StoreTypeOK'
           /\ disk' = disk \/ disk' = mem'
           /\ faults' = 0 => faults = 0 /\ disk' = mem'
BY FaultsAssumption DEF StoreTypeOK, SaveSucceeds, SaveFails

LEMMA PortsAreMine ==
    ASSUME NEW form \in Submitted
    PROVE  PortsToBind(form) \in SUBSET Port
BY SubmittedAssumption

-----------------------------------------------------------------------------
(* Types. *)

LEMMA InitTypeOK == Init => TypeOK
BY ProcAssumption, FaultsAssumption, CrashesAssumption
   DEF Init, StoreInit, TypeOK, StoreTypeOK, Entry, NoEntry, Proc, Task, History

LEMMA TaskTypes ==
    ASSUME task \in [Proc -> Task], NEW p \in Proc
    PROVE  /\ \A where \in Busy :
                Goto(p, where) /\ ~At(p, "idle") => task' \in [Proc -> Task]
           /\ Done(p) => task' \in [Proc -> Task]
           /\ \A where \in Busy, id \in Id : \A ports \in SUBSET Port :
                Begin(p, where, id, ports) => task' \in [Proc -> Task]
           /\ ~At(p, "idle") => /\ task[p] \in [at : Busy, id : Id, ports : SUBSET Port]
                                /\ task[p].id \in Id
<1>0. ASSUME ~At(p, "idle")
      PROVE  task[p] \in [at : Busy, id : Id, ports : SUBSET Port] /\ task[p].id \in Id
  BY <1>0 DEF At, Task, Idle
<1>1. ASSUME NEW where \in Busy, Goto(p, where), ~At(p, "idle")
      PROVE  task' \in [Proc -> Task]
  <2>1. [task[p] EXCEPT !.at = where] \in [at : Busy, id : Id, ports : SUBSET Port]
    BY <1>0, <1>1
  <2> QED
    BY <1>1, <2>1, Zenon DEF Goto, Task
<1>2. Done(p) => task' \in [Proc -> Task]
  BY DEF Done, Task
<1>3. ASSUME NEW where \in Busy, NEW id \in Id,
             NEW ports \in SUBSET Port, Begin(p, where, id, ports)
      PROVE  task' \in [Proc -> Task]
  <2>1. [at |-> where, id |-> id, ports |-> ports] \in Task
    BY DEF Task
  <2> QED
    BY <1>3, <2>1, Zenon DEF Begin
<1> QED
  BY <1>0, <1>1, <1>2, <1>3

(* A manager step: from up or failed or stop the status is saved. *)
LEMMA ManagerTypeOK ==
    ASSUME TypeOK, NEW p \in Proc, ManagerStep(p)
    PROVE  TypeOK'
<1> USE DEF TypeOK
<1>1. CASE StartBinds(p) \/ StartFails(p)
  <2>1. /\ ~At(p, "idle") /\ (Goto(p, "up") \/ Goto(p, "failed"))
        /\ UNCHANGED <<storeVars, phase, todo, crashes, history>>
    BY <1>1 DEF StartBinds, StartFails, At
  <2>2. task' \in [Proc -> Task] /\ task[p] \in [at : Busy, id : Id, ports : SUBSET Port]
    BY <2>1, TaskTypes DEF Busy
  <2>3. owner' = p /\ (handlers' = [handlers EXCEPT ![task[p].id] = task[p].ports]
                       \/ handlers' = [handlers EXCEPT ![task[p].id] = {}])
    BY <1>1 DEF StartBinds, StartFails, TakeOver
  <2>4. handlers' \in [Id -> SUBSET Port]
    BY <2>2, <2>3
  <2>5. StoreTypeOK'
    BY <2>1 DEF StoreTypeOK, storeVars
  <2> QED
    BY <2>1, <2>2, <2>3, <2>4, <2>5
<1>2. CASE StartEnds(p) \/ FailureEnds(p) \/ StopEnds(p)
  <2>1. /\ ~At(p, "idle") /\ owner' = Nobody /\ UNCHANGED <<phase, handlers, todo, crashes>>
        /\ Done(p) \/ Goto(p, "settle") \/ Goto(p, "drop")
        /\ \E status \in {"inactive", "active"} : UpdateTunnelStatus(task[p].id, status)
    BY <1>2 DEF StartEnds, FailureEnds, StopEnds, At
  <2>2. task' \in [Proc -> Task] /\ task[p].id \in Id
    BY <2>1, TaskTypes DEF Busy
  <2>3. StoreTypeOK'
    BY <2>1, <2>2, StatusEffect
  <2>4. history' \in History
    BY <1>2, <2>2 DEF StartEnds, FailureEnds, StopEnds, History
  <2> QED
    BY <2>1, <2>2, <2>3, <2>4
<1> QED
  BY <1>1, <1>2 DEF ManagerStep


(* The entry a save stores has a status and ports of the right kind.       *)
LEMMA EntryTypes ==
    ASSUME StoreTypeOK, NEW id \in Id, NEW form \in Submitted
    PROVE  /\ [status |-> "inactive", ports |-> PortsToBind(form)] \in Entry
           /\ [status |-> mem[id].status, ports |-> PortsToBind(form)] \in Entry
           /\ NoEntry \in Entry
<1>1. PortsToBind(form) \in SUBSET Port
  BY PortsAreMine
<1>2. mem[id].status \in {"none", "inactive", "active"}
  BY DEF StoreTypeOK, Entry
<1> QED
  BY <1>1, <1>2 DEF Entry, NoEntry

LEMMA SetterEffect ==
    ASSUME StoreTypeOK, NEW id \in Id
    PROVE  /\ \A form \in Submitted :
                 /\ AddTunnel(id, PortsToBind(form), form.status) =>
                      Put(id, [status |-> "inactive", ports |-> PortsToBind(form)])
                 /\ UpdateTunnel(id, PortsToBind(form), form.status) =>
                      /\ Known(id)
                      /\ Put(id, [status |-> mem[id].status, ports |-> PortsToBind(form)])
           /\ DeleteTunnel(id) => Known(id) /\ Put(id, NoEntry)
BY SubmittedAssumption DEF AddTunnel, UpdateTunnel, DeleteTunnel

LEMMA RequestTypeOK ==
    ASSUME TypeOK, NEW r \in Request, RequestStep(r)
    PROVE  TypeOK'
<1> USE DEF TypeOK
<1>0. r \in Proc
  BY DEF Proc
<1>1. CASE DeleteEnds(r)
  <2>1. task' \in [Proc -> Task] /\ task[r].id \in Id
    BY <1>0, <1>1, TaskTypes DEF DeleteEnds, At
  <2>2. mem' \in [Id -> Entry]
    <3>1. Put(task[r].id, NoEntry)
      BY <1>1, <2>1, SetterEffect DEF DeleteEnds
    <3>2. NoEntry \in Entry
      BY DEF Entry, NoEntry
    <3> QED
      BY <2>1, <3>1, <3>2, PutEffect DEF StoreTypeOK
  <2>3. StoreTypeOK'
    BY <1>1, <2>2, SaveEffect DEF DeleteEnds
  <2>4. history' \in History
    <3> DEFINE id == task[r].id
    <3>1. /\ [history EXCEPT !.deleted = @ \cup {id}, !.created = @ \ {id},
                             !.wanted = @ \ {id}] \in History
          /\ [history EXCEPT !.created = @ \ {id}, !.wanted = @ \ {id}] \in History
      BY <2>1 DEF History
    <3> QED
      BY <1>1, <3>1, Zenon DEF DeleteEnds
  <2> QED
    BY <1>1, <2>1, <2>3, <2>4 DEF DeleteEnds
<1>2. CASE DeleteFindsNothing(r)
  <2>1. task' \in [Proc -> Task]
    BY <1>0, <1>2, TaskTypes DEF DeleteFindsNothing
  <2> QED
    BY <1>2, <2>1 DEF DeleteFindsNothing, storeVars, StoreTypeOK
<1>3. CASE \E id \in Id : StartRequest(r, id)
  <2> PICK id \in Id : StartRequest(r, id)
    BY <1>3
  <2>1. mem[id].ports \in SUBSET Port
    BY DEF StoreTypeOK, Entry
  <2>2. task' \in [Proc -> Task]
    BY <1>0, <2>1, TaskTypes DEF StartRequest, Busy
  <2> QED
    BY <2>2 DEF StartRequest, storeVars, StoreTypeOK
<1>4. CASE \E id \in Id : StopRequest(r, id) \/ DeleteRunning(r, id)
  <2> PICK id \in Id, where \in {"stop", "delete"} : StopHandler(r, id, where)
    BY <1>4 DEF StopRequest, DeleteRunning
  <2>1. task' \in [Proc -> Task]
    BY <1>0, TaskTypes DEF StopHandler, Busy
  <2>2. owner' \in Proc /\ handlers' \in [Id -> SUBSET Port]
    BY <1>0 DEF StopHandler, TakeOver
  <2> QED
    BY <2>1, <2>2 DEF StopHandler, storeVars, StoreTypeOK
<1>5. CASE \E id \in Id : DeleteStopped(r, id)
  <2>1. task' \in [Proc -> Task]
    BY <1>0, <1>5, TaskTypes DEF DeleteStopped, Busy
  <2> QED
    BY <1>5, <2>1 DEF DeleteStopped, storeVars, StoreTypeOK
<1>6. CASE \E id \in Id, form \in Submitted : Create(r, id, form)
  <2> PICK id \in Id, form \in Submitted : Create(r, id, form)
    BY <1>6
  <2>1. mem' \in [Id -> Entry]
    BY SetterEffect, EntryTypes, PutEffect DEF Create, StoreTypeOK
  <2>2. StoreTypeOK'
    BY <2>1, SaveEffect DEF Create
  <2>3. history' \in History
    <3>1. /\ [history EXCEPT !.issued = @ \cup {id}, !.created = @ \cup {id}] \in History
          /\ [history EXCEPT !.issued = @ \cup {id}] \in History
      BY DEF History
    <3> QED
      BY <3>1, Zenon DEF Create
  <2> QED
    BY <2>2, <2>3 DEF Create
<1>7. CASE \E id \in Id, form \in Submitted : Update(r, id, form)
  <2> PICK id \in Id, form \in Submitted : Update(r, id, form)
    BY <1>7
  <2>1. mem' \in [Id -> Entry]
    <3>1. Put(id, [status |-> mem[id].status, ports |-> PortsToBind(form)])
      BY SetterEffect DEF Update
    <3> QED
      BY <3>1, EntryTypes, PutEffect DEF StoreTypeOK
  <2>2. StoreTypeOK'
    BY <2>1, SaveEffect DEF Update
  <2> QED
    BY <2>2 DEF Update
<1> QED
  BY <1>1, <1>2, <1>3, <1>4, <1>5, <1>6, <1>7 DEF RequestStep

LEMMA DieTypeOK ==
    ASSUME TypeOK, Die, crashes' \in 0..MaxCrashes
    PROVE  TypeOK'
<1>1. StoreTypeOK'
  BY DEF Die, TypeOK, StoreTypeOK, Entry, NoEntry
<1>2. task' \in [Proc -> Task] /\ handlers' \in [Id -> SUBSET Port]
  BY DEF Die, Task
<1> QED
  BY <1>1, <1>2 DEF Die, TypeOK

LEMMA MainTypeOK ==
    ASSUME TypeOK, MainStep \/ Crash
    PROVE  TypeOK'
<1> USE DEF TypeOK
<1>0. Main \in Proc
  BY DEF Proc
<1>1. CASE Boot
  BY <1>1 DEF Boot, Load, StoreTypeOK
<1>2. CASE AutoStartSettles
  <2>1. task' \in [Proc -> Task] /\ task[Main].id \in Id
    BY <1>0, <1>2, TaskTypes DEF AutoStartSettles, At
  <2>2. StoreTypeOK'
    BY <1>2, <2>1, StatusEffect DEF AutoStartSettles
  <2> QED
    BY <1>2, <2>1, <2>2 DEF AutoStartSettles
<1>3. CASE Serve
  BY <1>3 DEF Serve, storeVars, StoreTypeOK
<1>4. CASE Shutdown
  <2>1. history' \in History
    BY <1>4 DEF Shutdown, History
  <2> QED
    BY <1>0, <1>4, <2>1 DEF Shutdown, storeVars, StoreTypeOK, Running
<1>5. CASE StopAllEnds
  BY <1>5 DEF StopAllEnds, storeVars, StoreTypeOK
<1>6. CASE Exit
  BY <1>6, DieTypeOK DEF Exit
<1>7. CASE Crash
  <2>1. crashes' \in 0..MaxCrashes
    BY <1>7, CrashesAssumption DEF Crash
  <2> QED
    BY <1>7, <2>1, DieTypeOK DEF Crash
<1>8. CASE \E id \in Id : AutoStart(id)
  <2> PICK id \in Id : AutoStart(id)
    BY <1>8
  <2>1. mem[id].ports \in SUBSET Port
    BY DEF StoreTypeOK, Entry
  <2>2. task' \in [Proc -> Task]
    BY <1>0, <2>1, TaskTypes DEF AutoStart, Busy
  <2> QED
    BY <2>2 DEF AutoStart, storeVars, StoreTypeOK
<1>9. CASE \E id \in Id : StopAllMarks(id)
  <2> PICK id \in Id : StopAllMarks(id)
    BY <1>9
  <2>1. StoreTypeOK'
    BY StatusEffect DEF StopAllMarks
  <2> QED
    BY <2>1 DEF StopAllMarks
<1> QED
  BY <1>1, <1>2, <1>3, <1>4, <1>5, <1>6, <1>7, <1>8, <1>9 DEF MainStep

LEMMA StepTypeOK == TypeOK /\ [Next]_vars => TypeOK'
<1>1. TypeOK /\ UNCHANGED vars => TypeOK'
  BY DEF TypeOK, StoreTypeOK, vars, storeVars
<1> QED
  BY <1>1, ManagerTypeOK, RequestTypeOK, MainTypeOK DEF Next

(* Every variable of the process and its file keeps its type.              *)
THEOREM TypeCorrect == Spec => []TypeOK
BY InitTypeOK, StepTypeOK, PTL DEF Spec

-----------------------------------------------------------------------------
(* What each step does to the goroutine, the handlers and the store. *)

LEMMA IdleIsIdle == Idle.at = "idle"
BY DEF Idle

LEMMA StartSteps ==
    ASSUME TypeOK, NEW p \in Proc, StartBinds(p) \/ StartFails(p)
    PROVE  /\ task[p].at = "start" /\ task[p].id \in Id
           /\ owner = Nobody /\ owner' = p
           /\ \A q \in Proc \ {p} : task'[q] = task[q]
           /\ task'[p].id = task[p].id /\ task'[p].ports = task[p].ports
           /\ \A x \in Id \ {task[p].id} : handlers'[x] = handlers[x]
           /\ \/ /\ task'[p].at = "up" /\ task[p].ports # {}
                 /\ handlers'[task[p].id] = task[p].ports
              \/ task'[p].at = "failed" /\ handlers'[task[p].id] = {}
           /\ UNCHANGED <<mem, disk, faults, phase, todo, history>>
<1>0. task \in [Proc -> Task] /\ handlers \in [Id -> SUBSET Port]
  BY DEF TypeOK
<1>1. task[p].at = "start" /\ owner = Nobody /\ owner' = p
      /\ UNCHANGED <<mem, disk, faults, phase, todo, history>>
  BY DEF StartBinds, StartFails, At, TakeOver, storeVars
<1>2. task[p].id \in Id
  BY <1>0, <1>1, TaskTypes DEF At
<1>3. CASE StartBinds(p)
  <2>1. /\ Goto(p, "up") /\ task[p].ports # {}
        /\ handlers' = [handlers EXCEPT ![task[p].id] = task[p].ports]
    BY <1>3 DEF StartBinds, CanBind, TakeOver
  <2>2. /\ \A q \in Proc \ {p} : task'[q] = task[q]
        /\ task'[p] = [at |-> "up", id |-> task[p].id, ports |-> task[p].ports]
    BY <1>0, <2>1, GotoEffect
  <2>3. handlers'[task[p].id] = task[p].ports
        /\ \A x \in Id \ {task[p].id} : handlers'[x] = handlers[x]
    BY <1>0, <1>2, <2>1
  <2> QED
    BY <1>1, <1>2, <2>1, <2>2, <2>3
<1>4. CASE StartFails(p)
  <2>1. Goto(p, "failed") /\ handlers' = [handlers EXCEPT ![task[p].id] = {}]
    BY <1>4 DEF StartFails, TakeOver
  <2>2. /\ \A q \in Proc \ {p} : task'[q] = task[q]
        /\ task'[p] = [at |-> "failed", id |-> task[p].id, ports |-> task[p].ports]
    BY <1>0, <2>1, GotoEffect
  <2>3. handlers'[task[p].id] = {}
        /\ \A x \in Id \ {task[p].id} : handlers'[x] = handlers[x]
    BY <1>0, <1>2, <2>1
  <2> QED
    BY <1>1, <1>2, <2>2, <2>3
<1> QED
  BY <1>3, <1>4

(* The status of a stored tunnel becomes status; saved, or a save failed.  *)
Marks(id, status) ==
    /\ \A x \in Id \ {id} : mem'[x] = mem[x]
    /\ mem'[id].ports = mem[id].ports
    /\ mem'[id].status = IF Known(id) THEN status ELSE mem[id].status
    /\ disk' = disk \/ disk' = mem'
    /\ ~Known(id) => UNCHANGED <<mem, disk, faults>>
    /\ faults' = 0 => faults = 0 /\ (disk' = mem' \/ UNCHANGED <<mem, disk>>)

LEMMA StatusMarks ==
    ASSUME StoreTypeOK, NEW id \in Id, NEW status \in {"inactive", "active"},
           UpdateTunnelStatus(id, status)
    PROVE  Marks(id, status)
<1>1. ~Known(id) => UNCHANGED <<mem, disk, faults>>
  BY DEF UpdateTunnelStatus, storeVars
<1> QED
  BY <1>1, StatusEffect DEF Marks, storeVars

LEMMA StatusSteps ==
    ASSUME TypeOK, NEW p \in Proc, StartEnds(p) \/ FailureEnds(p) \/ StopEnds(p)
    PROVE  /\ task[p].at \in Holding /\ task[p].id \in Id /\ owner' = Nobody
           /\ \A q \in Proc \ {p} : task'[q] = task[q]
           /\ \/ task'[p] = Idle /\ (p = Main => task[p].at # "failed")
              \/ /\ task'[p].at = "settle" /\ task'[p].id = task[p].id
                 /\ p = Main /\ task[p].at = "failed"
              \/ /\ task'[p].at = "drop" /\ task'[p].id = task[p].id
                 /\ task[p].at = "delete"
           /\ Marks(task[p].id, IF task[p].at = "up" THEN "active" ELSE "inactive")
           /\ history'.issued = history.issued /\ history'.shutdown = history.shutdown
           /\ history'.created = history.created /\ history'.deleted = history.deleted
           /\ history'.wanted =
                IF task[p].at # "up" THEN history.wanted \ {task[p].id}
                ELSE IF Known(task[p].id) THEN history.wanted \cup {task[p].id}
                ELSE history.wanted
           /\ UNCHANGED <<phase, handlers, todo>>
<1>0. task \in [Proc -> Task] /\ StoreTypeOK /\ history \in History
  BY DEF TypeOK
<1>1. CASE StartEnds(p)
  <2>1. /\ task[p].at = "up" /\ Done(p) /\ UpdateTunnelStatus(task[p].id, "active")
        /\ owner' = Nobody /\ UNCHANGED <<phase, handlers, todo>>
    BY <1>1 DEF StartEnds, At
  <2>2. task[p].id \in Id
    BY <1>0, <2>1, TaskTypes DEF At
  <2>3. Marks(task[p].id, "active")
    BY <1>0, <2>1, <2>2, StatusMarks
  <2>4. (\A q \in Proc \ {p} : task'[q] = task[q]) /\ task'[p] = Idle
    BY <1>0, <2>1, DoneEffect
  <2>5. /\ history'.issued = history.issued /\ history'.shutdown = history.shutdown
        /\ history'.created = history.created /\ history'.deleted = history.deleted
        /\ history'.wanted = IF Known(task[p].id) THEN history.wanted \cup {task[p].id}
                             ELSE history.wanted
    BY <1>0, <1>1 DEF StartEnds, History
  <2> QED
    BY <2>1, <2>2, <2>3, <2>4, <2>5 DEF Holding
<1>2. CASE FailureEnds(p) \/ StopEnds(p)
  <2>1. /\ task[p].at \in {"failed", "stop", "delete"}
        /\ UpdateTunnelStatus(task[p].id, "inactive")
        /\ owner' = Nobody /\ UNCHANGED <<phase, handlers, todo>>
        /\ \/ Done(p) /\ (p = Main => task[p].at # "failed")
           \/ Goto(p, "settle") /\ p = Main /\ task[p].at = "failed"
           \/ Goto(p, "drop") /\ task[p].at = "delete"
    BY <1>2 DEF FailureEnds, StopEnds, At
  <2>2. task[p].id \in Id
    BY <1>0, <2>1, TaskTypes DEF At
  <2>3. Marks(task[p].id, "inactive")
    BY <1>0, <2>1, <2>2, StatusMarks
  <2>4. /\ \A q \in Proc \ {p} : task'[q] = task[q]
        /\ \/ task'[p] = Idle /\ (p = Main => task[p].at # "failed")
           \/ /\ task'[p].at = "settle" /\ task'[p].id = task[p].id
              /\ p = Main /\ task[p].at = "failed"
           \/ /\ task'[p].at = "drop" /\ task'[p].id = task[p].id
              /\ task[p].at = "delete"
    <3>1. CASE Done(p) /\ (p = Main => task[p].at # "failed")
      BY <1>0, <3>1, DoneEffect
    <3>2. CASE Goto(p, "settle") /\ p = Main /\ task[p].at = "failed"
      <4>1. /\ \A q \in Proc \ {p} : task'[q] = task[q]
            /\ task'[p] = [at |-> "settle", id |-> task[p].id, ports |-> task[p].ports]
        BY <1>0, <3>2, GotoEffect
      <4> QED
        BY <3>2, <4>1
    <3>3. CASE Goto(p, "drop") /\ task[p].at = "delete"
      <4>1. /\ \A q \in Proc \ {p} : task'[q] = task[q]
            /\ task'[p] = [at |-> "drop", id |-> task[p].id, ports |-> task[p].ports]
        BY <1>0, <3>3, GotoEffect
      <4> QED
        BY <3>3, <4>1
    <3> QED
      BY <2>1, <3>1, <3>2, <3>3
  <2>5. /\ history'.issued = history.issued /\ history'.shutdown = history.shutdown
        /\ history'.created = history.created /\ history'.deleted = history.deleted
        /\ history'.wanted = history.wanted \ {task[p].id}
    BY <1>0, <1>2 DEF FailureEnds, StopEnds, History
  <2> QED
    BY <2>1, <2>2, <2>3, <2>4, <2>5 DEF Holding
<1> QED
  BY <1>1, <1>2

LEMMA DeleteSteps ==
    ASSUME TypeOK, NEW r \in Request, DeleteEnds(r)
    PROVE  /\ task[r].at = "drop" /\ task[r].id \in Id /\ task'[r] = Idle
           /\ \A q \in Proc \ {r} : task'[q] = task[q]
           /\ Known(task[r].id) /\ mem'[task[r].id] = NoEntry
           /\ \A x \in Id \ {task[r].id} : mem'[x] = mem[x]
           /\ history'.issued = history.issued /\ history'.shutdown = history.shutdown
           /\ history'.created = history.created \ {task[r].id}
           /\ history'.wanted = history.wanted \ {task[r].id}
           /\ \/ /\ disk' = mem' /\ faults' = faults
                 /\ history'.deleted = history.deleted \cup {task[r].id}
              \/ /\ disk' = disk /\ faults' # 0
                 /\ history'.deleted = history.deleted
           /\ UNCHANGED <<phase, handlers, owner, todo>>
<1>0. task \in [Proc -> Task] /\ StoreTypeOK /\ history \in History /\ r \in Proc
  BY DEF TypeOK, Proc
<1>1. /\ task[r].at = "drop" /\ Done(r) /\ UNCHANGED <<phase, handlers, owner, todo>>
      /\ DeleteTunnel(task[r].id)
  BY DEF DeleteEnds, At
<1>2. task[r].id \in Id
  BY <1>0, <1>1, TaskTypes DEF At
<1>3. Known(task[r].id) /\ Put(task[r].id, NoEntry)
  BY <1>0, <1>1, <1>2, SetterEffect
<1>4. mem'[task[r].id] = NoEntry /\ \A x \in Id \ {task[r].id} : mem'[x] = mem[x]
  <2>1. NoEntry \in Entry
    BY DEF NoEntry, Entry
  <2> QED
    BY <1>0, <1>2, <1>3, <2>1, PutEffect DEF StoreTypeOK
<1>5. task'[r] = Idle /\ \A q \in Proc \ {r} : task'[q] = task[q]
  BY <1>0, <1>1, DoneEffect
<1>6. CASE /\ SaveSucceeds
           /\ history' = [history EXCEPT !.deleted = @ \cup {task[r].id},
                            !.created = @ \ {task[r].id}, !.wanted = @ \ {task[r].id}]
  BY <1>0, <1>1, <1>2, <1>3, <1>4, <1>5, <1>6 DEF SaveSucceeds, History
<1>7. CASE /\ SaveFails
           /\ history' = [history EXCEPT !.created = @ \ {task[r].id},
                                         !.wanted = @ \ {task[r].id}]
  <2>1. disk' = disk /\ faults' # 0
    BY <1>0, <1>7, FaultsAssumption DEF SaveFails, StoreTypeOK
  <2>2. /\ history'.issued = history.issued /\ history'.shutdown = history.shutdown
        /\ history'.created = history.created \ {task[r].id}
        /\ history'.wanted = history.wanted \ {task[r].id}
        /\ history'.deleted = history.deleted
    BY <1>0, <1>7 DEF History
  <2> QED
    BY <1>1, <1>2, <1>3, <1>4, <1>5, <2>1, <2>2
<1> QED
  BY <1>6, <1>7 DEF DeleteEnds

LEMMA NothingSteps ==
    ASSUME TypeOK, NEW r \in Request, DeleteFindsNothing(r)
    PROVE  /\ task[r].at = "drop" /\ task'[r] = Idle
           /\ \A q \in Proc \ {r} : task'[q] = task[q]
           /\ UNCHANGED <<mem, disk, faults, phase, handlers, owner, todo, history>>
<1>1. task \in [Proc -> Task] /\ r \in Proc
  BY DEF TypeOK, Proc
<1> QED
  BY <1>1, DoneEffect DEF DeleteFindsNothing, At, storeVars

LEMMA BeginSteps ==
    ASSUME TypeOK, NEW r \in Request, NEW id \in Id,
           StartRequest(r, id) \/ DeleteStopped(r, id)
    PROVE  /\ Answering /\ Known(id) /\ task[r].at = "idle"
           /\ task'[r].id = id
           /\ \/ task'[r].at = "start" /\ task'[r].ports = mem[id].ports
              \/ task'[r].at = "drop"
           /\ \A q \in Proc \ {r} : task'[q] = task[q]
           /\ UNCHANGED <<mem, disk, faults, phase, handlers, owner, todo, history>>
<1>0. task \in [Proc -> Task] /\ r \in Proc
  BY DEF TypeOK, Proc
<1>1. CASE StartRequest(r, id)
  <2>1. /\ Begin(r, "start", id, mem[id].ports) /\ Answering /\ Known(id)
        /\ UNCHANGED <<mem, disk, faults, phase, handlers, owner, todo, history>>
    BY <1>1 DEF StartRequest, storeVars
  <2>2. /\ At(r, "idle") /\ \A q \in Proc \ {r} : task'[q] = task[q]
        /\ task'[r] = [at |-> "start", id |-> id, ports |-> mem[id].ports]
    BY <1>0, <2>1, BeginEffect
  <2> QED
    BY <2>1, <2>2 DEF At
<1>2. CASE DeleteStopped(r, id)
  <2>1. /\ Begin(r, "drop", id, {}) /\ Answering /\ Known(id)
        /\ UNCHANGED <<mem, disk, faults, phase, handlers, owner, todo, history>>
    BY <1>2 DEF DeleteStopped, storeVars
  <2>2. /\ At(r, "idle") /\ \A q \in Proc \ {r} : task'[q] = task[q]
        /\ task'[r] = [at |-> "drop", id |-> id, ports |-> {}]
    BY <1>0, <2>1, BeginEffect
  <2> QED
    BY <2>1, <2>2 DEF At
<1> QED
  BY <1>1, <1>2

LEMMA StopSteps ==
    ASSUME TypeOK, NEW r \in Request, NEW id \in Id,
           StopRequest(r, id) \/ DeleteRunning(r, id)
    PROVE  /\ Answering /\ id \in Running /\ task[r].at = "idle"
           /\ owner = Nobody /\ owner' = r
           /\ task'[r].id = id /\ task'[r].at \in {"stop", "delete"}
           /\ \A q \in Proc \ {r} : task'[q] = task[q]
           /\ handlers'[id] = {}
           /\ \A x \in Id \ {id} : handlers'[x] = handlers[x]
           /\ UNCHANGED <<mem, disk, faults, phase, todo, history>>
<1>0. task \in [Proc -> Task] /\ r \in Proc /\ handlers \in [Id -> SUBSET Port]
  BY DEF TypeOK, Proc
<1>1. PICK where \in {"stop", "delete"} : Answering /\ StopHandler(r, id, where)
  BY DEF StopRequest, DeleteRunning
<1>2. /\ id \in Running /\ owner = Nobody /\ owner' = r
      /\ handlers' = [handlers EXCEPT ![id] = {}]
      /\ Begin(r, where, id, {})
      /\ UNCHANGED <<mem, disk, faults, phase, todo, history>>
  BY <1>1 DEF StopHandler, TakeOver, storeVars
<1>3. /\ At(r, "idle") /\ \A q \in Proc \ {r} : task'[q] = task[q]
      /\ task'[r] = [at |-> where, id |-> id, ports |-> {}]
  BY <1>0, <1>2 DEF Begin
<1>4. task'[r].at = where /\ task'[r].id = id
  BY <1>3
<1>5. handlers'[id] = {} /\ \A x \in Id \ {id} : handlers'[x] = handlers[x]
  BY <1>0, <1>2
<1> QED
  BY <1>1, <1>2, <1>3, <1>4, <1>5 DEF At

(* A save has just put an entry of a valid form in memory. *)
Stores(id, status, form) ==
    /\ ValidateTunnel(form)
    /\ mem'[id].status = status
    /\ mem'[id].ports = PortsToBind(form)
    /\ \A x \in Id \ {id} : mem'[x] = mem[x]
    /\ disk' = disk \/ disk' = mem'
    /\ faults' = 0 => faults = 0 /\ disk' = mem'

LEMMA CreateSteps ==
    ASSUME TypeOK, NEW r \in Request, NEW id \in Id, NEW form \in Submitted,
           Create(r, id, form)
    PROVE  /\ Answering /\ id \notin history.issued
           /\ Stores(id, "inactive", form)
           /\ history'.issued = history.issued \cup {id}
           /\ history'.shutdown = history.shutdown
           /\ history'.wanted = history.wanted /\ history'.deleted = history.deleted
           /\ \/ history'.created = history.created \cup {id} /\ disk' = mem'
              \/ history'.created = history.created
           /\ UNCHANGED <<phase, handlers, owner, task, todo>>
<1>0. StoreTypeOK /\ history \in History
  BY DEF TypeOK
<1>1. Answering /\ id \notin history.issued /\ ValidateTunnel(form)
      /\ UNCHANGED <<phase, handlers, owner, task, todo>>
      /\ AddTunnel(id, PortsToBind(form), form.status)
  BY DEF Create
<1>2. Put(id, [status |-> "inactive", ports |-> PortsToBind(form)])
  BY <1>0, <1>1, SetterEffect
<1>3. /\ mem' \in [Id -> Entry] /\ \A x \in Id \ {id} : mem'[x] = mem[x]
      /\ mem'[id] = [status |-> "inactive", ports |-> PortsToBind(form)]
  BY <1>0, <1>2, EntryTypes, PutEffect DEF StoreTypeOK
<1>4. mem'[id].status = "inactive" /\ mem'[id].ports = PortsToBind(form)
  BY <1>3
<1>5. (disk' = disk \/ disk' = mem') /\ (faults' = 0 => faults = 0 /\ disk' = mem')
  BY <1>0, <1>3, SaveEffect DEF Create
<1>6. Stores(id, "inactive", form)
  BY <1>1, <1>3, <1>4, <1>5 DEF Stores
<1>7. CASE /\ SaveSucceeds
           /\ history' = [history EXCEPT !.issued = @ \cup {id}, !.created = @ \cup {id}]
  BY <1>0, <1>1, <1>6, <1>7 DEF SaveSucceeds, History
<1>8. CASE SaveFails /\ history' = [history EXCEPT !.issued = @ \cup {id}]
  BY <1>0, <1>1, <1>6, <1>8 DEF History
<1> QED
  BY <1>7, <1>8 DEF Create

LEMMA UpdateSteps ==
    ASSUME TypeOK, NEW r \in Request, NEW id \in Id, NEW form \in Submitted,
           Update(r, id, form)
    PROVE  /\ Answering /\ Known(id)
           /\ Stores(id, mem[id].status, form)
           /\ UNCHANGED <<phase, handlers, owner, task, todo, history>>
<1>0. StoreTypeOK
  BY DEF TypeOK
<1>1. Answering /\ ValidateTunnel(form)
      /\ UNCHANGED <<phase, handlers, owner, task, todo, history>>
      /\ UpdateTunnel(id, PortsToBind(form), form.status)
  BY DEF Update
<1>2. Known(id) /\ Put(id, [status |-> mem[id].status, ports |-> PortsToBind(form)])
  BY <1>0, <1>1, SetterEffect
<1>3. /\ mem' \in [Id -> Entry] /\ \A x \in Id \ {id} : mem'[x] = mem[x]
      /\ mem'[id] = [status |-> mem[id].status, ports |-> PortsToBind(form)]
  BY <1>0, <1>2, EntryTypes, PutEffect DEF StoreTypeOK
<1>4. mem'[id].status = mem[id].status /\ mem'[id].ports = PortsToBind(form)
  BY <1>3
<1>5. (disk' = disk \/ disk' = mem') /\ (faults' = 0 => faults = 0 /\ disk' = mem')
  BY <1>0, <1>3, SaveEffect DEF Update
<1> QED
  BY <1>1, <1>2, <1>3, <1>4, <1>5 DEF Stores

LEMMA AutoStartSteps ==
    ASSUME TypeOK, NEW id \in Id, AutoStart(id)
    PROVE  /\ phase = "booting" /\ id \in todo /\ todo' = todo \ {id}
           /\ task[Main].at = "idle"
           /\ task'[Main].at = "start" /\ task'[Main].id = id
           /\ task'[Main].ports = mem[id].ports
           /\ \A q \in Proc \ {Main} : task'[q] = task[q]
           /\ UNCHANGED <<mem, disk, faults, phase, handlers, owner, history>>
<1>0. task \in [Proc -> Task] /\ Main \in Proc
  BY DEF TypeOK, Proc
<1>1. /\ phase = "booting" /\ id \in todo /\ todo' = todo \ {id}
      /\ Begin(Main, "start", id, mem[id].ports)
      /\ UNCHANGED <<mem, disk, faults, phase, handlers, owner, history>>
  BY DEF AutoStart, storeVars
<1>2. /\ At(Main, "idle") /\ \A q \in Proc \ {Main} : task'[q] = task[q]
      /\ task'[Main] = [at |-> "start", id |-> id, ports |-> mem[id].ports]
  BY <1>0, <1>1, BeginEffect
<1> QED
  BY <1>1, <1>2 DEF At

LEMMA SettleSteps ==
    ASSUME TypeOK, AutoStartSettles
    PROVE  /\ task[Main].at = "settle" /\ task[Main].id \in Id /\ task'[Main] = Idle
           /\ \A q \in Proc \ {Main} : task'[q] = task[q]
           /\ Marks(task[Main].id, "inactive")
           /\ UNCHANGED <<phase, handlers, owner, todo, history>>
<1>0. task \in [Proc -> Task] /\ Main \in Proc /\ StoreTypeOK
  BY DEF TypeOK, Proc
<1>1. /\ task[Main].at = "settle" /\ Done(Main)
      /\ UpdateTunnelStatus(task[Main].id, "inactive")
      /\ UNCHANGED <<phase, handlers, owner, todo, history>>
  BY DEF AutoStartSettles, At
<1>2. task[Main].id \in Id
  BY <1>0, <1>1, TaskTypes DEF At
<1> QED
  BY <1>0, <1>1, <1>2, StatusMarks, DoneEffect

LEMMA ShutdownSteps ==
    ASSUME TypeOK, Shutdown
    PROVE  /\ phase = "serving" /\ phase' = "stopping"
           /\ owner = Nobody /\ owner' = Main
           /\ todo' = Running /\ \A x \in Id : handlers'[x] = {}
           /\ history'.issued = history.issued /\ history'.shutdown = TRUE
           /\ history'.created = history.created /\ history'.deleted = history.deleted
           /\ history'.wanted = history.wanted
           /\ UNCHANGED <<mem, disk, faults, task>>
BY DEF Shutdown, TypeOK, History, storeVars

LEMMA DieSteps ==
    ASSUME TypeOK, Exit \/ Crash
    PROVE  /\ phase' = "off" /\ owner' = Nobody /\ todo' = {}
           /\ \A x \in Id : handlers'[x] = {} /\ mem'[x] = NoEntry
           /\ \A q \in Proc : task'[q] = Idle
           /\ UNCHANGED <<disk, faults, history>>
BY DEF Exit, Crash, Die

-----------------------------------------------------------------------------
(* The mutex, and who is where in which phase. *)

LEMMA InitControl == Init => OwnerHolds /\ Stages
BY ProcAssumption DEF Init, StoreInit, NoEntry, Known, OwnerHolds, Stages, Idle, At,
   Holding, Proc

LEMMA OwnerStep ==
    ASSUME TypeOK, OwnerHolds, Stages, Next
    PROVE  OwnerHolds'
<1> USE ProcAssumption DEF OwnerHolds, Holding
<1>0. /\ Main \in Proc /\ Nobody \notin Proc
      /\ \A r \in Request : r \in Proc /\ r # Main
      /\ owner \in Proc \cup {Nobody}
  BY DEF Proc, TypeOK
<1>1. ASSUME NEW p \in Proc, StartBinds(p) \/ StartFails(p)
      PROVE  OwnerHolds'
  BY <1>0, <1>1, StartSteps
<1>2. ASSUME NEW p \in Proc, StartEnds(p) \/ FailureEnds(p) \/ StopEnds(p)
      PROVE  OwnerHolds'
  <2>1. /\ task[p].at \in Holding /\ owner' = Nobody /\ phase' = phase
        /\ \A q \in Proc \ {p} : task'[q] = task[q]
        /\ task'[p].at \in {"idle", "settle", "drop"}
    BY <1>2, StatusSteps, IdleIsIdle
  <2>2. owner = p /\ (p = Main => phase = "booting")
    BY <2>1 DEF Stages
  <2> QED
    BY <1>0, <2>1, <2>2
<1>3. ASSUME NEW r \in Request, DeleteEnds(r) \/ DeleteFindsNothing(r)
      PROVE  OwnerHolds'
  BY <1>0, <1>3, DeleteSteps, NothingSteps, IdleIsIdle
<1>4. ASSUME NEW r \in Request, NEW id \in Id, StartRequest(r, id) \/ DeleteStopped(r, id)
      PROVE  OwnerHolds'
  BY <1>0, <1>4, BeginSteps
<1>5. ASSUME NEW r \in Request, NEW id \in Id, StopRequest(r, id) \/ DeleteRunning(r, id)
      PROVE  OwnerHolds'
  BY <1>0, <1>5, StopSteps
<1>6. ASSUME NEW r \in Request, NEW id \in Id, NEW form \in Submitted,
             Create(r, id, form) \/ Update(r, id, form)
      PROVE  OwnerHolds'
  BY <1>6, CreateSteps, UpdateSteps
<1>7. ASSUME Boot \/ Serve
      PROVE  OwnerHolds'
  BY <1>7 DEF Boot, Serve
<1>8. ASSUME AutoStartSettles
      PROVE  OwnerHolds'
  BY <1>0, <1>8, SettleSteps, IdleIsIdle
<1>9. ASSUME NEW id \in Id, AutoStart(id)
      PROVE  OwnerHolds'
  BY <1>0, <1>9, AutoStartSteps
<1>10. ASSUME Shutdown
      PROVE  OwnerHolds'
  BY <1>0, <1>10, ShutdownSteps
<1>11. ASSUME NEW id \in Id, StopAllMarks(id)
      PROVE  OwnerHolds'
  BY <1>11 DEF StopAllMarks
<1>12. ASSUME StopAllEnds
      PROVE  OwnerHolds'
  BY <1>0, <1>12 DEF StopAllEnds, Stages
<1>13. ASSUME Exit \/ Crash
      PROVE  OwnerHolds'
  BY <1>13, DieSteps, IdleIsIdle
<1> QED
  BY <1>1, <1>2, <1>3, <1>4, <1>5, <1>6, <1>7, <1>8, <1>9, <1>10, <1>11, <1>12, <1>13
     DEF Next, MainStep, ManagerStep, RequestStep

LEMMA StagesStep ==
    ASSUME TypeOK, OwnerHolds, Stages, Next
    PROVE  Stages'
<1> USE ProcAssumption DEF Stages, At
<1>0. Main \in Proc /\ Nobody \notin Proc /\ \A r \in Request : r \in Proc /\ r # Main
  BY DEF Proc
<1>1. ASSUME NEW p \in Proc, StartBinds(p) \/ StartFails(p)
      PROVE  Stages'
  BY <1>0, <1>1, StartSteps DEF Proc, Known
<1>2. ASSUME NEW p \in Proc, StartEnds(p) \/ FailureEnds(p) \/ StopEnds(p)
      PROVE  Stages'
  <2>1. /\ task[p].at \in Holding /\ UNCHANGED <<phase, todo>>
        /\ history'.shutdown = history.shutdown
        /\ \A q \in Proc \ {p} : task'[q] = task[q]
        /\ \/ task'[p].at = "idle"
           \/ task'[p].at = "settle" /\ p = Main /\ task'[p].id = task[p].id
           \/ task'[p].at = "drop" /\ task[p].at = "delete"
    BY <1>2, StatusSteps, IdleIsIdle
  <2>2. phase # "off" /\ (p # Main => p \in Request /\ phase # "booting")
    BY <2>1 DEF Proc, Holding
  <2>3. p = Main => phase = "booting" /\ task[p].id \notin todo /\ task[p].at # "delete"
    BY <2>1 DEF Holding
  <2> QED
    BY <1>0, <2>1, <2>2, <2>3
<1>3. ASSUME NEW r \in Request, DeleteEnds(r) \/ DeleteFindsNothing(r)
      PROVE  Stages'
  BY <1>0, <1>3, DeleteSteps, NothingSteps, IdleIsIdle
<1>4. ASSUME NEW r \in Request, NEW id \in Id, StartRequest(r, id) \/ DeleteStopped(r, id)
      PROVE  Stages'
  BY <1>0, <1>4, BeginSteps DEF Answering
<1>5. ASSUME NEW r \in Request, NEW id \in Id, StopRequest(r, id) \/ DeleteRunning(r, id)
      PROVE  Stages'
  BY <1>0, <1>5, StopSteps DEF Answering
<1>6. ASSUME NEW r \in Request, NEW id \in Id, NEW form \in Submitted,
             Create(r, id, form) \/ Update(r, id, form)
      PROVE  Stages'
  BY <1>6, CreateSteps, UpdateSteps DEF Answering
<1>7. ASSUME Boot \/ Serve
      PROVE  Stages'
  BY <1>0, <1>7 DEF Boot, Serve
<1>8. ASSUME AutoStartSettles
      PROVE  Stages'
  BY <1>0, <1>8, SettleSteps, IdleIsIdle
<1>9. ASSUME NEW id \in Id, AutoStart(id)
      PROVE  Stages'
  BY <1>0, <1>9, AutoStartSteps
<1>10. ASSUME Shutdown
      PROVE  Stages'
  BY <1>0, <1>10, ShutdownSteps
<1>11. ASSUME NEW id \in Id, StopAllMarks(id)
      PROVE  Stages'
  BY <1>11 DEF StopAllMarks
<1>12. ASSUME StopAllEnds
      PROVE  Stages'
  BY <1>0, <1>12 DEF StopAllEnds
<1>13. ASSUME Exit \/ Crash
      PROVE  Stages'
  BY <1>0, <1>13, DieSteps, IdleIsIdle DEF Known, NoEntry
<1> QED
  BY <1>1, <1>2, <1>3, <1>4, <1>5, <1>6, <1>7, <1>8, <1>9, <1>10, <1>11, <1>12, <1>13
     DEF Next, MainStep, ManagerStep, RequestStep

LEMMA StutterKeeps ==
    ASSUME UNCHANGED vars
    PROVE  UNCHANGED <<mem, disk, faults, phase, handlers, owner, task, todo, history>>
BY DEF vars, storeVars

-----------------------------------------------------------------------------
(* What the handler map holds at each place. *)

LEMMA HandlersStep ==
    ASSUME TypeOK, OwnerHolds, Stages, HandlerStages, Next
    PROVE  HandlerStages'
<1> USE DEF HandlerStages, At, Running
<1>0. /\ Main \in Proc /\ \A r \in Request : r \in Proc /\ r # Main
      /\ \A p \in Proc : task[p].at \in Holding => owner = p
      /\ Nobody \notin Proc
  BY ProcAssumption DEF Proc, OwnerHolds
<1>1. ASSUME NEW p \in Proc, StartBinds(p) \/ StartFails(p)
      PROVE  HandlerStages'
  <2>1. \A q \in Proc \ {p} : task'[q].at = task[q].at /\ task'[q].at \notin Holding
    BY <1>0, <1>1, StartSteps
  <2>2. phase' \notin {"off", "stopping"}
    BY <1>0, <1>1, StartSteps DEF Stages, OwnerHolds, Proc
  <2>3. \A q \in Proc \ {p} : task'[q].at # "settle"
    BY <1>0, <1>1, StartSteps DEF Stages, Proc
  <2> QED
    BY <1>1, <2>1, <2>2, <2>3, StartSteps DEF Holding
<1>2. ASSUME NEW p \in Proc, StartEnds(p) \/ FailureEnds(p) \/ StopEnds(p)
      PROVE  HandlerStages'
  <2>1. /\ UNCHANGED <<phase, handlers>>
        /\ \A q \in Proc \ {p} : task'[q] = task[q]
        /\ \/ task'[p].at = "idle"
           \/ /\ task'[p].at = "settle" /\ task'[p].id = task[p].id
              /\ task[p].at = "failed"
           \/ task'[p].at = "drop"
    BY <1>2, StatusSteps, IdleIsIdle
  <2> QED
    BY <2>1
<1>3. ASSUME NEW r \in Request, DeleteEnds(r) \/ DeleteFindsNothing(r)
      PROVE  HandlerStages'
  BY <1>0, <1>3, DeleteSteps, NothingSteps, IdleIsIdle
<1>4. ASSUME NEW r \in Request, NEW id \in Id, StartRequest(r, id) \/ DeleteStopped(r, id)
      PROVE  HandlerStages'
  BY <1>0, <1>4, BeginSteps
<1>5. ASSUME NEW r \in Request, NEW id \in Id, StopRequest(r, id) \/ DeleteRunning(r, id)
      PROVE  HandlerStages'
  <2>1. \A q \in Proc \ {r} : task'[q].at = task[q].at /\ task'[q].at \notin Holding
    BY <1>0, <1>5, StopSteps
  <2>2. phase' \notin {"off", "stopping", "booting"}
    BY <1>0, <1>5, StopSteps DEF Answering, OwnerHolds
  <2>3. \A q \in Proc \ {r} : task'[q].at # "settle"
    BY <1>0, <1>5, <2>2, StopSteps DEF Stages, Proc
  <2> QED
    BY <1>5, <2>1, <2>2, <2>3, StopSteps DEF Holding
<1>6. ASSUME NEW r \in Request, NEW id \in Id, NEW form \in Submitted,
             Create(r, id, form) \/ Update(r, id, form)
      PROVE  HandlerStages'
  BY <1>6, CreateSteps, UpdateSteps
<1>7. ASSUME Boot \/ Serve
      PROVE  HandlerStages'
  BY <1>7 DEF Boot, Serve
<1>8. ASSUME AutoStartSettles
      PROVE  HandlerStages'
  BY <1>0, <1>8, SettleSteps, IdleIsIdle
<1>9. ASSUME NEW id \in Id, AutoStart(id)
      PROVE  HandlerStages'
  BY <1>0, <1>9, AutoStartSteps
<1>10. ASSUME Shutdown
      PROVE  HandlerStages'
  BY <1>0, <1>10, ShutdownSteps DEF Holding
<1>11. ASSUME NEW id \in Id, StopAllMarks(id)
      PROVE  HandlerStages'
  BY <1>11 DEF StopAllMarks
<1>12. ASSUME StopAllEnds
      PROVE  HandlerStages'
  BY <1>12 DEF StopAllEnds
<1>13. ASSUME Exit \/ Crash
      PROVE  HandlerStages'
  BY <1>13, DieSteps, IdleIsIdle
<1> QED
  BY <1>1, <1>2, <1>3, <1>4, <1>5, <1>6, <1>7, <1>8, <1>9, <1>10, <1>11, <1>12, <1>13
     DEF Next, MainStep, ManagerStep, RequestStep

-----------------------------------------------------------------------------
(* Nothing of a tunnel exists before its creation. *)

(* Every entry in memory or in the file belongs to an issued identifier.   *)
EntriesIssued ==
    \A id \in Id : Known(id) \/ disk[id].status # "none" => id \in history.issued

RunsIssued == Running \cup todo \subseteq history.issued

TasksIssued == \A p \in Proc : ~At(p, "idle") => task[p].id \in history.issued

LEMMA IssuedParts == AllIssued <=> EntriesIssued /\ RunsIssued /\ TasksIssued
BY DEF AllIssued, EntriesIssued, RunsIssued, TasksIssued, At

LEMMA IssuedStep ==
    ASSUME TypeOK, Stages, AllIssued, Next
    PROVE  AllIssued'
<1> USE DEF EntriesIssued, RunsIssued, TasksIssued, At, Running, Known
<1> DEFINE Goal == EntriesIssued' /\ RunsIssued' /\ TasksIssued'
<1>0. /\ Main \in Proc /\ \A r \in Request : r \in Proc /\ r # Main
      /\ EntriesIssued /\ RunsIssued /\ TasksIssued /\ todo \subseteq Id
  BY ProcAssumption, IssuedParts DEF Proc, TypeOK
<1>1. ASSUME NEW p \in Proc, StartBinds(p) \/ StartFails(p)
      PROVE  Goal
  BY <1>0, <1>1, StartSteps
<1>2. ASSUME NEW p \in Proc, StartEnds(p) \/ FailureEnds(p) \/ StopEnds(p)
      PROVE  Goal
  <2>1. /\ UNCHANGED <<handlers, todo>> /\ history'.issued = history.issued
        /\ \A q \in Proc \ {p} : task'[q] = task[q]
        /\ task'[p].at # "idle" => task'[p].id = task[p].id /\ task[p].at # "idle"
    BY <1>2, StatusSteps, IdleIsIdle DEF Holding
  <2>2. /\ \A x \in Id : Known(x)' => Known(x)
        /\ disk' = disk \/ disk' = mem'
    BY <1>2, StatusSteps DEF Marks
  <2> QED
    BY <1>0, <2>1, <2>2
<1>3. ASSUME NEW r \in Request, DeleteEnds(r) \/ DeleteFindsNothing(r)
      PROVE  Goal
  <2>1. /\ UNCHANGED <<handlers, todo>> /\ history'.issued = history.issued
        /\ \A q \in Proc \ {r} : task'[q] = task[q]
        /\ task'[r].at = "idle"
    BY <1>0, <1>3, DeleteSteps, NothingSteps, IdleIsIdle
  <2>2. /\ \A x \in Id : Known(x)' => Known(x)
        /\ disk' = disk \/ disk' = mem'
    BY <1>3, DeleteSteps, NothingSteps DEF NoEntry
  <2> QED
    BY <1>0, <2>1, <2>2
<1>4. ASSUME NEW r \in Request, NEW id \in Id, StartRequest(r, id) \/ DeleteStopped(r, id)
      PROVE  Goal
  BY <1>0, <1>4, BeginSteps
<1>5. ASSUME NEW r \in Request, NEW id \in Id, StopRequest(r, id) \/ DeleteRunning(r, id)
      PROVE  Goal
  BY <1>0, <1>5, StopSteps
<1>6. ASSUME NEW r \in Request, NEW id \in Id, NEW form \in Submitted, Create(r, id, form)
      PROVE  Goal
  BY <1>0, <1>6, CreateSteps DEF Stores
<1>7. ASSUME NEW r \in Request, NEW id \in Id, NEW form \in Submitted, Update(r, id, form)
      PROVE  Goal
  BY <1>0, <1>7, UpdateSteps DEF Stores
<1>8. ASSUME Boot
      PROVE  Goal
  BY <1>0, <1>8 DEF Boot, Load
<1>9. ASSUME AutoStartSettles
      PROVE  Goal
  <2>1. /\ UNCHANGED <<handlers, todo, history>>
        /\ \A q \in Proc \ {Main} : task'[q] = task[q]
        /\ task'[Main].at = "idle"
    BY <1>9, SettleSteps, IdleIsIdle
  <2>2. /\ \A x \in Id : Known(x)' => Known(x)
        /\ disk' = disk \/ disk' = mem'
    BY <1>9, SettleSteps DEF Marks
  <2> QED
    BY <1>0, <2>1, <2>2
<1>10. ASSUME NEW id \in Id, AutoStart(id)
      PROVE  Goal
  BY <1>0, <1>10, AutoStartSteps
<1>11. ASSUME Shutdown
      PROVE  Goal
  BY <1>0, <1>11, ShutdownSteps
<1>12. ASSUME NEW id \in Id, StopAllMarks(id)
      PROVE  Goal
  <2>1. UNCHANGED <<handlers, task, history>> /\ todo' = todo \ {id}
    BY <1>12 DEF StopAllMarks
  <2>2. Marks(id, "inactive")
    BY <1>12, StatusMarks DEF StopAllMarks, TypeOK
  <2> QED
    BY <1>0, <2>1, <2>2 DEF Marks
<1>13. ASSUME StopAllEnds \/ Serve
      PROVE  Goal
  BY <1>0, <1>13 DEF StopAllEnds, Serve, storeVars
<1>14. ASSUME Exit \/ Crash
      PROVE  Goal
  BY <1>0, <1>14, DieSteps, IdleIsIdle DEF NoEntry
<1>15. Goal
  BY <1>1, <1>2, <1>3, <1>4, <1>5, <1>6, <1>7, <1>8, <1>9, <1>10, <1>11, <1>12, <1>13,
     <1>14 DEF Next, MainStep, ManagerStep, RequestStep
<1>16. AllIssued' <=> Goal
  BY DEF AllIssued
<1> QED
  BY <1>15, <1>16

-----------------------------------------------------------------------------
(* The status of a tunnel nobody holds is active exactly when it runs or   *)
(* main has it still to start or to mark.                                  *)

Due(id) ==
    \/ handlers[id] # {}
    \/ id \in todo
    \/ task[Main].at = "start" /\ task[Main].id = id

Agrees(id) == Known(id) /\ ~Held(id) => (mem[id].status = "active" <=> Due(id))

LEMMA AgreementParts == Agreement <=> \A id \in Id : Agrees(id)
<1>1. \A id \in Id : id \in Running \cup Pending <=> Due(id)
  BY DEF Running, Pending, Due, At
<1> QED
  BY <1>1 DEF Agreement, Agrees

LEMMA AgreementStep ==
    ASSUME TypeOK, OwnerHolds, Stages, HandlerStages, AllIssued, Agreement, Next
    PROVE  Agreement'
<1> SUFFICES ASSUME NEW x \in Id
             PROVE  Agrees(x)'
  BY AgreementParts DEF Agreement, Agrees, Due, Running, Pending, At, Held
<1>0. /\ Main \in Proc /\ \A r \in Request : r \in Proc /\ r # Main
      /\ Nobody \notin Proc /\ Agrees(x)
      /\ \A p \in Proc : p # Main => p \in Request
  BY ProcAssumption, AgreementParts DEF Proc
<1>1. ASSUME NEW p \in Proc, StartBinds(p) \/ StartFails(p)
      PROVE  Agrees(x)'
  <2>1. \A q \in Proc : task[q].at \notin Holding
    BY <1>0, <1>1, StartSteps DEF OwnerHolds
  <2>2. /\ \A q \in Proc \ {p} : task'[q] = task[q]
        /\ task'[p].id = task[p].id /\ task'[p].at \in {"up", "failed"}
        /\ task[p].at = "start"
        /\ UNCHANGED <<mem, todo>>
        /\ x # task[p].id => handlers'[x] = handlers[x]
    BY <1>1, StartSteps
  <2>3. CASE x = task[p].id
    <3>1. Held(x)'
      BY <2>2, <2>3 DEF Held, Holding
    <3> QED
      BY <3>1 DEF Agrees
  <2>4. CASE x # task[p].id
    <3>1. ~Held(x)
      BY <2>1 DEF Held
    <3>2. Due(x)' <=> Due(x)
      BY <1>0, <2>2, <2>4 DEF Due
    <3> QED
      BY <1>0, <2>2, <3>1, <3>2 DEF Agrees, Known
  <2> QED
    BY <2>3, <2>4
<1>2. ASSUME NEW p \in Proc, StartEnds(p) \/ FailureEnds(p) \/ StopEnds(p)
      PROVE  Agrees(x)'
  <2> DEFINE i == task[p].id
  <2>1. /\ task[p].at \in Holding /\ i \in Id
        /\ \A q \in Proc \ {p} : task'[q] = task[q]
        /\ task'[p].at \in {"idle", "settle", "drop"}
        /\ UNCHANGED <<phase, handlers, todo>>
        /\ Marks(i, IF task[p].at = "up" THEN "active" ELSE "inactive")
    BY <1>2, StatusSteps, IdleIsIdle
  <2>2. \A q \in Proc \ {p} : task[q].at \notin Holding
    BY <2>1 DEF OwnerHolds
  <2>3. /\ p # Main => phase \notin {"off", "booting", "stopping"}
        /\ p = Main => phase = "booting" /\ i \notin todo
    BY <1>0, <2>1 DEF OwnerHolds, Stages, Holding, At
  <2>4. task[Main].at # "start" /\ task'[Main].at # "start"
    BY <1>0, <2>1, <2>3 DEF Stages, Holding
  <2>5. i \notin todo
    BY <2>3 DEF Stages
  <2>6. CASE x = i
    <3>1. Due(x)' <=> handlers[x] # {}
      BY <2>1, <2>4, <2>5, <2>6 DEF Due
    <3>2. handlers[x] # {} <=> task[p].at = "up"
      BY <2>1, <2>6 DEF HandlerStages, At, Holding, Running
    <3>3. Known(x)' => mem'[x].status = IF task[p].at = "up" THEN "active" ELSE "inactive"
      BY <2>1, <2>6 DEF Marks, Known
    <3> QED
      BY <3>1, <3>2, <3>3 DEF Agrees
  <2>7. CASE x # i
    <3>1. mem'[x] = mem[x]
      BY <2>1, <2>7 DEF Marks
    <3>2. ~Held(x)
      BY <2>2, <2>7 DEF Held
    <3>3. Due(x)' <=> Due(x)
      BY <2>1, <2>4 DEF Due
    <3> QED
      BY <1>0, <3>1, <3>2, <3>3 DEF Agrees, Known
  <2> QED
    BY <2>6, <2>7
<1>3. ASSUME NEW r \in Request, DeleteEnds(r) \/ DeleteFindsNothing(r)
      PROVE  Agrees(x)'
  <2>1. /\ UNCHANGED <<handlers, todo>>
        /\ \A q \in Proc \ {r} : task'[q] = task[q]
        /\ task'[r].at = "idle" /\ task[r].at = "drop"
        /\ Known(x)' => mem'[x] = mem[x]
    BY <1>3, DeleteSteps, NothingSteps, IdleIsIdle DEF Known, NoEntry
  <2>2. Held(x)' <=> Held(x)
    BY <1>0, <2>1 DEF Held, Holding
  <2>3. Due(x)' <=> Due(x)
    BY <1>0, <2>1 DEF Due
  <2> QED
    BY <1>0, <2>1, <2>2, <2>3 DEF Agrees, Known
<1>4. ASSUME NEW r \in Request, NEW id \in Id, StartRequest(r, id) \/ DeleteStopped(r, id)
      PROVE  Agrees(x)'
  <2>1. /\ UNCHANGED <<mem, handlers, todo>>
        /\ \A q \in Proc \ {r} : task'[q] = task[q]
        /\ task[r].at = "idle" /\ task'[r].at \in {"start", "drop"}
    BY <1>4, BeginSteps
  <2>2. Held(x)' <=> Held(x)
    BY <1>0, <2>1 DEF Held, Holding
  <2>3. Due(x)' <=> Due(x)
    BY <1>0, <2>1 DEF Due
  <2> QED
    BY <1>0, <2>1, <2>2, <2>3 DEF Agrees, Known
<1>5. ASSUME NEW r \in Request, NEW id \in Id, StopRequest(r, id) \/ DeleteRunning(r, id)
      PROVE  Agrees(x)'
  <2>1. /\ UNCHANGED <<mem, todo>> /\ owner = Nobody
        /\ \A q \in Proc \ {r} : task'[q] = task[q]
        /\ task'[r].id = id /\ task'[r].at \in {"stop", "delete"}
        /\ x # id => handlers'[x] = handlers[x]
    BY <1>5, StopSteps
  <2>2. CASE x = id
    <3>1. Held(x)'
      BY <1>0, <2>1, <2>2 DEF Held, Holding
    <3> QED
      BY <3>1 DEF Agrees
  <2>3. CASE x # id
    <3>1. ~Held(x)
      BY <1>0, <2>1 DEF Held, OwnerHolds
    <3>2. Due(x)' <=> Due(x)
      BY <1>0, <2>1, <2>3 DEF Due
    <3> QED
      BY <1>0, <2>1, <3>1, <3>2 DEF Agrees, Known
  <2> QED
    BY <2>2, <2>3
<1>6. ASSUME NEW r \in Request, NEW id \in Id, NEW form \in Submitted, Create(r, id, form)
      PROVE  Agrees(x)'
  <2>1. /\ UNCHANGED <<handlers, todo, task>> /\ id \notin history.issued
        /\ mem'[id].status = "inactive" /\ (x # id => mem'[x] = mem[x])
    BY <1>6, CreateSteps DEF Stores
  <2>2. ~Due(id)
    BY <1>0, <2>1 DEF AllIssued, Running, Due
  <2>3. (Held(x)' <=> Held(x)) /\ (Due(x)' <=> Due(x))
    BY <2>1 DEF Held, Due
  <2> QED
    BY <1>0, <2>1, <2>2, <2>3 DEF Agrees, Known
<1>7. ASSUME NEW r \in Request, NEW id \in Id, NEW form \in Submitted, Update(r, id, form)
      PROVE  Agrees(x)'
  <2>1. /\ UNCHANGED <<handlers, todo, task>>
        /\ mem'[x].status = mem[x].status
    BY <1>7, UpdateSteps DEF Stores
  <2>2. (Held(x)' <=> Held(x)) /\ (Due(x)' <=> Due(x))
    BY <2>1 DEF Held, Due
  <2> QED
    BY <1>0, <2>1, <2>2 DEF Agrees, Known
<1>8. ASSUME Boot
      PROVE  Agrees(x)'
  <2>1. /\ UNCHANGED <<handlers, task>> /\ phase = "off" /\ mem' = disk
        /\ todo' = {id \in Id : disk[id].status = "active"}
    BY <1>8 DEF Boot, Load
  <2>2. handlers[x] = {} /\ task[Main].at = "idle"
    BY <2>1 DEF HandlerStages, Running, Stages
  <2>3. Due(x)' <=> disk[x].status = "active"
    BY <2>1, <2>2 DEF Due
  <2> QED
    BY <2>1, <2>3 DEF Agrees
<1>9. ASSUME AutoStartSettles
      PROVE  Agrees(x)'
  <2> DEFINE i == task[Main].id
  <2>1. /\ task[Main].at = "settle" /\ i \in Id /\ task'[Main].at = "idle"
        /\ \A q \in Proc \ {Main} : task'[q] = task[q]
        /\ Marks(i, "inactive")
        /\ UNCHANGED <<handlers, todo>>
    BY <1>9, SettleSteps, IdleIsIdle
  <2>2. handlers[i] = {} /\ i \notin todo
    BY <1>0, <2>1 DEF HandlerStages, Stages, Running
  <2>3. Held(x)' <=> Held(x)
    BY <1>0, <2>1 DEF Held, Holding
  <2>4. (Due(x)' <=> Due(x)) /\ (x = i => ~Due(x))
    BY <2>1, <2>2 DEF Due
  <2>5. CASE x = i
    BY <2>1, <2>4, <2>5 DEF Agrees, Marks, Known
  <2>6. CASE x # i
    BY <1>0, <2>1, <2>3, <2>4, <2>6 DEF Agrees, Marks, Known
  <2> QED
    BY <2>5, <2>6
<1>10. ASSUME NEW id \in Id, AutoStart(id)
      PROVE  Agrees(x)'
  <2>1. /\ UNCHANGED <<mem, handlers>> /\ id \in todo /\ todo' = todo \ {id}
        /\ task[Main].at = "idle" /\ task'[Main].at = "start" /\ task'[Main].id = id
        /\ \A q \in Proc \ {Main} : task'[q] = task[q]
    BY <1>10, AutoStartSteps
  <2>2. Held(x)' <=> Held(x)
    BY <1>0, <2>1 DEF Held, Holding
  <2>3. Due(x)' <=> Due(x)
    BY <2>1 DEF Due
  <2> QED
    BY <1>0, <2>1, <2>2, <2>3 DEF Agrees, Known
<1>11. ASSUME Shutdown
      PROVE  Agrees(x)'
  <2>1. /\ UNCHANGED <<mem, task>> /\ phase = "serving" /\ todo' = Running
        /\ handlers'[x] = {}
    BY <1>11, ShutdownSteps
  <2>2. todo = {} /\ task[Main].at = "idle"
    BY <2>1 DEF Stages
  <2>3. (Held(x)' <=> Held(x)) /\ (Due(x)' <=> Due(x))
    BY <2>1, <2>2 DEF Held, Due, Running
  <2> QED
    BY <1>0, <2>1, <2>3 DEF Agrees, Known
<1>12. ASSUME NEW id \in Id, StopAllMarks(id)
      PROVE  Agrees(x)'
  <2>1. /\ UNCHANGED <<handlers, task>> /\ todo' = todo \ {id} /\ phase = "stopping"
        /\ Marks(id, "inactive")
    BY <1>12, StatusMarks DEF StopAllMarks, TypeOK
  <2>2. handlers[x] = {} /\ task[Main].at = "idle"
    BY <2>1 DEF HandlerStages, Running, Stages
  <2>3. (Held(x)' <=> Held(x)) /\ (x # id => (Due(x)' <=> Due(x)))
    BY <2>1 DEF Held, Due
  <2>4. CASE x = id
    BY <2>1, <2>2, <2>4 DEF Agrees, Marks, Known, Due
  <2>5. CASE x # id
    BY <1>0, <2>1, <2>3, <2>5 DEF Agrees, Marks, Known
  <2> QED
    BY <2>4, <2>5
<1>13. ASSUME StopAllEnds \/ Serve
      PROVE  Agrees(x)'
  <2>1. UNCHANGED <<mem, handlers, todo, task>>
    BY <1>13 DEF StopAllEnds, Serve, storeVars
  <2> QED
    BY <1>0, <2>1 DEF Agrees, Known, Due, Held
<1>14. ASSUME Exit \/ Crash
      PROVE  Agrees(x)'
  BY <1>14, DieSteps DEF Agrees, Known, NoEntry
<1> QED
  BY <1>1, <1>2, <1>3, <1>4, <1>5, <1>6, <1>7, <1>8, <1>9, <1>10, <1>11, <1>12, <1>13,
     <1>14 DEF Next, MainStep, ManagerStep, RequestStep

-----------------------------------------------------------------------------
(* The inductive invariant. *)

LEMMA InitInv == Init => LifecycleInv
<1> SUFFICES ASSUME Init
             PROVE  LifecycleInv
  OBVIOUS
<1>1. TypeOK /\ OwnerHolds /\ Stages
  BY InitTypeOK, InitControl
<1>2. /\ phase = "off" /\ todo = {} /\ history.issued = {}
      /\ \A p \in Proc : task[p].at = "idle"
      /\ \A id \in Id : handlers[id] = {} /\ mem[id] = NoEntry /\ disk[id] = NoEntry
  BY IdleIsIdle DEF Init, StoreInit
<1>3. HandlerStages
  BY <1>2 DEF HandlerStages, At, Running
<1>4. AllIssued
  BY <1>2 DEF AllIssued, Known, NoEntry, Running
<1>5. Agreement
  BY <1>2 DEF Agreement, Known, NoEntry
<1> QED
  BY <1>1, <1>3, <1>4, <1>5 DEF LifecycleInv

LEMMA StutterInv == LifecycleInv /\ UNCHANGED vars => LifecycleInv'
<1> SUFFICES ASSUME LifecycleInv, UNCHANGED vars
             PROVE  LifecycleInv'
  OBVIOUS
<1>1. UNCHANGED <<mem, disk, faults, phase, handlers, owner, task, todo, history>>
  BY StutterKeeps
<1>2. TypeOK'
  BY StepTypeOK DEF LifecycleInv
<1>3. OwnerHolds' /\ Stages'
  BY <1>1 DEF LifecycleInv, OwnerHolds, Stages, At, Known
<1>4. HandlerStages' /\ AllIssued' /\ Agreement'
  BY <1>1 DEF LifecycleInv, HandlerStages, AllIssued, Agreement, At, Known, Held,
     Pending, Running
<1> QED
  BY <1>2, <1>3, <1>4 DEF LifecycleInv

LEMMA StepInv == LifecycleInv /\ [Next]_vars => LifecycleInv'
<1>1. ASSUME LifecycleInv, Next
      PROVE  LifecycleInv'
  BY <1>1, StepTypeOK, OwnerStep, StagesStep, HandlersStep, IssuedStep, AgreementStep
     DEF LifecycleInv
<1> QED
  BY <1>1, StutterInv

(* The mutex is held exactly between a change of the handler map and the   *)
(* status it is saved with; identifiers are fresh; and the status of every *)
(* tunnel nobody holds says whether it runs, or main has still to see to it. *)
THEOREM LifecycleAlways == Spec => []LifecycleInv
BY InitInv, StepInv, PTL DEF Spec

LEMMA NobodyHolds == LifecycleInv => StatusAgrees
<1> SUFFICES ASSUME LifecycleInv, phase \in {"serving", "exiting"}, owner = Nobody,
                    NEW id \in Id, Known(id)
             PROVE  mem[id].status = "active" <=> id \in Running
  BY DEF StatusAgrees
<1>1. Nobody \notin Proc
  BY ProcAssumption DEF Proc
<1>2. ~Held(id)
  BY <1>1 DEF LifecycleInv, OwnerHolds, Held
<1>3. Pending = {}
  BY DEF LifecycleInv, Stages, Pending, At
<1> QED
  BY <1>2, <1>3 DEF LifecycleInv, Agreement

(* Between lifecycle operations a stored tunnel is marked active exactly   *)
(* when it has a running handler, after any edits, failed starts, failed   *)
(* saves and restarts (StartTunnel, StopTunnel, UpdateTunnel, main).       *)
THEOREM StatusAlwaysAgrees == Spec => []StatusAgrees
BY LifecycleAlways, NobodyHolds, PTL

-----------------------------------------------------------------------------
(* The answers clients were given. *)

LEMMA AnswersStep ==
    ASSUME LifecycleInv, AnswersKept, Next
    PROVE  AnswersKept'
<1> USE DEF AnswersKept, AnswersSurvive, Known
<1>0. /\ TypeOK /\ OwnerHolds /\ Stages /\ history \in History
      /\ history.created \subseteq Id /\ history.deleted \subseteq Id
      /\ Main \in Proc /\ \A r \in Request : r \in Proc
      /\ \A p \in Proc : task[p].at # "idle" => phase # "off"
  BY DEF LifecycleInv, TypeOK, History, Proc, Stages, At
<1>1. ASSUME NEW id \in Id, NEW status \in {"active", "inactive"}, Marks(id, status),
             phase # "off", phase' # "off",
             history'.issued = history.issued,
             history'.created = history.created, history'.deleted = history.deleted
      PROVE  AnswersKept'
  <2>1. \A x \in Id : Known(x)' <=> Known(x)
    BY <1>1 DEF Marks
  <2>2. disk' = disk \/ disk' = mem'
    BY <1>1 DEF Marks
  <2> QED
    BY <1>0, <1>1, <2>1, <2>2
<1>2. ASSUME UNCHANGED <<mem, disk>>, phase = "off" <=> phase' = "off",
             history'.issued = history.issued,
             history'.created = history.created, history'.deleted = history.deleted
      PROVE  AnswersKept'
  BY <1>2
<1>3. ASSUME NEW p \in Proc, StartBinds(p) \/ StartFails(p)
      PROVE  AnswersKept'
  BY <1>0, <1>2, <1>3, StartSteps
<1>4. ASSUME NEW p \in Proc, StartEnds(p) \/ FailureEnds(p) \/ StopEnds(p)
      PROVE  AnswersKept'
  <2>1. task[p].at \in Holding /\ phase' = phase
    BY <1>0, <1>4, StatusSteps
  <2>2. phase # "off"
    BY <1>0, <2>1 DEF Holding
  <2>3. PICK status \in {"active", "inactive"} : Marks(task[p].id, status)
    BY <1>0, <1>4, StatusSteps
  <2>4. /\ task[p].id \in Id /\ history'.issued = history.issued
        /\ history'.created = history.created /\ history'.deleted = history.deleted
    BY <1>0, <1>4, StatusSteps
  <2> QED
    BY <1>1, <2>1, <2>2, <2>3, <2>4
<1>5. ASSUME NEW r \in Request, DeleteEnds(r)
      PROVE  AnswersKept'
  <2>1. /\ task[r].at = "drop" /\ task[r].id \in Id /\ phase' = phase
        /\ Known(task[r].id) /\ mem'[task[r].id].status = "none"
        /\ \A x \in Id \ {task[r].id} : mem'[x] = mem[x]
        /\ history'.issued = history.issued
        /\ history'.created = history.created \ {task[r].id}
        /\ \/ disk' = mem' /\ history'.deleted = history.deleted \cup {task[r].id}
           \/ disk' = disk /\ history'.deleted = history.deleted
    BY <1>0, <1>5, DeleteSteps DEF NoEntry
  <2>2. phase # "off" /\ task[r].id \in history.issued
    BY <1>0, <2>1 DEF LifecycleInv, AllIssued
  <2> QED
    BY <1>0, <2>1, <2>2
<1>6. ASSUME NEW r \in Request, DeleteFindsNothing(r)
      PROVE  AnswersKept'
  BY <1>0, <1>2, <1>6, NothingSteps
<1>7. ASSUME NEW r \in Request, NEW id \in Id, StartRequest(r, id) \/ DeleteStopped(r, id)
      PROVE  AnswersKept'
  BY <1>0, <1>2, <1>7, BeginSteps
<1>8. ASSUME NEW r \in Request, NEW id \in Id, StopRequest(r, id) \/ DeleteRunning(r, id)
      PROVE  AnswersKept'
  BY <1>0, <1>2, <1>8, StopSteps
<1>9. ASSUME NEW r \in Request, NEW id \in Id, NEW form \in Submitted, Create(r, id, form)
      PROVE  AnswersKept'
  <2>1. /\ phase # "off" /\ phase' = phase /\ id \notin history.issued
        /\ mem'[id].status = "inactive" /\ \A x \in Id \ {id} : mem'[x] = mem[x]
        /\ disk' = disk \/ disk' = mem'
        /\ history'.issued = history.issued \cup {id}
        /\ history'.deleted = history.deleted
        /\ \/ history'.created = history.created \cup {id} /\ disk' = mem'
           \/ history'.created = history.created
    BY <1>0, <1>9, CreateSteps DEF Stores, Answering
  <2> QED
    BY <1>0, <2>1
<1>10. ASSUME NEW r \in Request, NEW id \in Id, NEW form \in Submitted, Update(r, id, form)
      PROVE  AnswersKept'
  <2>1. /\ phase # "off" /\ phase' = phase /\ history' = history
        /\ \A x \in Id : mem'[x].status = mem[x].status
        /\ disk' = disk \/ disk' = mem'
    BY <1>0, <1>10, UpdateSteps DEF Stores, Answering
  <2> QED
    BY <1>0, <2>1
<1>11. ASSUME Boot
      PROVE  AnswersKept'
  BY <1>0, <1>11 DEF Boot, Load
<1>12. ASSUME AutoStartSettles
      PROVE  AnswersKept'
  <2>1. /\ task[Main].at = "settle" /\ task[Main].id \in Id
        /\ Marks(task[Main].id, "inactive") /\ UNCHANGED <<phase, history>>
    BY <1>0, <1>12, SettleSteps
  <2> QED
    BY <1>0, <1>1, <2>1
<1>13. ASSUME NEW id \in Id, AutoStart(id)
      PROVE  AnswersKept'
  BY <1>0, <1>2, <1>13, AutoStartSteps
<1>14. ASSUME Shutdown
      PROVE  AnswersKept'
  BY <1>0, <1>2, <1>14, ShutdownSteps
<1>15. ASSUME NEW id \in Id, StopAllMarks(id)
      PROVE  AnswersKept'
  <2>1. Marks(id, "inactive") /\ UNCHANGED <<phase, history>> /\ phase = "stopping"
    BY <1>0, <1>15, StatusMarks DEF StopAllMarks, TypeOK
  <2> QED
    BY <1>1, <2>1
<1>16. ASSUME StopAllEnds \/ Serve
      PROVE  AnswersKept'
  BY <1>2, <1>16 DEF StopAllEnds, Serve, storeVars
<1>17. ASSUME Exit \/ Crash
      PROVE  AnswersKept'
  BY <1>0, <1>17, DieSteps DEF NoEntry
<1> QED
  BY <1>3, <1>4, <1>5, <1>6, <1>7, <1>8, <1>9, <1>10, <1>11, <1>12, <1>13, <1>14,
     <1>15, <1>16, <1>17 DEF Next, MainStep, ManagerStep, RequestStep

LEMMA AnswersAlwaysKept == Spec => []AnswersKept
<1>1. Init => AnswersKept
  BY DEF Init, StoreInit, NoEntry, Known, AnswersKept, AnswersSurvive
<1>2. LifecycleInv /\ AnswersKept /\ [Next]_vars => AnswersKept'
  <2>1. AnswersKept /\ UNCHANGED vars => AnswersKept'
    BY StutterKeeps DEF AnswersKept, AnswersSurvive, Known
  <2> QED
    BY <2>1, AnswersStep
<1> QED
  BY <1>1, <1>2, LifecycleAlways, PTL DEF Spec

(* A tunnel reported created is in the file until a delete removes it, and *)
(* one reported deleted is gone from memory and file for good, through     *)
(* failed saves of other requests and crashes at any point (saveLocked).   *)
THEOREM AnswersAlwaysSurvive == Spec => []AnswersSurvive
<1>1. AnswersKept => AnswersSurvive
  BY DEF AnswersKept
<1> QED
  BY <1>1, AnswersAlwaysKept, PTL

-----------------------------------------------------------------------------
(* The auto-start list. *)

LEMMA WantedStep ==
    ASSUME LifecycleInv, WantedRecorded, Next
    PROVE  WantedRecorded'
<1> USE DEF WantedRecorded, At
<1>0. /\ TypeOK /\ OwnerHolds /\ Stages /\ history \in History
      /\ history.wanted \subseteq Id /\ disk \in [Id -> Entry] /\ mem \in [Id -> Entry]
      /\ Main \in Proc /\ \A r \in Request : r \in Proc /\ r # Main
      /\ \A p \in Proc : task[p].at # "idle" => phase # "off"
      /\ \A p \in Proc : p # Main /\ task[p].at # "idle" => task[Main].at = "idle"
      /\ StoreTypeOK'
  BY StepTypeOK, ProcAssumption
     DEF LifecycleInv, TypeOK, StoreTypeOK, History, Proc, Stages, At
<1>1. ASSUME UNCHANGED <<mem, disk, faults>>, phase # "off", phase' # "off",
             history'.wanted = history.wanted,
             history'.shutdown = history.shutdown \/ history'.shutdown = TRUE,
             task'[Main].at = "settle" => task'[Main] = task[Main]
      PROVE  WantedRecorded'
  BY <1>1
<1>2. ASSUME NEW p \in Proc, StartBinds(p) \/ StartFails(p)
      PROVE  WantedRecorded'
  <2>1. task'[Main].at = "settle" => task'[Main] = task[Main]
    BY <1>0, <1>2, StartSteps
  <2>2. phase # "off" /\ phase' # "off"
    BY <1>0, <1>2, StartSteps
  <2> QED
    BY <1>0, <1>1, <1>2, <2>1, <2>2, StartSteps
<1>3. ASSUME NEW p \in Proc, StartEnds(p) \/ FailureEnds(p) \/ StopEnds(p)
      PROVE  WantedRecorded'
  <2> DEFINE i == task[p].id
  <2>1. /\ task[p].at \in Holding /\ i \in Id /\ phase' = phase
        /\ \A q \in Proc \ {p} : task'[q] = task[q]
        /\ Marks(i, IF task[p].at = "up" THEN "active" ELSE "inactive")
        /\ history'.shutdown = history.shutdown
        /\ history'.wanted = IF task[p].at # "up" THEN history.wanted \ {i}
                             ELSE IF Known(i) THEN history.wanted \cup {i}
                             ELSE history.wanted
        /\ task'[p].at = "settle" => task'[p].id = i /\ task[p].at = "failed"
    BY <1>0, <1>3, StatusSteps, IdleIsIdle
  <2>2. phase # "off"
    BY <1>0, <2>1 DEF Holding
  <2>3. ASSUME faults' = 0
        PROVE  /\ faults = 0 /\ mem = disk /\ mem' = disk'
               /\ \A x \in Id \ {i} : disk'[x] = disk[x]
               /\ Known(i) /\ task[p].at = "up" => disk'[i].status = "active"
               /\ ~Known(i) => disk' = disk
    BY <2>1, <2>2, <2>3 DEF Marks
  <2>4. faults' = 0 /\ ~history'.shutdown =>
          \A id \in history'.wanted : disk'[id].status = "active"
    BY <1>0, <2>1, <2>3
  <2>5. task'[Main].at = "settle" => task'[Main].id \notin history'.wanted
    BY <1>0, <2>1 DEF Holding
  <2> QED
    BY <2>1, <2>2, <2>3, <2>4, <2>5
<1>4. ASSUME NEW r \in Request, DeleteEnds(r)
      PROVE  WantedRecorded'
  <2>1. /\ task[r].at = "drop" /\ task[r].id \in Id /\ phase' = phase
        /\ task'[Main] = task[Main]
        /\ \A x \in Id \ {task[r].id} : mem'[x] = mem[x]
        /\ history'.shutdown = history.shutdown
        /\ history'.wanted = history.wanted \ {task[r].id}
        /\ faults' = 0 => faults = 0 /\ disk' = mem'
    BY <1>0, <1>4, DeleteSteps
  <2> QED
    BY <1>0, <2>1
<1>5. ASSUME NEW r \in Request, DeleteFindsNothing(r)
      PROVE  WantedRecorded'
  <2>1. task'[Main] = task[Main] /\ phase # "off"
    BY <1>0, <1>5, NothingSteps
  <2> QED
    BY <1>1, <1>5, <2>1, NothingSteps, <1>0
<1>6. ASSUME NEW r \in Request, NEW id \in Id, StartRequest(r, id) \/ DeleteStopped(r, id)
      PROVE  WantedRecorded'
  <2>1. task'[Main] = task[Main] /\ phase # "off" /\ phase' = phase
    BY <1>0, <1>6, BeginSteps DEF Answering
  <2> QED
    BY <1>0, <1>1, <1>6, <2>1, BeginSteps
<1>7. ASSUME NEW r \in Request, NEW id \in Id, StopRequest(r, id) \/ DeleteRunning(r, id)
      PROVE  WantedRecorded'
  <2>1. task'[Main] = task[Main] /\ phase # "off" /\ phase' = phase
    BY <1>0, <1>7, StopSteps DEF Answering
  <2> QED
    BY <1>0, <1>1, <1>7, <2>1, StopSteps
<1>8. ASSUME NEW r \in Request, NEW id \in Id, NEW form \in Submitted, Create(r, id, form)
      PROVE  WantedRecorded'
  <2>1. /\ phase # "off" /\ UNCHANGED <<phase, task>> /\ id \notin history.issued
        /\ \A x \in Id \ {id} : mem'[x] = mem[x]
        /\ faults' = 0 => faults = 0 /\ disk' = mem'
        /\ history'.wanted = history.wanted /\ history'.shutdown = history.shutdown
    BY <1>0, <1>8, CreateSteps DEF Stores, Answering
  <2>2. faults' = 0 /\ ~history'.shutdown => id \notin history.wanted
    BY <1>0, <2>1 DEF LifecycleInv, AllIssued
  <2> QED
    BY <1>0, <2>1, <2>2
<1>9. ASSUME NEW r \in Request, NEW id \in Id, NEW form \in Submitted, Update(r, id, form)
      PROVE  WantedRecorded'
  <2>1. /\ phase # "off" /\ UNCHANGED <<phase, task, history>>
        /\ \A x \in Id : mem'[x].status = mem[x].status
        /\ faults' = 0 => faults = 0 /\ disk' = mem'
    BY <1>0, <1>9, UpdateSteps DEF Stores, Answering
  <2> QED
    BY <1>0, <2>1
<1>10. ASSUME Boot
      PROVE  WantedRecorded'
  BY <1>0, <1>10 DEF Boot, Load
<1>11. ASSUME AutoStartSettles
      PROVE  WantedRecorded'
  <2>1. /\ task[Main].at = "settle" /\ task[Main].id \in Id /\ task'[Main].at = "idle"
        /\ Marks(task[Main].id, "inactive") /\ UNCHANGED <<phase, history>>
    BY <1>0, <1>11, SettleSteps, IdleIsIdle
  <2>2. task[Main].id \notin history.wanted /\ phase # "off"
    BY <1>0, <2>1
  <2> QED
    BY <1>0, <2>1, <2>2 DEF Marks
<1>12. ASSUME NEW id \in Id, AutoStart(id)
      PROVE  WantedRecorded'
  <2>1. task'[Main].at = "start" /\ phase = "booting" /\ phase' = phase
    BY <1>0, <1>12, AutoStartSteps
  <2> QED
    BY <1>0, <1>1, <1>12, <2>1, AutoStartSteps
<1>13. ASSUME Shutdown
      PROVE  WantedRecorded'
  <2>1. phase = "serving" /\ phase' = "stopping" /\ task' = task
    BY <1>0, <1>13, ShutdownSteps
  <2> QED
    BY <1>0, <1>1, <1>13, <2>1, ShutdownSteps
<1>14. ASSUME NEW id \in Id, StopAllMarks(id)
      PROVE  WantedRecorded'
  <2>1. /\ Marks(id, "inactive") /\ UNCHANGED <<phase, history, task>>
        /\ phase = "stopping" /\ history.shutdown
    BY <1>0, <1>14, StatusMarks DEF StopAllMarks, TypeOK, Stages
  <2> QED
    BY <1>0, <2>1 DEF Marks
<1>15. ASSUME StopAllEnds \/ Serve
      PROVE  WantedRecorded'
  BY <1>1, <1>15 DEF StopAllEnds, Serve, storeVars
<1>16. ASSUME Exit \/ Crash
      PROVE  WantedRecorded'
  BY <1>0, <1>16, DieSteps, IdleIsIdle
<1> QED
  BY <1>2, <1>3, <1>4, <1>5, <1>6, <1>7, <1>8, <1>9, <1>10, <1>11, <1>12, <1>13, <1>14,
     <1>15, <1>16 DEF Next, MainStep, ManagerStep, RequestStep

LEMMA WantedAlwaysRecorded == Spec => []WantedRecorded
<1>1. Init => WantedRecorded
  BY IdleIsIdle DEF Init, StoreInit, WantedRecorded, At, Proc
<1>2. LifecycleInv /\ WantedRecorded /\ [Next]_vars => WantedRecorded'
  <2>1. WantedRecorded /\ UNCHANGED vars => WantedRecorded'
    BY StutterKeeps DEF WantedRecorded, At
  <2> QED
    BY <2>1, WantedStep
<1> QED
  BY <1>1, <1>2, LifecycleAlways, PTL DEF Spec

(* While the process serves and saves succeed, every tunnel the operator   *)
(* started is marked active in the file, whatever edits came since and     *)
(* wherever it crashed before (UpdateTunnel's "omitted status must mean    *)
(* keep", config.go:463-468).                                              *)
THEOREM AutoStartAlwaysRecorded == Spec => []AutoStartRecorded
<1>1. WantedRecorded => AutoStartRecorded
  BY DEF WantedRecorded, AutoStartRecorded
<1> QED
  BY <1>1, WantedAlwaysRecorded, PTL

-----------------------------------------------------------------------------
(* What is stored, started and running has the ports of a valid form. *)

(* While the process boots, main's list only gets shorter, and no tunnel   *)
(* is deleted: no request is served yet.                                   *)
LEMMA QueueShrinks ==
    ASSUME LifecycleInv, Next, ~Boot, phase' = "booting"
    PROVE  /\ phase = "booting" /\ todo' \subseteq todo
           /\ \A id \in Id : Known(id) => Known(id)'
<1>0. /\ TypeOK /\ Main \in Proc /\ \A r \in Request : r \in Proc
      /\ phase \in {"off", "booting"} => \A r \in Request : task[r].at = "idle"
      /\ \A id \in Id, status \in {"active", "inactive"} :
            Marks(id, status) => \A x \in Id : Known(x) => Known(x)'
  BY DEF LifecycleInv, Stages, At, Proc, Marks, Known
<1>1. ASSUME NEW p \in Proc, ManagerStep(p)
      PROVE  UNCHANGED <<phase, todo>> /\ \A id \in Id : Known(id) => Known(id)'
  <2>1. CASE StartBinds(p) \/ StartFails(p)
    BY <1>0, <2>1, StartSteps DEF Known
  <2>2. CASE StartEnds(p) \/ FailureEnds(p) \/ StopEnds(p)
    BY <1>0, <2>2, StatusSteps
  <2> QED
    BY <1>1, <2>1, <2>2 DEF ManagerStep
<1>2. ASSUME NEW r \in Request, RequestStep(r)
      PROVE  FALSE
  <2>1. phase' = phase
    BY <1>0, <1>2, DeleteSteps, NothingSteps, BeginSteps, StopSteps, CreateSteps,
       UpdateSteps DEF RequestStep
  <2>2. CASE DeleteEnds(r) \/ DeleteFindsNothing(r)
    BY <1>0, <2>1, <2>2, DeleteSteps, NothingSteps
  <2>3. CASE Answering
    BY <2>1, <2>3 DEF Answering
  <2> QED
    BY <1>2, <2>2, <2>3
       DEF RequestStep, StartRequest, StopRequest, DeleteRunning, DeleteStopped,
           Create, Update
<1>3. CASE AutoStartSettles
  BY <1>0, <1>3, SettleSteps
<1>4. CASE \E id \in Id : AutoStart(id)
  BY <1>0, <1>4, AutoStartSteps DEF Known
<1>5. CASE Serve \/ Shutdown \/ StopAllEnds \/ Exit \/ Crash \/ \E id \in Id : StopAllMarks(id)
  BY <1>5 DEF Serve, Shutdown, StopAllEnds, Exit, Crash, Die, StopAllMarks
<1> QED
  BY <1>1, <1>2, <1>3, <1>4, <1>5 DEF Next, MainStep

LEMMA PortsOfFormsStep ==
    ASSUME LifecycleInv, PortsOfForms, Next
    PROVE  PortsOfForms'
<1> DEFINE Stored(m) == \A id \in Id : m[id].status # "none" => OfForm(m[id].ports)
           Runs(h) == \A id \in Id : h[id] # {} => OfForm(h[id])
           Starts(t) == \A p \in Proc : t[p].at \in {"start", "up"} => OfForm(t[p].ports)
           Queued == phase = "booting" => \A id \in todo : Known(id)
<1>a. /\ PortsOfForms =>
            Stored(mem) /\ Stored(disk) /\ Runs(handlers) /\ Starts(task) /\ Queued
      /\ Stored(mem') /\ Stored(disk') /\ Runs(handlers') /\ Starts(task') /\ Queued'
            => PortsOfForms'
  BY DEF PortsOfForms, Known, Running, OfForm
<1>0. /\ TypeOK /\ Main \in Proc /\ \A r \in Request : r \in Proc
      /\ Stored(mem) /\ Stored(disk) /\ Runs(handlers) /\ Starts(task)
      /\ Queued
  BY <1>a DEF LifecycleInv, Proc
<1>b. ASSUME NEW id \in Id, NEW status \in {"active", "inactive"}, Marks(id, status)
      PROVE  Stored(mem') /\ Stored(disk')
  <2>1. \A x \in Id : mem'[x].status # "none" =>
            mem[x].status # "none" /\ mem'[x].ports = mem[x].ports
    BY <1>b DEF Marks, Known
  <2> QED
    BY <1>0, <1>b, <2>1 DEF Marks
<1>c. ASSUME NEW id, NEW status, NEW form \in Submitted, Stores(id, status, form)
      PROVE  Stored(mem') /\ Stored(disk')
  <2>1. OfForm(PortsToBind(form))
    BY <1>c DEF Stores, OfForm
  <2> QED
    BY <1>0, <1>c, <2>1 DEF Stores
<1>d. Queued'
  <2>1. CASE Boot
    <3>1. /\ todo' = {id \in Id : disk[id].status = "active"} /\ mem' = disk
      BY <2>1 DEF Boot, Load
    <3> QED
      BY <3>1 DEF Known
  <2>2. CASE ~Boot /\ phase' = "booting"
    <3>1. /\ phase = "booting" /\ todo' \subseteq todo
          /\ \A id \in Id : Known(id) => Known(id)'
      BY <1>0, <2>2, QueueShrinks
    <3> QED
      BY <1>0, <3>1 DEF TypeOK
  <2> QED
    BY <2>1, <2>2
<1> HIDE DEF Stored, Runs, Starts, Queued
<1>1. ASSUME NEW p \in Proc, StartBinds(p) \/ StartFails(p)
      PROVE  PortsOfForms'
  <2>1. Stored(mem') /\ Stored(disk')
    BY <1>0, <1>1, StartSteps
  <2>2. OfForm(task[p].ports)
    BY <1>0, <1>1, StartSteps DEF Starts
  <2>3. Runs(handlers')
    BY <1>0, <1>1, <2>2, StartSteps DEF Runs
  <2>4. Starts(task')
    BY <1>0, <1>1, <2>2, StartSteps DEF Starts
  <2> QED
    BY <1>a, <1>d, <2>1, <2>3, <2>4
<1>2. ASSUME NEW p \in Proc, StartEnds(p) \/ FailureEnds(p) \/ StopEnds(p)
      PROVE  PortsOfForms'
  <2>1. PICK status \in {"active", "inactive"} : Marks(task[p].id, status)
    BY <1>0, <1>2, StatusSteps
  <2>2. /\ task[p].id \in Id /\ handlers' = handlers
        /\ \A q \in Proc \ {p} : task'[q] = task[q]
        /\ task'[p].at \in {"idle", "settle", "drop"}
    BY <1>0, <1>2, StatusSteps, IdleIsIdle
  <2>3. Starts(task')
    BY <1>0, <2>2 DEF Starts
  <2> QED
    BY <1>0, <1>a, <1>d, <1>b, <2>1, <2>2, <2>3
<1>3. ASSUME NEW r \in Request, DeleteEnds(r)
      PROVE  PortsOfForms'
  <2>1. Stored(mem')
    BY <1>0, <1>3, DeleteSteps DEF Stored, NoEntry
  <2>2. Stored(disk')
    BY <1>0, <1>3, <2>1, DeleteSteps
  <2>3. Starts(task') /\ Runs(handlers')
    BY <1>0, <1>3, DeleteSteps, IdleIsIdle DEF Starts
  <2> QED
    BY <1>a, <1>d, <2>1, <2>2, <2>3
<1>4. ASSUME NEW r \in Request, DeleteFindsNothing(r)
      PROVE  PortsOfForms'
  BY <1>0, <1>a, <1>d, <1>4, NothingSteps, IdleIsIdle DEF Starts
<1>5. ASSUME NEW r \in Request, NEW id \in Id, StartRequest(r, id) \/ DeleteStopped(r, id)
      PROVE  PortsOfForms'
  <2>1. OfForm(mem[id].ports)
    BY <1>0, <1>5, BeginSteps DEF Stored, Known
  <2>2. Starts(task')
    BY <1>0, <1>5, <2>1, BeginSteps DEF Starts
  <2> QED
    BY <1>0, <1>a, <1>d, <1>5, <2>2, BeginSteps
<1>6. ASSUME NEW r \in Request, NEW id \in Id, StopRequest(r, id) \/ DeleteRunning(r, id)
      PROVE  PortsOfForms'
  <2>1. Runs(handlers')
    BY <1>0, <1>6, StopSteps DEF Runs
  <2>2. Starts(task')
    BY <1>0, <1>6, StopSteps DEF Starts
  <2> QED
    BY <1>0, <1>a, <1>d, <1>6, <2>1, <2>2, StopSteps
<1>7. ASSUME NEW r \in Request, NEW id \in Id, NEW form \in Submitted,
             Create(r, id, form) \/ Update(r, id, form)
      PROVE  PortsOfForms'
  <2>1. PICK status : Stores(id, status, form)
    BY <1>0, <1>7, CreateSteps, UpdateSteps
  <2>2. UNCHANGED <<handlers, task>>
    BY <1>0, <1>7, CreateSteps, UpdateSteps
  <2> QED
    BY <1>0, <1>a, <1>d, <1>c, <2>1, <2>2
<1>8. ASSUME Boot
      PROVE  PortsOfForms'
  BY <1>0, <1>a, <1>d, <1>8 DEF Boot, Load
<1>9. ASSUME AutoStartSettles
      PROVE  PortsOfForms'
  <2>1. Starts(task')
    BY <1>0, <1>9, SettleSteps, IdleIsIdle DEF Starts
  <2> QED
    BY <1>0, <1>a, <1>d, <1>b, <1>9, <2>1, SettleSteps
<1>10. ASSUME NEW id \in Id, AutoStart(id)
      PROVE  PortsOfForms'
  <2>1. mem[id].status # "none"
    BY <1>0, <1>10, AutoStartSteps DEF Queued, Known
  <2>2. Starts(task')
    BY <1>0, <1>10, <2>1, AutoStartSteps DEF Starts, Stored
  <2> QED
    BY <1>0, <1>a, <1>d, <1>10, <2>2, AutoStartSteps
<1>11. ASSUME Shutdown
      PROVE  PortsOfForms'
  BY <1>0, <1>a, <1>d, <1>11, ShutdownSteps DEF Runs
<1>12. ASSUME NEW id \in Id, StopAllMarks(id)
      PROVE  PortsOfForms'
  <2>1. Marks(id, "inactive") /\ UNCHANGED <<handlers, task>>
    BY <1>0, <1>12, StatusMarks DEF StopAllMarks, TypeOK
  <2> QED
    BY <1>0, <1>a, <1>d, <1>b, <2>1
<1>13. ASSUME StopAllEnds \/ Serve
      PROVE  PortsOfForms'
  BY <1>0, <1>a, <1>d, <1>13 DEF StopAllEnds, Serve, storeVars
<1>14. ASSUME Exit \/ Crash
      PROVE  PortsOfForms'
  BY <1>0, <1>a, <1>d, <1>14, DieSteps, IdleIsIdle DEF Runs, Starts, Stored, NoEntry
<1> QED
  BY <1>1, <1>2, <1>3, <1>4, <1>5, <1>6, <1>7, <1>8, <1>9, <1>10, <1>11, <1>12, <1>13,
     <1>14 DEF Next, MainStep, ManagerStep, RequestStep

LEMMA PortsAlwaysOfForms == Spec => []PortsOfForms
<1>1. Init => PortsOfForms
  BY IdleIsIdle DEF Init, StoreInit, NoEntry, PortsOfForms, Known, Running
<1>2. LifecycleInv /\ PortsOfForms /\ [Next]_vars => PortsOfForms'
  <2>1. PortsOfForms /\ UNCHANGED vars => PortsOfForms'
    BY StutterKeeps DEF PortsOfForms, Known, Running, OfForm
  <2> QED
    BY <2>1, PortsOfFormsStep
<1> QED
  BY <1>1, <1>2, LifecycleAlways, PTL DEF Spec

LEMMA FormsAreUsable == FormsUsable
BY DEF FormsUsable, ValidateTunnel, StartRefuses

LEMMA KeysAreKept == KeysKept
<1> SUFFICES ASSUME NEW stored \in Key, ValidKey(stored)
             PROVE  /\ KeyOfEdit(NoKey, stored) = stored
                    /\ KeyOfEdit(maskKey(stored), stored) = stored
                    /\ \A other \in Key : ~ValidKey(KeyOfNew(maskKey(other), stored))
  BY DEF KeysKept
<1>1. \A key : /\ maskKey(key).length \in {4, 12} /\ maskKey(key).stars
               /\ maskKey(key) # NoKey
  BY DEF maskKey, NoKey
<1>2. KeyOfEdit(NoKey, stored) = stored
  BY DEF KeyOfEdit
<1>3. KeyOfEdit(maskKey(stored), stored) = stored
  BY <1>1 DEF KeyOfEdit, isMaskedKey
<1>4. \A other \in Key : ~ValidKey(KeyOfNew(maskKey(other), stored))
  BY <1>1 DEF KeyOfNew, ValidKey, minEncryptionKeyLength
<1> QED
  BY <1>2, <1>3, <1>4

(* Every stored tunnel is one validation let through; a start refuses a    *)
(* valid one only for its port list or the disabled UDP relay; and its key *)
(* is one somebody chose, never a mask (validateTunnel, UpdateTunnel,      *)
(* maskKey and isMaskedKey).                                               *)
THEOREM SavedAlwaysUsable == Spec => []SavedIsUsable
<1>1. PortsOfForms => SavedIsUsable
  BY FormsAreUsable, KeysAreKept DEF PortsOfForms, OfForm, SavedIsUsable
<1> QED
  BY <1>1, PortsAlwaysOfForms, PTL

-----------------------------------------------------------------------------
(* Port lists, by induction over their parts. *)

NatBelow == {ss \in Nat \X Nat : ss[1] < ss[2]}

LEMMA Below == IsWellFoundedOn(NatBelow, Nat)
BY NatLessThanWellFounded DEF OpToRel, NatBelow

(* Induction over the naturals, for a set instead of a formula.            *)
LEMMA SetInduction ==
  ASSUME NEW S \in SUBSET Nat, 0 \in S, \A n \in S : n+1 \in S
  PROVE  S = Nat
<1> DEFINE T == Nat \ S
<1>2. SUFFICES ASSUME T # {} PROVE FALSE
  OBVIOUS
<1>3. T \subseteq Nat
  OBVIOUS
<1>4. PICK x \in T : \A y \in T : ~ (<<y, x>> \in NatBelow)
  <2> HIDE DEF T
  <2> QED BY ONLY Below, <1>2, <1>3, WFMin
<1>5. x # 0 /\ x \in Nat
  OBVIOUS
<1>6. x - 1 \in T
  BY <1>5
<1>7. <<x-1, x>> \in NatBelow
  BY <1>5 DEF NatBelow
<1> QED BY <1>4, <1>6, <1>7

(* A function defined by recursion over 0..L exists.                       *)
Recurs(h, z, L, F) == h[0] = z /\ \A n \in 1..L : h[n] = F[<<h[n - 1], n>>]

LEMMA Recursion ==
    ASSUME NEW V, NEW z \in V, NEW L \in Nat, NEW F \in [V \X (1..L) -> V]
    PROVE  \E h \in [0..L -> V] : Recurs(h, z, L, F)
<1> DEFINE Upto(k, h) == h[0] = z /\ \A n \in 1..k : h[n] = F[<<h[n - 1], n>>]
           S == {k \in Nat : k <= L => \E h \in [0..k -> V] : Upto(k, h)}
<1>1. 0 \in S
  <2>1. [n \in 0..0 |-> z] \in [0..0 -> V] /\ Upto(0, [n \in 0..0 |-> z])
    OBVIOUS
  <2> QED
    BY <2>1
<1>2. ASSUME NEW k \in S PROVE k + 1 \in S
  <2>1. SUFFICES ASSUME k + 1 <= L
                 PROVE  \E h \in [0..(k + 1) -> V] : Upto(k + 1, h)
    OBVIOUS
  <2>2. PICK h \in [0..k -> V] : Upto(k, h)
    BY <2>1
  <2> DEFINE g == [n \in 0..(k + 1) |-> IF n = k + 1 THEN F[<<h[k], k + 1>>] ELSE h[n]]
  <2>3. F[<<h[k], k + 1>>] \in V
    BY <2>1
  <2>4. g \in [0..(k + 1) -> V]
    BY <2>3
  <2>5. g[0] = z /\ \A n \in 1..(k + 1) : g[n] = F[<<g[n - 1], n>>]
    <3>1. g[0] = z
      BY <2>2
    <3>2. ASSUME NEW n \in 1..(k + 1) PROVE g[n] = F[<<g[n - 1], n>>]
      <4>1. CASE n = k + 1
        <5>1. g[n] = F[<<h[k], k + 1>>] /\ g[n - 1] = h[k]
          BY <4>1
        <5> QED BY <4>1, <5>1
      <4>2. CASE n \in 1..k
        <5>1. g[n] = h[n] /\ g[n - 1] = h[n - 1]
          BY <4>2
        <5> QED BY <4>2, <5>1, <2>2
      <4> QED BY <4>1, <4>2
    <3> QED BY <3>1, <3>2
  <2> QED
    BY <2>4, <2>5
<1>3. S = Nat
  <2> HIDE DEF S
  <2>1. S \subseteq Nat BY DEF S
  <2> QED BY <1>1, <1>2, <2>1, SetInduction
<1>4. L \in S
  BY <1>3
<1>5. \E h \in [0..L -> V] : Upto(L, h)
  BY <1>4
<1> QED
  BY <1>5 DEF Recurs


LEMMA PartsListed ==
    ASSUME NEW part \in Part, ~BadPart(part)
    PROVE  /\ Listed(part) \in Seq(Nat)
           /\ ToSet(Listed(part)) =
                {p \in Nat : part.kind = "range" /\ part.lo <= p /\ p <= part.hi}
<1>1. CASE part.kind # "range"
  BY <1>1, EmptySeq DEF Listed, ToSet
<1>2. CASE part.kind = "range"
  <2>1. part \in [kind : {"range"}, lo : Nat, hi : Nat]
    BY <1>2 DEF Part, Blank, Junk
  <2> DEFINE lo == part.lo
             hi == part.hi
             n == hi + 1 - lo
             s == [i \in 1..n |-> lo + i - 1]
  <2>2. lo \in Nat /\ hi \in Nat /\ lo <= hi /\ n \in Nat
    BY <1>2, <2>1 DEF BadPart
  <2>3. Listed(part) = s
    BY <1>2 DEF Listed
  <2>4. \A i \in 1..n : lo + i - 1 \in Nat
    BY <2>2
  <2>5. s \in Seq(Nat)
    <3>1. s \in [1..n -> Nat]
      BY <2>4
    <3> HIDE DEF s, n
    <3> QED
      BY <2>2, <3>1, SeqDef
  <2>6. ToSet(s) = {p \in Nat : lo <= p /\ p <= hi}
    <3>1. ASSUME NEW p \in Nat, lo <= p, p <= hi
          PROVE  p \in ToSet(s)
      <4>1. p - lo + 1 \in 1..n /\ s[p - lo + 1] = p
        BY <2>2, <3>1
      <4> QED
        BY <4>1 DEF ToSet
    <3>2. ASSUME NEW p \in ToSet(s)
          PROVE  p \in Nat /\ lo <= p /\ p <= hi
      BY <2>2, <3>2 DEF ToSet
    <3> QED
      BY <3>1, <3>2
  <2> QED
    BY <1>2, <2>3, <2>5, <2>6
<1> QED
  BY <1>1, <1>2

LEMMA ToSetOfConcat ==
    ASSUME NEW s \in Seq(Nat), NEW t \in Seq(Nat)
    PROVE  ToSet(s \o t) = ToSet(s) \cup ToSet(t)
<1> DEFINE m == Len(s)
           n == Len(t)
<1>1. /\ m \in Nat /\ n \in Nat /\ DOMAIN s = 1..m /\ DOMAIN t = 1..n
      /\ DOMAIN (s \o t) = 1..(m + n)
      /\ \A i \in 1..(m + n) : (s \o t)[i] = IF i <= m THEN s[i] ELSE t[i - m]
  BY LenProperties, ConcatProperties
<1> HIDE DEF m, n
<1>a. /\ \A i \in 1..m : s[i] \in ToSet(s)
      /\ \A i \in 1..n : t[i] \in ToSet(t)
      /\ \A i \in 1..(m + n) : (s \o t)[i] \in ToSet(s \o t)
  BY <1>1 DEF ToSet
<1>2. ASSUME NEW i \in 1..(m + n)
      PROVE  (s \o t)[i] \in ToSet(s) \cup ToSet(t)
  <2>1. CASE i <= m
    <3>1. i \in 1..m
      BY <1>1, <2>1
    <3> QED
      BY <1>a, <1>1, <2>1, <3>1
  <2>2. CASE ~(i <= m)
    <3>1. i - m \in 1..n
      BY <1>1, <2>2
    <3> QED
      BY <1>a, <1>1, <2>2, <3>1
  <2> QED
    BY <2>1, <2>2
<1>3. ASSUME NEW i \in 1..m
      PROVE  s[i] \in ToSet(s \o t)
  <2>1. i \in 1..(m + n) /\ i <= m
    BY <1>1
  <2> QED
    BY <1>a, <1>1, <2>1
<1>4. ASSUME NEW i \in 1..n
      PROVE  t[i] \in ToSet(s \o t)
  <2>1. i + m \in 1..(m + n) /\ ~(i + m <= m) /\ i + m - m = i
    BY <1>1
  <2>2. (s \o t)[i + m] = t[i]
    BY <1>1, <2>1
  <2> QED
    BY <1>a, <2>1, <2>2
<1>5. ToSet(s \o t) \subseteq ToSet(s) \cup ToSet(t)
  BY <1>1, <1>2 DEF ToSet
<1>6. ToSet(s) \subseteq ToSet(s \o t) /\ ToSet(t) \subseteq ToSet(s \o t)
  BY <1>1, <1>3, <1>4 DEF ToSet
<1> QED
  BY <1>5, <1>6

LEMMA ListsListed ==
    ASSUME NEW list \in Seq(Part), \A i \in 1..Len(list) : ~BadPart(list[i])
    PROVE  /\ AllListed(list) \in Seq(Nat)
           /\ ToSet(AllListed(list)) =
                {p \in Nat : \E i \in 1..Len(list) : list[i].kind = "range"
                                /\ list[i].lo <= p /\ p <= list[i].hi}
<1> DEFINE L == Len(list)
           Of(i) == {p \in Nat : list[i].kind = "range"
                                   /\ list[i].lo <= p /\ p <= list[i].hi}
           Upto(k) == {p \in Nat : \E i \in 1..k : p \in Of(i)}
           f[n \in 0..L] == IF n = 0 THEN <<>> ELSE f[n - 1] \o Listed(list[n])
           F == [x \in Seq(Nat) \X (1..L) |-> x[1] \o Listed(list[x[2]])]
<1>1. AllListed(list) = f[L]
  BY DEF AllListed
<1>2. L \in Nat /\ \A i \in 1..L : list[i] \in Part
  BY LenProperties, ElementOfSeq
<1>3. \A i \in 1..L : Listed(list[i]) \in Seq(Nat) /\ ToSet(Listed(list[i])) = Of(i)
  BY <1>2, PartsListed
<1>4. F \in [Seq(Nat) \X (1..L) -> Seq(Nat)]
  BY <1>3, ConcatProperties
<1>5. PICK h \in [0..L -> Seq(Nat)] :
          h[0] = <<>> /\ \A n \in 1..L : h[n] = F[<<h[n - 1], n>>]
  <2> DEFINE V == Seq(Nat)
             z == <<>>
  <2>1. z \in V /\ F \in [V \X (1..L) -> V] /\ L \in Nat
    BY <1>2, <1>4
  <2> HIDE DEF F, L, V, z
  <2>2. \E h \in [0..L -> V] : Recurs(h, z, L, F)
    BY <2>1, Recursion
  <2> QED
    BY <2>2 DEF V, z, Recurs
<1>6. h = [n \in 0..L |-> IF n = 0 THEN <<>> ELSE h[n - 1] \o Listed(list[n])]
  <2>1. \A n \in 1..L : h[n] = h[n - 1] \o Listed(list[n])
    BY <1>2, <1>5, SMTT(30)
  <2> QED
    BY <1>2, <1>5, <2>1
<1>7. f = CHOOSE g : g = [n \in 0..L |->
                            IF n = 0 THEN <<>> ELSE g[n - 1] \o Listed(list[n])]
  BY DEF f
<1>8. f = [n \in 0..L |-> IF n = 0 THEN <<>> ELSE f[n - 1] \o Listed(list[n])]
  <2> HIDE DEF f
  <2> QED
    BY <1>6, <1>7
<1>9. f[0] = <<>> /\ \A n \in 1..L : f[n] = f[n - 1] \o Listed(list[n])
  <2> DEFINE e == <<>>
             c(n) == f[n - 1] \o Listed(list[n])
             G == [n \in 0..L |-> IF n = 0 THEN e ELSE c(n)]
  <2>1. f = G
    BY <1>8
  <2> HIDE DEF f, L, e, c
  <2>2. G[0] = e /\ \A n \in 1..L : G[n] = c(n)
    BY <1>2
  <2> HIDE DEF G
  <2>3. f[0] = e /\ \A n \in 1..L : f[n] = c(n)
    BY <2>1, <2>2
  <2> QED
    BY <2>3 DEF e, c
<1>10. Upto(0) = {} /\ \A k \in Nat : Upto(k + 1) = Upto(k) \cup Of(k + 1)
  <2> HIDE DEF Of
  <2>1. \A k \in Nat : 1..(k + 1) = 1..k \cup {k + 1}
    OBVIOUS
  <2>2. 1..0 = {}
    OBVIOUS
  <2>3. \A p \in Of(0) : TRUE
    OBVIOUS
  <2>4. \A k, p : p \in Of(k) => p \in Nat
    BY DEF Of
  <2> QED
    BY <2>1, <2>2, <2>4
<1> HIDE DEF f, Upto, Of, L
<1> DEFINE S == {k \in Nat : k <= L => f[k] \in Seq(Nat) /\ ToSet(f[k]) = Upto(k)}
<1>11. 0 \in S
  <2>1. ToSet(<<>>) = {}
    BY DEF ToSet
  <2>2. f[0] \in Seq(Nat)
    BY <1>9
  <2>3. ToSet(f[0]) = Upto(0)
    BY <1>9, <1>10, <2>1
  <2> QED
    BY <2>2, <2>3
<1>12. ASSUME NEW k \in S
       PROVE  k + 1 \in S
  <2>1. CASE k + 1 <= L
    <3>1. f[k] \in Seq(Nat) /\ ToSet(f[k]) = Upto(k) /\ k \in Nat /\ k + 1 \in 1..L
      BY <1>2, <2>1
    <3>2. f[k + 1] = f[k] \o Listed(list[k + 1])
      <4> DEFINE j == k + 1
      <4>1. j - 1 = k /\ j \in 1..L
        BY <3>1
      <4>2. f[j] = f[k] \o Listed(list[j])
        <5> HIDE DEF j
        <5>1. f[j] = f[j - 1] \o Listed(list[j])
          BY <1>9, <4>1, Zenon
        <5> QED
          BY <4>1, <5>1, Zenon
      <4> QED
        BY <4>2
    <3>3. Listed(list[k + 1]) \in Seq(Nat) /\ ToSet(Listed(list[k + 1])) = Of(k + 1)
      BY <1>3, <3>1
    <3>4. f[k + 1] \in Seq(Nat)
      BY <3>1, <3>2, <3>3, ConcatProperties
    <3>5. ToSet(f[k + 1]) = Upto(k) \cup Of(k + 1)
      BY <3>1, <3>2, <3>3, ToSetOfConcat
    <3>6. ToSet(f[k + 1]) = Upto(k + 1)
      BY <1>10, <3>1, <3>5
    <3> QED
      BY <3>1, <3>4, <3>6
  <2>2. CASE ~(k + 1 <= L)
    BY <2>2
  <2> QED
    BY <2>1, <2>2
<1>13. S = Nat
  <2>1. S \subseteq Nat
    OBVIOUS
  <2> HIDE DEF S
  <2> QED
    BY <1>11, <1>12, <2>1, SetInduction
<1>14. L \in S
  <2> HIDE DEF S
  <2> QED
    BY <1>2, <1>13
<1>15. f[L] \in Seq(Nat) /\ ToSet(f[L]) = Upto(L)
  BY <1>2, <1>14
<1> QED
  BY <1>1, <1>15 DEF Upto, Of, L

(* A sequence that names nothing twice. *)
Counted(u) == IsFiniteSet(ToSet(u)) /\ Cardinality(ToSet(u)) = Len(u)

LEMMA AddNewCounts ==
    ASSUME NEW u \in Seq(Nat), NEW p \in Nat, Counted(u)
    PROVE  /\ AddNew(u, p) \in Seq(Nat) /\ Counted(AddNew(u, p))
           /\ ToSet(AddNew(u, p)) = ToSet(u) \cup {p}
<1>1. CASE p \in ToSet(u)
  <2>1. ToSet(u) \cup {p} = ToSet(u)
    BY <1>1
  <2> QED
    BY <1>1, <2>1 DEF AddNew
<1>2. CASE p \notin ToSet(u)
  <2> DEFINE n == Len(u)
             v == Append(u, p)
  <2>1. /\ n \in Nat /\ DOMAIN u = 1..n /\ v \in Seq(Nat)
        /\ Len(v) = n + 1 /\ DOMAIN v = 1..(n + 1)
        /\ \A i \in 1..n : v[i] = u[i]
        /\ v[n + 1] = p
    BY LenProperties, AppendProperties
  <2>2. AddNew(u, p) = v
    BY <1>2 DEF AddNew
  <2>3. Cardinality(ToSet(u)) = n
    BY DEF Counted
  <2> HIDE DEF n, v
  <2>4. 1..(n + 1) = 1..n \cup {n + 1}
    BY <2>1
  <2>5. ToSet(v) = ToSet(u) \cup {p}
    BY <2>1, <2>4 DEF ToSet
  <2>6. IsFiniteSet(ToSet(v)) /\ Cardinality(ToSet(v)) = n + 1
    <3> DEFINE T == ToSet(u)
    <3>1. IsFiniteSet(T) /\ Cardinality(T) = n /\ p \notin T
      BY <1>2, <2>3 DEF Counted
    <3> HIDE DEF T
    <3>2. IsFiniteSet(T \cup {p}) /\ Cardinality(T \cup {p}) = n + 1
      BY <3>1, FS_AddElement
    <3> QED
      BY <2>5, <3>2 DEF T
  <2> QED
    BY <2>1, <2>2, <2>5, <2>6 DEF Counted
<1> QED
  BY <1>1, <1>2

LEMMA UniqueCounts ==
    ASSUME NEW ports \in Seq(Nat)
    PROVE  /\ Unique(ports) \in Seq(Nat) /\ Counted(Unique(ports))
           /\ ToSet(Unique(ports)) = ToSet(ports)
<1> DEFINE L == Len(ports)
           Upto(k) == {p \in Nat : \E i \in 1..k : p = ports[i]}
           f[n \in 0..L] == IF n = 0 THEN <<>> ELSE AddNew(f[n - 1], ports[n])
           V == {u \in Seq(Nat) : Counted(u)}
           F == [x \in V \X (1..L) |-> AddNew(x[1], ports[x[2]])]
<1>1. Unique(ports) = f[L]
  BY DEF Unique
<1>2. L \in Nat /\ DOMAIN ports = 1..L /\ \A i \in 1..L : ports[i] \in Nat
  BY LenProperties, ElementOfSeq
<1>3. \A u \in V, i \in 1..L : /\ AddNew(u, ports[i]) \in V
                               /\ ToSet(AddNew(u, ports[i])) = ToSet(u) \cup {ports[i]}
  BY <1>2, AddNewCounts
<1>4. F \in [V \X (1..L) -> V]
  <2> HIDE DEF V, L
  <2> QED
    BY <1>3
<1>5. <<>> \in V
  <2>1. ToSet(<<>>) = {} /\ Len(<<>>) = 0 /\ <<>> \in Seq(Nat)
    BY DEF ToSet
  <2> QED
    BY <2>1, FS_EmptySet DEF Counted
<1>6. PICK h \in [0..L -> V] : Recurs(h, <<>>, L, F)
  <2> HIDE DEF F, L, V
  <2> QED
    BY <1>2, <1>4, <1>5, Recursion
<1>7. h = [n \in 0..L |-> IF n = 0 THEN <<>> ELSE AddNew(h[n - 1], ports[n])]
  <2> HIDE DEF V, L
  <2>1. \A n \in 1..L : h[n] = AddNew(h[n - 1], ports[n])
    <3>1. SUFFICES ASSUME NEW n \in 1..L
                   PROVE  h[n] = AddNew(h[n - 1], ports[n])
      OBVIOUS
    <3>9. n - 1 \in 0..L
      BY <1>2
    <3>2. h[n - 1] \in V
      BY <1>6, <3>9
    <3>3. F[<<h[n - 1], n>>] = AddNew(h[n - 1], ports[n])
      BY <3>2
    <3>4. h[n] = F[<<h[n - 1], n>>]
      <4> HIDE DEF F
      <4> QED
        BY <1>6, Zenon DEF Recurs
    <3> QED
      BY <3>3, <3>4
  <2> QED
    BY <1>2, <1>6, <2>1 DEF Recurs
<1>8. f = CHOOSE g : g = [n \in 0..L |-> IF n = 0 THEN <<>> ELSE AddNew(g[n - 1], ports[n])]
  BY DEF f
<1>9. f = [n \in 0..L |-> IF n = 0 THEN <<>> ELSE AddNew(f[n - 1], ports[n])]
  <2> HIDE DEF f, V, F
  <2> QED
    BY <1>7, <1>8
<1>10. f[0] = <<>> /\ \A n \in 1..L : f[n] = AddNew(f[n - 1], ports[n])
  <2> DEFINE e == <<>>
             c(n) == AddNew(f[n - 1], ports[n])
             G == [n \in 0..L |-> IF n = 0 THEN e ELSE c(n)]
  <2>1. f = G
    BY <1>9
  <2> HIDE DEF f, L, e, c
  <2>2. G[0] = e /\ \A n \in 1..L : G[n] = c(n)
    BY <1>2
  <2> HIDE DEF G
  <2>3. f[0] = e /\ \A n \in 1..L : f[n] = c(n)
    BY <2>1, <2>2
  <2> QED
    BY <2>3 DEF e, c
<1>11. Upto(0) = {} /\ \A k \in 0..(L - 1) : Upto(k + 1) = Upto(k) \cup {ports[k + 1]}
  <2>1. \A k \in Nat : 1..(k + 1) = 1..k \cup {k + 1}
    OBVIOUS
  <2>2. 1..0 = {}
    OBVIOUS
  <2>3. \A k \in 0..(L - 1) : k \in Nat /\ ports[k + 1] \in Nat
    BY <1>2
  <2> QED
    BY <2>1, <2>2, <2>3
<1> HIDE DEF f, Upto, L, V, F
<1> DEFINE S == {k \in Nat : k <= L => f[k] \in V /\ ToSet(f[k]) = Upto(k)}
<1>12. 0 \in S
  <2>1. ToSet(<<>>) = {}
    BY DEF ToSet
  <2>2. f[0] \in V
    BY <1>5, <1>10
  <2>3. ToSet(f[0]) = Upto(0)
    BY <1>10, <1>11, <2>1
  <2> QED
    BY <2>2, <2>3
<1>13. ASSUME NEW k \in S
       PROVE  k + 1 \in S
  <2>1. CASE k + 1 <= L
    <3> DEFINE j == k + 1
    <3>1. /\ f[k] \in V /\ ToSet(f[k]) = Upto(k) /\ k \in Nat
          /\ j \in 1..L /\ j - 1 = k /\ k \in 0..(L - 1)
      BY <1>2, <2>1
    <3>2. Upto(j) = Upto(k) \cup {ports[j]}
      BY <1>11, <3>1
    <3> HIDE DEF j
    <3>3. f[j] = AddNew(f[j - 1], ports[j])
      BY <1>10, <3>1, Zenon
    <3>4. f[j] = AddNew(f[k], ports[j])
      BY <3>1, <3>3, Zenon
    <3>5. f[j] \in V /\ ToSet(f[j]) = Upto(j)
      BY <1>3, <3>1, <3>2, <3>4, Zenon
    <3> QED
      BY <3>1, <3>5 DEF j
  <2>2. CASE ~(k + 1 <= L)
    BY <2>2
  <2> QED
    BY <2>1, <2>2
<1>14. S = Nat
  <2>1. S \subseteq Nat
    OBVIOUS
  <2> HIDE DEF S
  <2> QED
    BY <1>12, <1>13, <2>1, SetInduction
<1>15. L \in S
  <2> HIDE DEF S
  <2> QED
    BY <1>2, <1>14
<1>16. f[L] \in V /\ ToSet(f[L]) = Upto(L)
  BY <1>2, <1>15
<1>17. ToSet(ports) = Upto(L)
  BY <1>2 DEF ToSet, Upto
<1> QED
  BY <1>1, <1>16, <1>17 DEF V

(* What a list names lies between port 1 and the top port. *)
LEMMA NamedAreFinite ==
    ASSUME NEW list
    PROVE  IsFiniteSet(Named(list)) /\ Cardinality(Named(list)) \in Nat
<1>1. Named(list) \subseteq 1..TopPort
  BY DEF Named
<1>2. IsFiniteSet(1..TopPort)
  BY SettingsConstants, FS_Interval
<1> QED
  BY <1>1, <1>2, FS_Subset, FS_CardinalityType

(* ParsePorts returns what the list names, once each, or fails: on a part  *)
(* that is no port and no range, on no port, and on too many.              *)
LEMMA ParseMeans ==
    ASSUME NEW list \in Seq(Part)
    PROVE  /\ Len(ParsePorts(list)) = Cardinality(ToSet(ParsePorts(list)))
           /\ ToSet(ParsePorts(list)) =
                IF WellFormed(list) /\ Cardinality(Named(list)) \in 1..MaxPorts
                    THEN Named(list) ELSE {}
<1> DEFINE u == Unique(AllListed(list))
<1>1. DOMAIN list = 1..Len(list) /\ \A i \in 1..Len(list) : list[i] \in Part
  BY LenProperties, ElementOfSeq
<1>2. Len(<<>>) = 0 /\ ToSet(<<>>) = {} /\ Cardinality({}) = 0
  BY FS_EmptySet DEF ToSet
<1>3. \A part \in Part :
          ~BadPart(part) <=> \/ part.kind = "blank"
                             \/ /\ part.kind = "range"
                                /\ {part.lo, part.hi} \subseteq 1..TopPort
                                /\ part.lo <= part.hi
  BY SettingsConstants DEF Part, BadPart, Blank, Junk
<1>4. WellFormed(list) <=> ~\E i \in DOMAIN list : BadPart(list[i])
  BY <1>1, <1>3 DEF WellFormed
<1>5. CASE ~WellFormed(list)
  BY <1>2, <1>4, <1>5 DEF ParsePorts
<1>6. CASE WellFormed(list)
  <2>1. /\ AllListed(list) \in Seq(Nat)
        /\ ToSet(AllListed(list)) =
             {p \in Nat : \E i \in 1..Len(list) : list[i].kind = "range"
                             /\ list[i].lo <= p /\ p <= list[i].hi}
    BY <1>1, <1>4, <1>6, ListsListed
  <2>2. u \in Seq(Nat) /\ Counted(u) /\ ToSet(u) = ToSet(AllListed(list))
    BY <2>1, UniqueCounts
  <2>3. ToSet(u) = Named(list)
    <3>1. ASSUME NEW p \in Nat, NEW i \in 1..Len(list), list[i].kind = "range",
                 list[i].lo <= p, p <= list[i].hi
          PROVE  p \in 1..TopPort
      <4>1. list[i].lo \in 1..TopPort /\ list[i].hi \in 1..TopPort
        BY <1>1, <1>3, <1>4, <1>6, <3>1 DEF WellFormed
      <4> QED
        BY <3>1, <4>1, SettingsConstants
    <3>2. ASSUME NEW p \in Named(list)
          PROVE  p \in ToSet(u)
      <4>1. p \in Nat
        BY <3>2, SettingsConstants DEF Named
      <4> QED
        BY <1>1, <2>1, <2>2, <3>2, <4>1 DEF Named
    <3>3. ASSUME NEW p \in ToSet(u)
          PROVE  p \in Named(list)
      <4>1. PICK i \in 1..Len(list) :
                list[i].kind = "range" /\ list[i].lo <= p /\ p <= list[i].hi /\ p \in Nat
        BY <2>1, <2>2, <3>3
      <4>2. p \in 1..TopPort
        BY <3>1, <4>1
      <4> QED
        BY <1>1, <4>1, <4>2 DEF Named
    <3> QED
      BY <3>2, <3>3
  <2>4. Len(u) = Cardinality(Named(list)) /\ Len(u) \in Nat
    BY <2>2, <2>3, LenProperties DEF Counted
  <2>5. u = <<>> <=> Len(u) = 0
    BY <2>2, EmptySeq, LenProperties
  <2>6. Fits(u) <=> Cardinality(Named(list)) \in 1..MaxPorts
    BY <2>4, <2>5, SettingsConstants DEF Fits
  <2>7. ParsePorts(list) = IF Fits(u) THEN u ELSE <<>>
    BY <1>4, <1>6 DEF ParsePorts
  <2> HIDE DEF u
  <2>8. CASE Fits(u)
    BY <1>6, <2>3, <2>4, <2>6, <2>7, <2>8
  <2>9. CASE ~Fits(u)
    BY <1>2, <1>6, <2>6, <2>7, <2>9
  <2> QED
    BY <2>8, <2>9
<1> QED
  BY <1>5, <1>6

LEMMA FormsParsed ==
    ASSUME NEW ports, OfForm(ports), ports # {}
    PROVE  \E form \in Submitted : ports = NamedBy(form)
<1>1. PICK form \in Submitted : ValidateTunnel(form) /\ ports = PortsToBind(form)
  BY DEF OfForm
<1>2. form.mode \in {"iran", "overseas"} /\ ~StartRefuses(form)
  BY <1>1 DEF ValidateTunnel, PortsToBind
<1>3. CASE form.mode = "iran"
  <2>1. ports = ToSet(ParsePorts(form.ports)) /\ form.ports \in Seq(Part)
    BY <1>1, <1>2, <1>3, SubmittedAssumption DEF PortsToBind
  <2>2. ports = Named(form.ports)
    BY <2>1, ParseMeans
  <2> QED
    BY <1>3, <2>2 DEF NamedBy
<1>4. CASE form.mode # "iran"
  BY <1>1, <1>2, <1>4 DEF PortsToBind, NamedBy
<1> QED
  BY <1>3, <1>4

LEMMA ListsAreParsed == ListsParsed
BY ListsOfParts, ParseMeans DEF ListsParsed

(* A running tunnel has bound each port its list names and no other, and a *)
(* list, of any length and however its ranges overlap, names a port once   *)
(* and is refused exactly when a part of it is malformed, when it names    *)
(* nothing, or more different ports than a tunnel may have (ParsePorts).   *)
THEOREM PortsAlwaysParsed == Spec => []PortsParsed
<1>1. LifecycleInv /\ PortsOfForms => PortsParsed
  <2> SUFFICES ASSUME PortsOfForms, NEW id \in Running
               PROVE  \E form \in Submitted : handlers[id] = NamedBy(form)
    BY ListsAreParsed DEF PortsParsed
  <2>1. OfForm(handlers[id]) /\ handlers[id] # {}
    BY DEF PortsOfForms, Running
  <2> QED
    BY <2>1, FormsParsed
<1> QED
  BY <1>1, LifecycleAlways, PortsAlwaysOfForms, PTL

=============================================================================
