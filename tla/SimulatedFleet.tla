--------------------------- MODULE SimulatedFleet ---------------------------
(***************************************************************************)
(* The simulator: BulkDeviceTester reads the table of devices now and then  *)
(* and has DeviceManager start and cancel a task per device (DeviceBase),    *)
(* whose transport (IoTHubWorkaroundTransport) connects to the hub and sends *)
(* queued reports from a loop of its own. A cancelled instance goes on until *)
(* it has closed, perhaps beside a new one of the same device.               *)
(***************************************************************************)
EXTENDS Naturals, Sequences, FiniteSets

CONSTANTS
    Devices,
    MaxRows,        \* bound: rows ever written for a device
    MaxCalls,       \* bound: methods called and desired properties changed
    MaxFaults       \* bound: failing calls, lost answers, races and exits of the process

ASSUME FleetAssumption ==
    /\ IsFiniteSet(Devices) /\ Devices # {}
    /\ MaxRows \in Nat /\ MaxCalls \in Nat /\ MaxFaults \in Nat

VARIABLES
    table,          \* the row of a device and its key, which are the hub's identity too
    twin,           \* the firmware update's status among the reported properties
    supervisor,     \* ProcessDevicesAsync and the list it has read
    tasks,          \* DeviceManager._tasks, the instance per device
    instances,      \* the running devices, those included that are no task any more
    states,         \* StateCollection
    blurred,        \* history: devices that had two instances at once or a close that failed
    faults, callsMade

fleetVars == <<table, twin, supervisor, tasks, instances, states, blurred, faults, callsMade>>

NoKey  == 0
Keys   == 1..MaxRows
Tables == [key : Keys \union {NoKey}, there : BOOLEAN, rows : 0..MaxRows]
Slots  == {1, 2}                \* a device and the one it replaces
NoTask == 0

\* a report for the start, two for an update and one for anything else
MaxReports == 2 * MaxCalls + 1
Statuses   == {"other", "Running", "Ended"}
Reports    == [no : 1..MaxReports, status : Statuses]
Queues     == UNION {[1..n -> Reports] : n \in 0..MaxReports}

\* history: made and applied count the reports of the instance, and those of
\* them the hub has
Instances == [key : Keys \union {NoKey}, cancelled : BOOLEAN,
              phase : {"over", "opening", "setup", "running", "closing"},
              loop : {"none", "on", "dead"},
              client : {"none", "good", "broken"},
              reports : Queues, made : 0..MaxReports, applied : 0..MaxReports,
              update : BOOLEAN]                         \* _deviceManagementTask runs

Over == [key |-> NoKey, cancelled |-> FALSE, phase |-> "over", loop |-> "none", client |-> "none",
         reports |-> <<>>, made |-> 0, applied |-> 0, update |-> FALSE]

Supervisors == [step : {"read", "act", "ended"}, list : [Devices -> Keys \union {NoKey}]]

Started  == [step |-> "read", list |-> [d \in Devices |-> NoKey]]
NoTasks  == [d \in Devices |-> NoTask]
AllOver  == [d \in Devices |-> [s \in Slots |-> Over]]
NoStates == [d \in Devices |-> "none"]

FleetInit ==
    /\ table = [d \in Devices |-> [key |-> NoKey, there |-> FALSE, rows |-> 0]]
    /\ twin = [d \in Devices |-> "other"]
    /\ supervisor = Started /\ tasks = NoTasks /\ instances = AllOver /\ states = NoStates
    /\ blurred = {} /\ faults = 0 /\ callsMade = 0

Fault == faults < MaxFaults /\ faults' = faults + 1 /\ UNCHANGED callsMade
NoFault == UNCHANGED <<faults, callsMade>>

-----------------------------------------------------------------------------
\* The site adds and removes devices, or disables and enables them, when the key
\* stays; in the hub and in the table.
AddRow(d) ==
    /\ ~table[d].there /\ table[d].rows < MaxRows
    /\ \E key \in {table[d].key, table[d].rows + 1} \ {NoKey} :
           table' = [table EXCEPT ![d] = [key |-> key, there |-> TRUE, rows |-> @.rows + 1]]
    /\ UNCHANGED <<twin, supervisor, tasks, instances, states, blurred, faults, callsMade>>

RemoveRow(d) ==
    /\ table[d].there
    /\ table' = [table EXCEPT ![d].there = FALSE]
    /\ UNCHANGED <<twin, supervisor, tasks, instances, states, blurred, faults, callsMade>>

-----------------------------------------------------------------------------
Cancelled(is, ds) ==
    [d \in Devices |-> [s \in Slots |-> IF d \in ds /\ tasks[d] = s /\ is[d][s].phase # "over"
                                       THEN [is[d][s] EXCEPT !.cancelled = TRUE] ELSE is[d][s]]]

Reads ==
    /\ supervisor.step = "read"
    /\ supervisor' = [step |-> "act", list |-> [d \in Devices |-> IF table[d].there THEN table[d].key ELSE NoKey]]
    /\ UNCHANGED <<table, twin, tasks, instances, states, blurred, faults, callsMade>>

\* An exception leaves the loop for good, and the devices are stopped.
ReadFails ==
    /\ supervisor.step = "read" /\ Fault
    /\ supervisor' = [Started EXCEPT !.step = "ended"]
    /\ instances' = Cancelled(instances, Devices)
    /\ tasks' = NoTasks
    /\ UNCHANGED <<table, twin, states, blurred>>

\* mutant: a task that has completed is still taken for live
LiveForGood(d) == tasks[d] # NoTask

\* GetLiveDevices forgets the tasks that have completed
Live(d) == tasks[d] # NoTask /\ instances[d][tasks[d]].phase # "over"

Free(d) == {s \in Slots : instances[d][s].phase = "over"}

Opening(key) == [Over EXCEPT !.key = key, !.phase = "opening"]

\* mutant: a device that is not listed any more is forgotten and not cancelled
ActsWithoutCancel ==
    LET listed  == {d \in Devices : supervisor.list[d] # NoKey}
        new     == {d \in listed : ~Live(d)}
        slot(d) == CHOOSE s \in Free(d) : TRUE
    IN  /\ supervisor.step = "act"
        /\ \A d \in new : Free(d) # {}
        /\ tasks' = [d \in Devices |-> IF d \in new THEN slot(d) ELSE IF d \in listed THEN tasks[d] ELSE NoTask]
        /\ instances' = [d \in Devices |-> IF d \in new THEN [instances[d] EXCEPT ![slot(d)] = Opening(supervisor.list[d])]
                                           ELSE instances[d]]
        /\ supervisor' = Started
        /\ blurred' = blurred \union {d \in new : Free(d) # Slots}
        /\ UNCHANGED <<table, twin, states, faults, callsMade>>

\* What is not listed is cancelled, what is listed and does not live is started,
\* without a wait in between. (Of a third instance at once the model waits.)
Acts ==
    LET listed  == {d \in Devices : supervisor.list[d] # NoKey}
        new     == {d \in listed : ~Live(d)}
        stopped == Cancelled(instances, Devices \ listed)
        slot(d) == CHOOSE s \in Free(d) : TRUE
    IN  /\ supervisor.step = "act"
        /\ \A d \in new : Free(d) # {}
        /\ tasks' = [d \in Devices |-> IF d \in new THEN slot(d) ELSE IF d \in listed THEN tasks[d] ELSE NoTask]
        /\ instances' = [d \in Devices |-> IF d \in new THEN [stopped[d] EXCEPT ![slot(d)] = Opening(supervisor.list[d])]
                                           ELSE stopped[d]]
        /\ supervisor' = Started
        /\ blurred' = blurred \union {d \in new : Free(d) # Slots}
        /\ UNCHANGED <<table, twin, states, faults, callsMade>>

-----------------------------------------------------------------------------
\* Instance s of device d, the one it was and the one it becomes
I(d, s) == instances[d][s]
Becomes(d, s, i) == instances' = [instances EXCEPT ![d][s] = i]
State(d, x) == states' = [states EXCEPT ![d] = x]
OnlyInstance == UNCHANGED <<table, twin, supervisor, tasks, blurred>>

Made(i, status) == [i EXCEPT !.made = @ + 1, !.reports = Append(@, [no |-> i.made + 1, status |-> status])]

\* CreateDeviceClient: the hub knows the key the instance was started with
Admits(d, i) == table[d].there /\ i.key = table[d].key

\* OpenAsync. Without a client even CloseAsync fails, and the task ends.
Opens(d, s) ==
    /\ I(d, s).phase = "opening" /\ Admits(d, I(d, s))
    /\ Becomes(d, s, [I(d, s) EXCEPT !.phase = "setup", !.client = "good", !.loop = "on"])
    /\ State(d, "Up")
    /\ OnlyInstance /\ NoFault

OpenFails(d, s) ==
    /\ I(d, s).phase = "opening"
    /\ IF Admits(d, I(d, s)) THEN Fault ELSE NoFault
    /\ Becomes(d, s, Over)
    /\ OnlyInstance /\ UNCHANGED states

\* The twin is read, and the start and the desired properties are reported.
SetUp(d, s) ==
    /\ I(d, s).phase = "setup" /\ Admits(d, I(d, s))
    /\ Becomes(d, s, [Made(I(d, s), "other") EXCEPT !.phase = "running"])
    /\ OnlyInstance /\ NoFault /\ UNCHANGED states

SetUpFails(d, s) ==
    /\ I(d, s).phase = "setup"
    /\ IF Admits(d, I(d, s)) THEN Fault ELSE NoFault
    /\ Becomes(d, s, [I(d, s) EXCEPT !.phase = "closing"])
    /\ OnlyInstance /\ UNCHANGED states

\* the two loops have seen the cancellation, the one that waits for commands late
LoopsEnd(d, s) ==
    /\ I(d, s).phase = "running" /\ I(d, s).cancelled
    /\ Becomes(d, s, [I(d, s) EXCEPT !.phase = "closing"])
    /\ OnlyInstance /\ NoFault /\ UNCHANGED states

\* CloseAsync, once the send loop has ended: it may throw before the state goes
Closes(d, s) ==
    /\ I(d, s).phase = "closing" /\ I(d, s).loop = "none" /\ I(d, s).client # "none"
    /\ Becomes(d, s, Over)
    /\ State(d, "none")
    /\ OnlyInstance /\ NoFault

CloseFails(d, s) ==
    /\ I(d, s).phase = "closing" /\ I(d, s).loop \in {"none", "dead"}
    /\ IF I(d, s).loop = "none" /\ I(d, s).client # "none" THEN Fault ELSE NoFault
    /\ Becomes(d, s, Over)
    /\ blurred' = blurred \union {d}
    /\ UNCHANGED <<table, twin, supervisor, tasks, states>>

-----------------------------------------------------------------------------
\* SendLoop, one awaited call a step. Here a turn of it sends a report or
\* telemetry; in the code one after the other, which leaves the same.
Reporting(d, s) == I(d, s).phase \in {"running", "closing"}

Top(i) == IF i.phase = "closing" THEN "none" ELSE "on"

\* mutant: a client that has been made anew is still taken for down
ReconnectsUnseen(d, s) ==
    /\ I(d, s).loop = "on" /\ I(d, s).client # "good" /\ Admits(d, I(d, s))
    /\ Becomes(d, s, [I(d, s) EXCEPT !.client = "good"])
    /\ OnlyInstance /\ NoFault /\ UNCHANGED states

Reconnects(d, s) ==
    /\ I(d, s).loop = "on" /\ I(d, s).client # "good" /\ Admits(d, I(d, s))
    /\ Becomes(d, s, [I(d, s) EXCEPT !.client = "good"])
    /\ State(d, "Up")
    /\ OnlyInstance /\ NoFault

ReconnectFails(d, s) ==
    /\ I(d, s).loop = "on" /\ I(d, s).client # "good"
    /\ IF Admits(d, I(d, s)) THEN Fault ELSE NoFault
    /\ Becomes(d, s, [I(d, s) EXCEPT !.client = "none", !.loop = Top(I(d, s))])
    /\ OnlyInstance /\ UNCHANGED states

Apply(d, i) ==
    LET r == Head(i.reports)
    IN  twin' = IF r.status = "other" THEN twin ELSE [twin EXCEPT ![d] = r.status]

\* a call that fails, perhaps although the hub has done it
Broken(i) == [i EXCEPT !.client = "broken", !.loop = Top(i)]

\* the first report of the queue
SendsReport(d, s) ==
    /\ I(d, s).loop = "on" /\ I(d, s).client = "good" /\ I(d, s).reports # <<>>
    /\ Admits(d, I(d, s))
    /\ Becomes(d, s, [I(d, s) EXCEPT !.loop = Top(I(d, s)), !.reports = Tail(@),
                                     !.applied = Head(I(d, s).reports).no])
    /\ Apply(d, I(d, s))
    /\ UNCHANGED <<table, supervisor, tasks, states, blurred, faults, callsMade>>

\* mutant: the report is taken off the queue before it is sent
ReportFailsForGood(d, s) ==
    /\ I(d, s).loop = "on" /\ I(d, s).client = "good" /\ I(d, s).reports # <<>>
    /\ IF Admits(d, I(d, s)) THEN Fault ELSE NoFault
    /\ Becomes(d, s, [Broken(I(d, s)) EXCEPT !.reports = Tail(@)])
    /\ State(d, "Down")
    /\ OnlyInstance

ReportFails(d, s) ==
    /\ I(d, s).loop = "on" /\ I(d, s).client = "good" /\ I(d, s).reports # <<>>
    /\ \/ /\ IF Admits(d, I(d, s)) THEN Fault ELSE NoFault
          /\ Becomes(d, s, Broken(I(d, s))) /\ UNCHANGED twin
       \/ /\ Admits(d, I(d, s)) /\ Fault
          /\ Becomes(d, s, [Broken(I(d, s)) EXCEPT !.applied = Head(I(d, s).reports).no])
          /\ Apply(d, I(d, s))
    /\ State(d, "Down")
    /\ UNCHANGED <<table, supervisor, tasks, blurred>>

\* telemetry, if there is any, which is dropped when it cannot be sent
SendsMessages(d, s) ==
    /\ I(d, s).loop = "on" /\ I(d, s).client = "good" /\ I(d, s).reports = <<>>
    /\ Becomes(d, s, [I(d, s) EXCEPT !.loop = Top(I(d, s))])
    /\ OnlyInstance /\ NoFault /\ UNCHANGED states

MessagesFail(d, s) ==
    /\ I(d, s).loop = "on" /\ I(d, s).client = "good" /\ Reporting(d, s)
    /\ IF Admits(d, I(d, s)) THEN Fault ELSE NoFault
    /\ Becomes(d, s, Broken(I(d, s)))
    /\ State(d, "Down")
    /\ OnlyInstance

\* Any() looks at the queues without their lock: what is added meanwhile makes
\* it throw, outside of every handler.
SendLoopDies(d, s) ==
    /\ I(d, s).loop = "on" /\ Reporting(d, s) /\ Fault
    /\ Becomes(d, s, [I(d, s) EXCEPT !.loop = "dead"])
    /\ OnlyInstance /\ UNCHANGED states

-----------------------------------------------------------------------------
\* Methods and desired properties: the handlers know nothing of the cancellation.

\* the hub reaches the device
Called(d, s) ==
    /\ Reporting(d, s) /\ I(d, s).client = "good" /\ Admits(d, I(d, s))
    /\ callsMade < MaxCalls /\ callsMade' = callsMade + 1 /\ UNCHANGED faults

ReportsOther(d, s) ==
    /\ Called(d, s)
    /\ Becomes(d, s, Made(I(d, s), "other"))
    /\ OnlyInstance /\ UNCHANGED states

\* OnInitiateFirmwareUpdate, which is refused while an update runs. Of its
\* reports those are left out that change no status.
UpdateStarts(d, s) ==
    /\ Called(d, s) /\ ~I(d, s).update
    /\ Becomes(d, s, [Made(I(d, s), "Running") EXCEPT !.update = TRUE])
    /\ OnlyInstance /\ UNCHANGED states

\* mutant: an update that has ended is not over
UpdateEndsAgain(d, s) ==
    /\ Reporting(d, s) /\ I(d, s).update
    /\ Becomes(d, s, Made(I(d, s), "Ended"))
    /\ OnlyInstance /\ NoFault /\ UNCHANGED states

UpdateEnds(d, s) ==
    /\ Reporting(d, s) /\ I(d, s).update
    /\ Becomes(d, s, [Made(I(d, s), "Ended") EXCEPT !.update = FALSE])
    /\ OnlyInstance /\ NoFault /\ UNCHANGED states

-----------------------------------------------------------------------------
\* the process starts anew
Boots ==
    /\ supervisor' = Started /\ tasks' = NoTasks /\ instances' = AllOver /\ states' = NoStates
    /\ blurred' = {}
    /\ UNCHANGED <<table, twin>>

ProcessStops == Boots /\ Fault

In(x) == {d \in Devices : states[d] = x}

\* RunAsync: too many devices are down, if the environment is one that restarts it
ForcedRestart ==
    /\ 2 * Cardinality(In("Down")) > Cardinality(Devices \ In("none"))
    /\ Boots /\ NoFault

-----------------------------------------------------------------------------
SupervisorGoesOn == Reads \/ Acts

InstanceGoesOn(d, s) ==
    \/ Opens(d, s) \/ OpenFails(d, s) \/ SetUp(d, s) \/ SetUpFails(d, s)
    \/ LoopsEnd(d, s) \/ Closes(d, s) \/ CloseFails(d, s)

SendLoop(d, s) ==
    \/ Reconnects(d, s) \/ ReconnectFails(d, s)
    \/ SendsReport(d, s) \/ ReportFails(d, s) \/ SendsMessages(d, s) \/ MessagesFail(d, s)

FleetNext ==
    \/ \E d \in Devices : AddRow(d) \/ RemoveRow(d)
    \/ SupervisorGoesOn \/ ReadFails
    \/ \E d \in Devices, s \in Slots :
          \/ InstanceGoesOn(d, s) \/ SendLoop(d, s) \/ SendLoopDies(d, s)
          \/ ReportsOther(d, s) \/ UpdateStarts(d, s) \/ UpdateEnds(d, s)
    \/ ProcessStops \/ ForcedRestart

FleetFairness ==
    /\ WF_fleetVars(SupervisorGoesOn)
    /\ \A d \in Devices, s \in Slots :
          WF_fleetVars(InstanceGoesOn(d, s)) /\ WF_fleetVars(SendLoop(d, s)) /\ WF_fleetVars(UpdateEnds(d, s))

FleetSpec == FleetInit /\ [][FleetNext]_fleetVars /\ FleetFairness

-----------------------------------------------------------------------------
TypeOK ==
    /\ table \in [Devices -> Tables]
    /\ twin \in [Devices -> Statuses]
    /\ supervisor \in Supervisors
    /\ tasks \in [Devices -> Slots \union {NoTask}]
    /\ instances \in [Devices -> [Slots -> Instances]]
    /\ states \in [Devices -> {"none", "Up", "Down"}]
    /\ blurred \subseteq Devices
    /\ faults \in 0..MaxFaults /\ callsMade \in 0..MaxCalls

(* An instance that has not been cancelled is the task of its device: none is *)
(* forgotten while it runs, so that nobody could stop it, and a device never    *)
(* has two that have not been told to stop, whenever tasks complete on their    *)
(* own or the table changes while it is read.                                  *)
OneInstanceEach ==
    \A d \in Devices, s \in Slots :
        (I(d, s).phase # "over" /\ ~I(d, s).cancelled) => tasks[d] = s

Opened(d) == {s \in Slots : I(d, s).phase \in {"setup", "running", "closing"}}

(* What decides on a restart of the simulator is true: a device that was       *)
(* opened is counted, as up or down as its client is, and no other is, unless   *)
(* an instance was closed beside a newer one of its device, whose state it      *)
(* takes away, or the close failed, which leaves a state behind for good.       *)
StatesAreTrue ==
    \A d \in Devices \ blurred :
        /\ Opened(d) = {} => states[d] = "none"
        /\ \A s \in Opened(d) : states[d] = IF I(d, s).client = "good" THEN "Up" ELSE "Down"

(* The hub gets the reports of an instance in the order they were made and     *)
(* none is left out, through errors, answers that are lost and new              *)
(* connections; the one whose answer was lost it gets again.                    *)
ReportsInOrder ==
    [][\A d \in Devices, s \in Slots :
          LET now == I(d, s).applied
              then == instances'[d][s].applied
          IN  then # 0 => then \in {now, now + 1}]_fleetVars

Connected(i) == i.phase = "running" /\ i.loop = "on" /\ i.client = "good"

Follows(d) ==
    LET none == \A s \in Slots : I(d, s).phase = "over"
        task == I(d, tasks[d])
    IN  IF supervisor.step = "ended" \/ ~table[d].there THEN none
        ELSE /\ tasks[d] # NoTask
             /\ \/ Admits(d, task) /\ Connected(task)
                \/ ~Admits(d, task) /\ task.phase # "over"
                \/ task.loop = "dead"

Pending(i) == i.loop = "on" /\ (i.update \/ \E n \in DOMAIN i.reports : i.reports[n].status # "other")

(* A device of the table comes to run and be connected again after every       *)
(* failure, and one that is not in the table to stop, unless the list of        *)
(* devices could once not be read: then all stop; and unless it was removed and *)
(* added again between two reads, when it runs on with the old key, or its send  *)
(* loop died. And a firmware update that the twin shows as running is shown to   *)
(* have ended, as long as the instance that makes it can connect.                *)
FleetFollowsTable ==
    \A d \in Devices :
        /\ []<>Follows(d)
        /\ []<>(twin[d] # "Running" \/ \A s \in Slots : Pending(I(d, s)) => ~Admits(d, I(d, s)))

=============================================================================
