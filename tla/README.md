# TLA+ models of Azure IoT Remote Monitoring

Azure IoT Remote Monitoring is a preconfigured solution: a web site and web jobs
with which an operator registers devices, sends them commands, watches their
telemetry, attaches rules and actions to it, and a simulator that plays a fleet
of devices.  Its state is spread over services that share no transaction (IoT
Hub, DocumentDB, Azure tables and blobs), and its operations are chains of
awaited calls to them, run concurrently by the site, by the event processors and
by the simulator.  The models here are about that: what a chain of calls leaves
behind when others run in between and when one of them fails.

Paths below are relative to `src/`; `DM` stands for
`DeviceAdministration/Infrastructure`.

## The system

| | Component | State it keeps | Operations | Talks to |
|-|-----------|----------------|------------|----------|
| A | Device provisioning: `DM/BusinessLogic/DeviceLogic.cs`, `DM/Repository/{IotHubRepository,DeviceRegistryRepository,DeviceRegistryRepositoryWithIoTHubDM,VirtualDeviceTableStorage}.cs`, `Common/Helpers/AzureRetryHelper.cs` | the hub's identity and twin, the registry document, the simulator's table, the rules of a device | add, bootstrap, remove, enable, disable, update, DeviceInfo | called by the web controllers, the event processors (B, H) and the data initializer (D); the simulator (E) reads its table |
| B | Command history and feedback: `DeviceLogic.SendCommand`, `EventProcessor/.../MessageFeedbackProcessor.cs` | the `CommandHistory` of a registry document | send a command, apply a feedback record | A's whole-document update; the hub's cloud-to-device queue and feedback endpoint |
| C | Device rules: `DM/BusinessLogic/DeviceRulesLogic.cs`, `DM/Repository/DeviceRulesRepository.cs`, `Common/Helpers/AzureTableStorageClient.cs` | the rules table, the blob the stream job reads | save, enable, delete, remove all, bootstrap | called by A on removal, by D on first run |
| D | Action mappings and data initialization: `DM/BusinessLogic/ActionMappingLogic.cs`, `DM/Repository/ActionMappingRepository.cs`, `Simulator/.../DataInitializer.cs` | one blob of mappings; the default devices and rules made so far | save a mapping, read, bootstrap | A, C |
| E | Simulator supervisor: `Simulator/.../BulkDeviceTester.cs`, `DeviceManager.cs`, `SimulatorCore/Devices/StateCollection.cs` | the running devices with their cancellation sources, the state of each connection | poll the table, start and stop devices, force a restart | the table of A; F and G |
| F | Simulated transport: `SimulatorCore/Transport/IoTHubWorkaroundTransport.cs` | the client, the queues of telemetry and of reports | open, close, send, reconnect | the hub; E, G |
| G | Simulated device and device management tasks: `SimulatorCore/Devices/DeviceBase.cs`, `Cooler/Devices/CoolerDevice.cs`, `SimulatorCore/Devices/DMTasks/*` | whether a firmware update runs | start, loops, methods, desired properties, an update's steps | F |
| H | Event processors: `EventProcessor/.../Processors/*` | partitions open, checkpoints | start, stop, process a batch | A (DeviceInfo), D (actions) |
| I | Filters, jobs and name cache: `DM/Repository/{DeviceListFilterRepository,JobRepository,NameCacheRepository}.cs`, `DM/BusinessLogic/FilterLogic.cs`, `Web/.../JobController.cs` | tables of filters, clauses, job records and names | save, rename, delete a filter; schedule a job | the hub's job service; J |
| J | The site's pages: `DeviceAdministration/Web/Scripts/Views/**`, the project's own JavaScript | per page: timers, requests in flight, what is selected, shown, covered; the `device-id` cookie | clicks, timers, answers, errors | the web API, behind which are A to D and I |

What is hard, and what makes each part correct:

* **A.** Three stores are changed one after the other, a failure half way is
  rolled back by another call that may fail too, or is swallowed, or retried
  although the first try took effect; other operations on the same device run in
  between.  Correct: the stores agree again when the operations are over; a
  registered device has an identity and the keys the simulator uses are its
  keys; a rollback undoes its own operation and not somebody else's; success
  means everything was done; every call returns.
* **B.** Feedback can arrive before the history entry was saved, is applied by
  an `async void` handler that the batch's completion does not wait for, and
  every writer writes back the whole document.  Correct: a command that the
  device answered is not left pending, no update of one command erases another.
* **C.** A change is written to the table and then a blob of all rules is rebuilt
  from a query.  Correct: the last blob holds the table's rules; removal takes
  away every rule of the device.
* **D.** The initializer decides from one sign (a mapping exists) that everything
  was initialized; it may be stopped anywhere and started twice at once; the blob
  is read, changed and written without a condition.  Correct: the sign implies the
  rest; nobody takes back a mapping that was there when he looked.
* **E.** Polling starts and cancels devices whose tasks end on their own, and a
  cancelled one closes late, beside its successor.  Correct: a device has one
  instance that was not told to stop, what runs comes to follow the table, and the
  states that decide on a restart are true.
* **F.** One loop sends what others queue, the connection drops and comes back.
  Correct: reports arrive in order and none is left out.
* **G.** Handlers and update tasks know nothing of the cancellation of their
  device.  Correct: an update that was shown as running is shown to have ended.
* **H.** Stopping waits with a timeout, partitions close on their own, errors are
  swallowed before the checkpoint.  Correct: a stop ends; every event is offered
  before it is checkpointed.
* **I.** Saving a filter checks its name and then inserts, a rename inserts one row
  and drops another; the hub's job is scheduled before it is recorded.  Correct: a
  filter has one row and a name of its own, and none is lost by a rename.
* **J.** Two scripts of a page (a list and a pane) are told of a selection in
  different steps; answers come in any order, after a page has moved on; a failed
  request must not leave a page covered or its polling stopped.  Correct: what is
  highlighted, shown, remembered and acted on is one record; a list shows the
  answer to the last question; polling neither multiplies nor stops; the page
  comes to rest when its user does.

`PROJECT.json` lists these parts, the hazards in each at the line where it bites,
and the properties that cover them.

## Plan

In this order, most important first; each component has its modules, an MC
module, runs, mutants and, where theorems are stated, a proof module.

1. `DeviceProvisioning` with `DeviceProvisioningProofs`, and `AtomicDevices`, the
   registry its callers see, which it implements (A): done.
2. `DeviceCommands` with `DeviceCommandsProofs` (B): done.
3. `DeviceRules` with `DeviceRulesProofs`, and `RulesInUse`, the promise to the
   stream job which it implements (C): done.
4. `DataInitialization` with `DataInitializationProofs` (D): done.  It takes from 1
   and 3 the steps of `BootstrapDefaultDevices` and of the rules that its property
   depends on.
5. `SimulatedFleet` with `SimulatedFleetProofs` (E, F, G): done, as one module: the
   hazards lie between the supervisor, the transport and the device.
6. `WebSite` (J, and the filters of I), which composes `DashboardPage`,
   `JobIndicators`, `RecordPages`, `DevicesPage` and `FiltersPage` over `Browser`, and
   `LatestAnswer`, the promise of a list, which two of them implement: done, with
   `WebSiteProofs`, `DevicesPageProofs` and `FiltersPageProofs`.

What is left: the site's forms (tags, desired properties, jobs, commands), each of
which sends one request.  Event processors (H) are not planned: the partitions and leases are
a library's, and the code between reads a batch and asks for a checkpoint.

Modules that are proved about use no recursion; recursive helpers that only TLC
needs stay in the MC modules.

## Module 1: DeviceProvisioning

### State

| Variable | In the code |
|----------|-------------|
| `identity[d]` | the hub's `Device` (authentication key, status) and its twin's tag `HubEnabledState`; `readers` are the callers whose last read carries the current ETag |
| `docs[d][k]` | the registry documents with this `DeviceID`, by document id, and the `HubEnabledState` in each; `"absent"` when there is none |
| `sim[d]` | the simulator table's row: the key the simulator will connect with |
| `rules` | the devices with rules; `RemoveDeviceAsync` deletes them last and does not look at whether that succeeded |
| `pc[o]`, `kind[o]`, `dev[o]` | which awaited call caller `o` makes next, in which operation, on which device |
| `key[o]`, `doc[o]`, `enabled[o]`, `status[o]` | the locals that live across calls: generated or read keys, the document read, its enabled state |
| `attempt[o]` | the counter of `AzureRetryHelper.OperationWithBasicRetryAsync` |

A document id is the number of the Add that made it, the same number as its
keys: `AddDeviceAsync` generates both once and never reuses them.

### Actions

Every action is one awaited call with the code up to the next await.  The helper
operators say what a call can do: `HubCall` (a hub write inside the retry
helper), `TwinCall` (without a retry), `DocCall` (a registry upsert or delete),
`SimCall` (the simulator table, failures swallowed by the caller).  The last two
arguments are where the operation goes on success and on an exception: the next
call, the handler's rollback, or the caller.

| Operation | Actions in order | On an exception |
|-----------|------------------|-----------------|
| `AddDeviceAsync` | `Validate`, `HubAdd`, `HubTwin`, `DocCheck`, `DocSave`, `Tag`, `SimSave` | before `DocCheck`: to the caller; from `DocCheck` on: `UndoAdd` |
| `BootstrapDefaultDevices`, `GenerateNDevices` | the same without `Validate` | the same |
| `RemoveDeviceAsync` | `HubGet`, `HubRemove`, `DocFind`, `DocDelete`, `SimRemove`, `RulesRemove` | up to `HubRemove`, and at `RulesRemove`: to the caller; `DocFind`, `DocDelete`: `UndoRemove` |
| `UpdateDeviceEnabledStatusAsync` | `StatusGet`, `StatusSet`, `DocFind`, `DocSave`, `Tag`, `KeysGet`, `SimSave` or `SimRemove` | from `DocFind` on: `UndoGet`, `UndoSet` |
| `UpdateDeviceAsync`, DeviceInfo | `DocRead`, `DocExists`, `DocSave`, `TwinSync` | to the caller |
| (environment) | `Begin`, `SaveRule`, `Crash` | |

A call fails in one of four ways: `transient` (refused, worth a retry),
`permanent`, `lost` (it took effect and the answer was an error), and the process
may `crash` between calls.  `Faults` says which call may fail how.

### Abstractions

* The retry's delay is left out: any other step may happen between attempts.
* The registry read and the twin read that `DeviceRegistryRepositoryWithIoTHubDM.GetDeviceAsync`
  makes are one step; what a read of the twin contributes to the answer is not
  part of the state here.
* `TwinSync`, the write-back of the twin at the end of an update, succeeds or
  fails freely: it changes none of the state kept here, and an over-approximation
  of when it throws.
* `HubTwin` is made for a device with tags or desired properties; a device
  without them skips it, so `HubAdd` leaves the choice open.
* The hub, the registry and the table are services; they are modelled from how
  the code calls them, and marked external in the map.
* `RETRY_COUNT` is 2 in every run, as in the code.
* The rules of a device are there or not.  `RulesRemove` has the three ends of
  `RemoveAllRulesForDeviceAsync`: all are gone; a deletion was refused or met a
  conflict, which is reported as `false` and ignored at `DeviceLogic.cs:214`, so that
  the removal returns normally with rules left (`RulesRefused`); or the query or the
  blob that is written after each deletion threw, before or after the rules were gone.
* Permissions, validation of names, default telemetry and the text of documents
  are left out.

### The registry its callers see

`AtomicDevices` says what a caller of `DeviceLogic` may count on: an operation changes
its device's entry in one step, from what the operation requires to what it stands for;
one that fails has not changed it, apart from a removal whose rules and an update whose
twin could not be written afterwards.  It has two variables, the entries and how far each
call has come (`open`, `applied`, returned), and knows nothing of the hub, of retries or
of rollbacks.  `DevicesAreAtomic` maps `docs` to the entries (`Registered`: the
`HubEnabledState` of a device's documents, so that two documents would show) and `pc` to the
progress (`Call`): an operation has applied its change from the answer to its registry
write on, and every step before that, the rollbacks included, stutters until it fails.

### Schedules

`Spec` lets every caller do anything at any time.  Two schedules restrict when an
operation may *begin*, and nothing else: `InTurnSpec`, where the operations on a device
follow one another, and `RemovalsOverlapSpec`, where several removals of a device may
also run at once.  Operations on other devices are free in both.  The code has no lock
that enforces them; they are the schedules under which the properties that mention them
are true of it, and `ProvisioningUpdateRace` is one of the runs that show what happens
under others.

### Runs

All runs use `CHECK_DEADLOCK FALSE` because `MaxOps` bounds the operations
started: a behaviour ends when they are used up.

| Run | Instance | Shows |
|-----|----------|-------|
| `ProvisioningAdds` | two callers, three operations: adds, bootstraps, enable, disable, save and DeviceInfo of one device, two failures each | `RegisteredHasIdentity`, `SimulatorKeyIsHubKey`: creating the identity first protects the registry and the simulator in any interleaving |
| `ProvisioningOneCaller` | one caller, four operations of any kind in sequence, every call may fail in any way any number of times | `OkMeansDone`: success means hub and registry have it, even after retries, lost answers and earlier failures, and that the rules of a removed device are gone unless a deletion was refused; `EveryCallReturns`: retries are bounded and rollbacks do not loop |
| `ProvisioningSingleFault` | one device, three callers, four operations of any kind, one refused call in each; operations follow each other, except that removals may overlap (`RemovalsOverlapSpec`) | `Agreement`: the rollbacks bring hub and registry back to agreement; `RemovedIsGone`: no rollback revives a device whose removal was reported to succeed; `DevicesAreAtomic`: the module implements `AtomicDevices` |
| `ProvisioningRemoveRollback` | violation of `RollbackFindsDeviceRegistered` | the comment in `RemoveDeviceAsync` that the device still exists in the registry when it rolls back: after a twin update that failed and left an identity without document, a removal finds no document and re-creates the identity |
| `ProvisioningUpdateRace` | violation of `UpdateNeverRegisters` | the check that the device exists and the save after it are two calls, so an update that races with a removal registers the device again |

Three further disagreements are known from the same model and have no run of
their own: two Adds on either side of a removal can both save a document for one
id; the rollback of an Add overtaken by a removal and a second Add removes the
second Add's identity; and the rollback of a status change writes the opposite of
what was asked, which is not always what the hub had.  `PROJECT.json` lists the
last two under `hazards`.

**Bounds.**  Two callers are enough for the races of the add side, three for
removals: each operation keeps only its own locals and touches one device, so a
race is between chains over the same device.  `MaxOps` is two to four operations:
the state one leaves (a leaked identity, a document without identity) is the
start of the next.  `MaxFaults` counts the failing calls of one operation; one or
two reach the failed retry and the failed rollback, and `ProvisioningOneCaller` has
no limit.  One device is used because operations on different devices do not touch,
and the proofs below, which hold for any number of devices, callers, operations and
failures, show that they do not.

**Fairness.**  `FairSpec` has weak fairness of each caller's `Step`: an awaited call
completes, with an answer or an error, because the SDKs' calls time out and the
runtime resumes an awaited task.  Nothing is assumed about `Begin`, `SaveRule` or
`Crash`.

### Proofs

`DeviceProvisioningProofs` proves, for every value of the constants (any number of
devices, callers, operations and failures, limited or not):

* Of `Spec`, from `ConstantsAssumption` alone, so whatever the callers do and whatever
  fails: `TypeCorrect`, `Spec => []TypeOK`; and `CallsCountDownAlways` with
  `CallsAreBounded`: an operation makes at most `8 * (RETRY_COUNT + 1)` calls.  The
  measure `CallsLeft` is the number of calls on the longest way from the present one to a
  return (`Ahead`), times the attempts each may take, less the attempts made.
* Of `Spec`, under `HubFirst` (no removals, and none of the failures in `OrderBreakers`):
  `RegisteredHasIdentityAlways`, `SimulatorKeyIsHubKeyAlways`, and `RollbackOfAddIsOwn`,
  the rollback of an Add removes only the identity that Add made (proved, and checked by
  no run).
* Of `InTurnSpec`, with no assumption about failures: `OkMeansDoneAlways`, an operation
  that returns normally has done all it stands for, whatever is done to other devices
  meanwhile (a removal that returns with rules left has been refused one by the step that
  returns).  `OneCallerInTurn` shows that a single caller needs no such schedule:
  its `Spec` implements `InTurnSpec`, so the theorem covers `ProvisioningOneCaller`.
* Of `RemovalsOverlapSpec`, when no failure of `HalfDone` happens (`WritesReported`):
  `DevicesAreAtomicAlways`, the refinement of `AtomicDevices`, with any other failures,
  lost answers of the hub and crashes included.
* Of `RemovalsOverlapSpec`, when each operation meets at most one refused call
  (`RefusedOnce`): `AgreementAlways` and `RemovedIsGoneAlways`.

None of these formulas is inductive by itself.  Four invariants carry them, each proved
with one lemma per action or group of actions:

* `HubFirstInv`, for the second group.  A rollback may remove an identity, so one must
  know that at that moment no document of that device exists; that follows from *who owns
  the identity*: an Add that is past the hub's answer and has not returned has the identity
  with its own keys (`AddOwns`), its keys are used by nobody else (`FreshKeys`), and an
  operation that has read a document or keys read them from the present identity
  (`ReaderKnows`).  Together with `CallsOfKind` (which calls an operation of a kind can be
  at) and `SimulatorIsRegistered` this is `HubFirstInv`.
* `TurnsInv`, for the third and the fourth.  For each kind of operation, what it has achieved
  before each of its calls (`Steps`: the identity is its own before the registry is looked
  at, the tag is written before the simulator's table is), that two operations on one
  device are removals (`Apart`), and that a device has at most one document
  (`OneDocument`): an Add looks for one right before it saves.  It holds while removals
  overlap.  `InTurnInv` adds what a removal knows when it has its device to itself
  (`RemoveAlone`).
* `TurnsInv` is also what makes the refinement work: an operation writes the document it
  read or the only one there is, so its write is the one change of `AtomicDevices`.  The
  proof classifies each step as a stutter, an end or the change (`Lifts`).
* `AgreeInv`, for the last: a device known to only one of hub and registry has exactly one
  operation that owes the other half (`Owes`, `OneOwner`): an Add between the hub's answer
  and the registry's, or a removal in the same place.  A rollback is entered only with
  the failure spent, so it cannot fail too (`Holds`).  Two removals of a device do not
  both owe: the hub removes an identity once.

The assumptions are needed, as TLC shows on small instances.  `HubFirst`: after each of
`OrderBreakers` the code does remove an identity whose document stays (a lost answer to the
registry's save, or a failing tag update, rolls the hub back only), and a removal deletes
the identity first.  `WritesReported`: with a failure of `HalfDone` (the registry's write
was done and its answer lost, or the tag could not be written after it) the caller is told of a
failure and finds the change made.  `RefusedOnce`: with `MaxFaults = 2` the second failure
is that of the rollback.  The schedule: under `Spec` an Add beside a removal puts an identity
next to the document the removal has yet to delete, finds that document, and takes back the
identity the failed removal relied on.

Liveness (`EveryCallReturns`) is model-checked only; `CallsCountDownAlways` and
`CallsAreBounded` are its safety half, and what TLC adds is that fairness makes the next
call happen.

## Module 2: DeviceCommands

### State

| Variable | In the code |
|----------|-------------|
| `history[c]` | the entry of command `c` in the `CommandHistory` of the device's registry document: absent, pending (no result yet), or its result |
| `pc[w]`, `view[w]` | what a writer of the document does next, and the history in the document it holds: a request (`SendCommandAsync`), a task of the feedback processor (`UpdateDeviceRecord`), or an editor (`UpdateDeviceAsync`, DeviceInfo, a change of status) |
| `attempt[c]` | the counter of `OperationWithBasicRetryAsync` |
| `queue[m]`, `deliveries[m]` | the hub's cloud-to-device queue: a *copy* `m = <<c, n>>` is command `c` as enqueued by its `n`-th attempt, since an attempt whose answer is lost leaves a copy behind; it is queued, locked by the device, or settled with an outcome |
| `loop`, `cur`, `handled[c]` | the device's receive loop, the message it works on, how often it carried the command out |
| `feedback[m]`, `processor` | the feedback record of a copy (waiting, in the processor's batch, consumed) and the processor's loop |
| `failures`, `edits` | counters of the bounds |
| `current`, `overlap`, `early` | history variables: who holds the present document, whether somebody wrote over a newer one, which commands' feedback came before their entry |

### Actions

| Code | Actions |
|------|---------|
| `DeviceLogic.SendCommandAsync` | `SendRead`, `SendMessage` and `CloseDevice` or `InvokeMethod`, `SendSave` |
| the hub's queue (external) | `LockExpires`, `Expires`, and the effects `Settle` and `Requeue` of an answer |
| `DeviceBase.StartReceiveLoopAsync` and the transport's answers | `Receive`, `Handle`, `Signal` |
| `MessageFeedbackProcessor.RunProcess` | `ReceiveBatch`, `ReceiveFails`, `CompleteBatch`, `Restart`, `ProcessStops` |
| `MessageFeedbackProcessor.UpdateDeviceRecord` | `FeedbackRead`, `FeedbackSave`, one task per record, started by `ReceiveBatch` and not awaited by `CompleteBatch` |
| the other whole-document writers | `EditRead`, `EditSave` |

### Abstractions

* `UpdateDeviceAsync`'s check that the device exists, the upsert and the
  write-back of the twin are one step; it fails before or after the upsert.
* The device is registered throughout; module 1 is about what removal does.
  `SendCommandAsync` refuses a command the device does not list; that check only
  reads, and is left out.
* The order of the hub's queue is not kept: nothing here depends on it.  Locks,
  expiry and the delivery count are the hub's behaviour, external.
* `handled` counts handling that ended well; a handler that throws is answered
  with an abandon and counts as not carried out.
* The site process that dies is a request that never continues: requests have no
  fairness.

### Runs

`CHECK_DEADLOCK FALSE`: each command is sent once and edits are bounded.

| Run | Instance | Shows |
|-----|----------|-------|
| `CommandsHistory` | two messages, one failure among those after which every started task finishes | `HistoryIsTrue`: no command gets a result it does not have; `PendingOnlyWhenRaced`: a recorded command is left pending only if its feedback came before its entry or someone saved over a newer document |
| `CommandsConsumed` | a message, a direct method and an editor, one failure of any kind | `HandledOnce`: a repeated execution is paid for by a failure; `ResultsStand`: a result disappears only under a stale save; `FeedbackConsumed`: every message is settled and its feedback taken off the hub, unless the processor's loop has ended |
| `CommandsDeviceInfo` | violation of `DeviceInfoKeepsHistory` | a DeviceInfo packet that read the document before a command was saved in it writes it back without the command, against the comment in `UpdateDeviceFromDeviceInfoPacketAsync` |

**Bounds.**  `RETRY_COUNT` is 2 as in the code; `MaxDeliveries` 2 gives a first
delivery, a redelivery and the giving up.  Two commands are what a race over one
document needs, the third writer is the feedback task.  One failure per behaviour
already loses an answer, drops a batch, expires a lock or stops the process; the
proofs hold for any number.

**Fairness.**  The device's loop, the feedback processor's loop and its tasks go
on: each only awaits calls that return, and swallows or rethrows their errors.
The platform starts a web job that ended with an error again.  A lock runs out.
Requests and editors are not fair.  `FeedbackConsumed` excepts a processor whose
`OpenAsync`, `GetFeedbackReceiver`, `ReceiveAsync` or `CompleteAsync` threw: all end in the
same catch, the loop with them, and nobody restarts it.

### Proofs

`DeviceCommandsProofs` proves, for any commands, editors, numbers of deliveries and
failures:

* `CommandsTypeCorrect`: `Spec => []TypeOK`.
* `HistoryTrueAlways`: `Spec => []HistoryIsTrue`.
* `ResultsStandAlways`: `Spec => ResultsStand`.
* `HandledOnceAlways`: `Spec => []HandledOnce`.
* `PendingOnlyWhenRacedAlways`: `Reliable => (Spec => []PendingOnlyWhenRaced)`, where
  `Reliable` leaves out the failures that end a request or a task half way (a read or a
  save of the registry, the stop of the web job), as the run `CommandsHistory` does:
  with them an entry stays pending for want of anyone to change it.

`HistoryIsTrue` speaks of the document, but the next document is some writer's
view.  `HistoryInv` therefore says the same of every view a writer will save, and
keeps what makes an entry's truth stable: a copy not yet sent is not in the
queue (`Unsent`), a settled one stays settled (`QueueInv`), each feedback record
belongs to a settled copy (`Reported`), and a success was carried out
(`Deserved`).  `StandInv` adds for `ResultsStand` that the writers in `current`
hold the document's own results (`Fresh`).

`HandledOnce` is a matter of counting (`Paid`): a command's executions, its copies that
can still be delivered, the send the request may still make and the copy the device
works on without its lock are together at most one more than the failures.

`PendingOnlyWhenRaced` needs two more invariants.  `Fates` says what every request and
feedback task has done by each of its steps.  `RecordedInv` says, as long as nobody saved
over a newer document, that the document has an entry for exactly the commands whose
request ended well, that a writer whose copy is current adds its own result to all
others', and that a task that ended entered its result or came before the entry.

`FeedbackConsumed` is liveness and stays with TLC.

## Module 3: DeviceRules

### State

| Variable | In the code |
|----------|-------------|
| `table[i]`, `version` | the row of rule `i` (data field, threshold and output as one value, enabled, ETag); the service's counter of ETags |
| `used` | the rule ids given out: `InitializeNewRule` makes a new GUID |
| `blobs[t]` | the rules uploaded to the path of minute `t`, with the version of the table they were compiled from (a history field, except that version 0 is "no blob") |
| `now`, `inUse` | the clock in minutes, the rules the stream job uses |
| `pc[o]`, `kind[o]` | an operator's next call and operation |
| `rule[o]` | the rule it saves: a form's content or what a toggle read, with the ETag it came with |
| `todo[o]`, `clean[o]` | the rules left to delete, and the `result` of `RemoveAllRulesForDeviceAsync` |
| `compiled[o]`, `named[o]` | the list it will upload, the minute in which it computed the path |
| `held`, `raced`, `overtaken`, `since`, `changedAt` | history variables |

### Actions

| Code | Actions in order |
|------|------------------|
| edit form, then `SaveDeviceRuleAsync` | `OpenForm` (or `Resubmit`: the same form posted again), `SaveCheck`, `Lookup`, `Insert` or `Replace`, then publication |
| `UpdateDeviceRuleEnabledStateAsync` | `ToggleGet`, `Lookup`, `Insert` or `Replace`, publication; no check for duplicates |
| `DeleteDeviceRuleAsync` | `DeleteGet`, `Delete`, publication |
| `RemoveAllRulesForDeviceAsync` | `RemoveAllGet`, then for each rule `Delete` and publication; an error is noted and the loop goes on, an exception ends it |
| `PerformTableOperation`'s handler | `Caught` |
| publication (`BuildBlobEntityListFromTableRows`, `PersistRulesToBlobStorageAsync`) | `Query`, `Name`, `Upload` |
| a first read that throws or finds nothing | `GetFails` |
| the stream job (external) | `Tick` |
| the process ends | `Crash` |

`BootstrapDefaultRulesAsync` is a series of saves of new rules.

### Abstractions

* One device: rules of other devices have rows of their own, and only meet in the
  blob.  A query of the table is one step.
* An operation's first read is the step that begins it.  The form's guard that
  there are fields left to assign is left out: the API saves without it.
* When a field has several enabled rules, the last row read wins; ids are GUIDs, so
  any of them may.
* `Tick` waits for an upload that has already crossed a minute boundary.  That is
  the assumption in the comment at `blobSaveMinutesInTheFuture`; the time between
  the query and the naming of the path is not bounded.

### Run

`RulesEverything`: two operators, two rule ids, two fields, two values, three
operations, minutes 0 to 2, and one failure of any kind.  `CHECK_DEADLOCK FALSE`:
operations and minutes are bounded.

| Property | Says |
|----------|------|
| `ToggleKeepsRest` | a toggle never undoes an edit saved between its read and its write |
| `ReadBlobsAreFinal` | no blob changes once its minute has come |
| `RemovalIsComplete` | a removal that returned true left nothing of what it found |
| `BlobFollowsTable` | at rest, the latest blob has the table's rules, unless a call failed since the last change or an upload overtook a newer one |
| `OneRulePerField` | a field has two rules only after a save upon an outdated read |
| `JobUsesRulesOfTable` | `DeviceRules` implements `RulesInUse`: what the job uses is a rule set the table has held as a whole |

The conditions of `BlobFollowsTable` and `OneRulePerField` are real in the code and
the run reaches states in which each of them fails: two operators may upload in
another order than they read, two saves may both find no rule of a field, and a
toggle whose rule was deleted after its read inserts it again.

Three operations give every pair of overlapping operations a rule to be about;
with four operations (and one value) the same properties hold.  Two is the
smallest last minute at which the job takes a blob.

### Proofs

`DeviceRulesProofs` proves all of these, for any operators, rules, fields, values,
minutes and failures.  They rest on two facts about a step:
an operator that does not take it keeps its locals (`OthersKept`), and a row
changes only under an ETag never used before (`TableMoves`).  Above them stand

* `HeldInv` for the refinement: blobs, compiled lists and what the table compiles
  to are all in `held`;
* `Punctual` for `ReadBlobsAreFinal`: an upload is at most one minute old;
* `SweptInv` for `RemovalIsComplete`: a removal without errors still has in its list
  every present row that is not younger than its read;
* `FaithfulInv` for `ToggleKeepsRest`: a row with the ETag of a toggle's rule has its
  field and value;
* `UniqueInv` for `OneRulePerField`: an operator whose read is not outdated has no
  other rule of the field in its way;
* `FollowInv` for `BlobFollowsTable`: a compilation of the present version has the table's
  rules (`GenuineInv`), one blob is later than all others (`HasTop`), and unless a call
  failed or an upload overtook, the present version is in that blob or an operator is
  still to read or upload it (`Covered`).

## Module 4: DataInitialization

### State

| Variable | In the code |
|----------|-------------|
| `mappings` | the blob of action mappings: per rule output the action, or none |
| `identities`, `documents` | the default devices the hub and the registry have |
| `rules[d]` | the rule outputs for which default device `d` has a rule |
| `pc[w]` | the next call of a writer: an instance of the web job, or a request of the API |
| `suffix[p]`, `at[p]`, `nth[p]` | the millisecond that a job's device names end in (`SampleDeviceFactory`), the device its loop is at, the rule or mapping it is at |
| `mapping[w]`, `seen[w]` | the mapping `SaveMappingAsync` was given and the list it has read |
| `starts`, `saves`, `failures` | counters of the bounds |
| `since`, `refused`, `apiSaved`, `made` | history: what others wrote since a writer looked, rules whose save answered an error status, whether the API has saved a mapping, the starts whose devices and rules are done |

### Actions

| Code | Actions in order |
|------|------------------|
| `Program.Main`, and the platform that stops it | `Start`, `ShutDown` (at any call) |
| `DataInitializer.CreateInitialDataIfNeeded` | `Check`; what a call throws ends it (`Throw`, label `failed`) |
| `DeviceLogic.BootstrapDefaultDevices` | per device `AddIdentity` (the hub) and `AddDocument` (the registry), with `Undo` for the rollback |
| `DeviceRulesLogic.BootstrapDefaultRulesAsync` | per device and output `SaveRule` |
| `ActionMappingLogic.InitializeDataIfNecessaryAsync`, not awaited | `Recheck`, then per default mapping `Read` and `Upload` |
| `DeviceActionsApiController.UpdateActionAsync` | `Request`, `Read`, `Upload` |

### Abstractions

* `AddDeviceAsync` has two parts here, the hub's and the registry's; module 1
  has all of its calls.  Its table for the simulator does not matter to this one.
* Rules are the outputs a device has a rule for; a bootstrap that meets an
  existing rule of the field leaves the device with one, which the same value says.
* Nobody else removes the default devices while the first start lasts.
* The upload is unconditional, as in the code: the ETag is taken from a blob
  reference whose attributes were never fetched, and is null.
* A start takes any millisecond for its names, also that of another start: then they
  meet in the hub and the later of them fails at a device that exists.

### Run

`InitializationEverything`: two instances of the job, one caller, two default devices,
two milliseconds, three starts, one save of the caller, two failures of any kind.
Three starts give a retry beside an overlapping instance; two devices give a loop
that stops half way; instances and milliseconds are symmetric.  `CHECK_DEADLOCK
FALSE`: starts and saves are bounded.

| Property | Says |
|----------|------|
| `SignIsTrue` | mappings without the help of a caller mean that some start has made all devices and rules |
| `SavedChoicesStand` | a mapping that was there when a writer looked is only changed by a request to set it |

`SignIsTrue` is what makes it right to skip initialization later; it holds although the job
may stop anywhere and run twice.  What it does not promise, and the code does not
keep: a stop between the two default mappings leaves the second one out for ever; a
mapping saved by a caller before the first start is done makes later starts skip
(against the comment at `DataInitializer.cs:67`); a start after one that threw makes
a second set of devices and leaves the rest of the first one's.

### Proofs

`DataInitializationProofs` proves `InitializationTypeCorrect`, `SignIsTrueAlways` and
`SavedChoicesStandAlways` for any number of jobs, callers, devices, starts, saves and
failures.

`SignIsTrue` needs that what one job has made is not taken back by another's
rollback.  `SignInv` therefore says that a job about to write a document has made
the identity itself (`Holding`) and is alone in that (`Alone`), so that a device is
`Settled` once it has both and nobody is between the two; that each job has settled
devices and rules behind it (`Behind`); and that the starts in `made` are whole
(`MadeWhole`).  `ChoiceInv` adds that what a writer is about to save differs from the
blob only in what others wrote since (`SeenStands`), and that a job at its mappings
found none (`FoundNone`).

## Module 5: SimulatedFleet

### State

| Variable | In the code |
|----------|-------------|
| `table[d]` | the row of the table the supervisor polls and its key, which the site gives the hub's identity in the same operation (module 1) |
| `twin[d]` | the status of a firmware update among the reported properties |
| `supervisor` | where `BulkDeviceTester.ProcessDevicesAsync` is and the list it has read |
| `tasks[d]` | `DeviceManager._tasks` with its cancellation source: the instance that is the device's task |
| `instances[d][s]` | an instance: its key, whether it was cancelled, its phase (`DeviceBase.StartAsync`), its send loop, its client, the queue `_reports`, `_deviceManagementTask`; `made` and `applied` are history |
| `states[d]` | `StateCollection` |
| `blurred`, `faults`, `callsMade` | history, and counters of the bounds |

### Actions

| Code | Actions |
|------|---------|
| the site (modules 1 and 3 have the calls) | `AddRow`, `RemoveRow` |
| `BulkDeviceTester.ProcessDevicesAsync`, `DeviceManager` | `Reads`, `ReadFails`, `Acts` |
| `DeviceBase.StartAsync`, `IoTHubWorkaroundTransport.{OpenAsync,CloseAsync}` | `Opens`, `OpenFails`, `SetUp`, `SetUpFails`, `LoopsEnd`, `Closes`, `CloseFails` |
| `IoTHubWorkaroundTransport.SendLoop` | `Reconnects`, `ReconnectFails`, `SendsReport`, `ReportFails`, `SendsMessages`, `MessagesFail`, `SendLoopDies` |
| methods and desired properties, `DMTasks/*` | `ReportsOther`, `UpdateStarts`, `UpdateEnds` |
| the process and `BulkDeviceTester.RunAsync` | `ProcessStops`, `ForcedRestart` |

### Abstractions

* Of an instance beside its successor a third waits: two slots per device.
* A turn of the send loop sends one report or some telemetry; the loop sends
  one after the other, with the same states in between.  Telemetry has no content.
* Reports that change no status, and the steps of an update between its first and
  its last report, are one report or none; the two reports of a start are one.
* The client's reconnect and the hub's view of it are external: a client is good,
  broken, or none.

### Run

`SimulatorEverything`: one device, two rows in its life, one method or desired
property, one failure of any kind.  Devices share no state but the supervisor's
loop, which treats each alike, and the forced restart, which needs one device that
is down.  `CHECK_DEADLOCK FALSE`: rows and calls are bounded.

| Property | Says |
|----------|------|
| `OneInstanceEach` | an instance that was not told to stop is its device's task |
| `StatesAreTrue` | the states that decide on a forced restart are those of the clients, except after two instances at once or a close that failed |
| `ReportsInOrder` | the hub gets an instance's reports in order and none is left out |
| `FleetFollowsTable` | a device of the table comes to run and connect, one that is not in it comes to stop, and an update shown as running is shown to have ended |

The exceptions are the code's: the poll comes after 20 s while the receive call of a
cancelled instance may take minutes, and its late close removes the state of the
new one (`blurred`); an exception while the list of devices is read ends the loop for
good (`supervisor.step = "ended"`); a row removed and added between two polls leaves
the instance running with the old key; a queue looked at without its lock ends the
send loop while the device stays "Up" (`SendLoopDies`).

**Fairness.**  `FleetFairness`: the supervisor's timer comes back and its calls
return; each instance's loops await calls that return; an update ends because it is
a chain of delays.  Nothing is assumed about the site, about methods and about
failures, which are bounded.

### Proofs

`SimulatedFleetProofs` proves `FleetTypeCorrect`, `OneInstanceAlways`,
`StatesAreTrueAlways` and `ReportsInOrderAlways` for any number of devices, rows, calls
and failures.  Type correctness itself is not inductive: that an instance never
makes more reports than `MaxReports` follows from a budget over all instances of a
process (`Budgeted`), and that the first report of the queue is the one after the last
applied from the queue's numbers (`Counted`), which `ReportsInOrder` uses too.
`StatesInv` relates `states` to every instance that is open, for devices that
had one at a time (`AloneIn`).  `FleetFollowsTable` is liveness and stays with TLC.

## Module 6: WebSite

The site is modelled as one tab of a browser sees it.  `Browser` has what all pages
share (timers, requests that supersede each other), each page is a module with
`Next` and fairness of its own, and `WebSite` composes them: one page at a time, left and
opened at any moment; leaving drops timers and answers.

| Module | Scripts (under `Web/Scripts/Views`) |
|--------|---------|
| `DashboardPage` | `Dashboard/DashboardDevicePane.js`, `AlertHistory.js`, `MapPane.js`: the polled telemetry of a device, the polled alerts, the map |
| `JobIndicators` | `Dashboard/JobIndicators.js`: indicators polled in two stages |
| `RecordPages` | the lists of rules, jobs and actions with their panes: one module, because the three pairs of scripts differ in few places, and it says where |
| `DevicesPage` | `Device/DeviceIndex.js`, `DeviceDetails.js`, `DeviceListColumns.js`, and of `DeviceFilter.js` the start, the scheduling of a job and the filters made of checked devices |
| `FiltersPage` | `Device/DeviceFilter.js`, and behind the API `DeviceListFilterRepository.cs` and `FilterLogic.cs`, used by this tab and by somebody else |
| `LatestAnswer` | the promise of a list: it shows what the service held after it was last asked |

### State

| Variable | In the code |
|----------|-------------|
| `pane`, `table`, `telemetry` | the device pane (`currentDeviceId`, the URL polled, its timer, requests in flight, what it shows, whether it is covered), the alert table and map, how much telemetry the service has |
| `indicators` | which request or timer is due, the indicators defined, those with a value |
| `records`, `list`, `view` | the service's records; the script of the list (rows, requests, the record selected and the one marked); the script of the pane (target, requests, what it shows, a request to change it) |
| `cookie`, `grid`, `details` | the `device-id` cookie; `DeviceIndex` (phase of loading, draw handlers, rows, the request, marked and checked rows, the variables for the default row, timers of draws, the save of the checked devices, the page's cover; `hurried` is history); `DeviceDetails` |
| `filters`, `calls`, `editor` | the tables of filters with the jobs that use them; what the service is doing for the tab and for the other user, one awaited call a step; `self.model` and its panel |
| `events`, `clicks`, `edits` | counters of the bounds, anew on each page |

Actions bear the names of handlers: `...Answered` and `...Failed` are a request's two
ends, and each says in a comment which function it is.  The service's side of the filters
is a chain of awaited calls like those of modules 1 to 4 (`SaveReads`, `SaveChecks`,
`SaveInserts`, `SaveDrops`, `DeleteReads`, `DeleteDrops`), and so is the other user's.

### Abstractions

* One tab.  Its scripts run one handler at a time; what is interleaved are handlers,
  answers, timers, and the service.
* A click, or an answer, may come between a draw and the timer of 0 ms that it sets
  (`grid.drawn`), as browsers do not promise otherwise.  Only two timers at once are
  modelled: an answer waits for those before.  On the record pages the redraw and its
  timer are one step.
* What covers a page are the elements of class `loader_container`, of which the page
  has one and the pane another, with the id `loadingElement`: scripts show and hide the
  class, and so both, or the pane's by its id.  Several requests share a cover, so
  one that ends takes away the cover of another; the model keeps each as shown or not,
  as the browser does.  Covers are no guards: clicks under one are modelled too.
* One filter is being saved at a time, from the link of a job or for the checked devices.
  The save that the toolbar of the list offers (`saveFilter`, `saveAsFilter`) shows and hides
  the same covers; what it does to the filter is in `FiltersPage`.
* The view of devices with cellular connections is left out.
* The filters' page is one of its own: of the list it only reloads the rows.
* The refresh of jobs and of devices by a timer is left out: nothing ever sets its `autoRefresh`.
* A third draw handler does what a second does.
* What the pane of a device writes into the highlighted rows when a switch ends is
  left out: texts of cells.
* Views are the record they are of; forms have no fields but those that name what is
  acted on.

### Run

`SiteEverything`: two devices, one message of telemetry and two requests for it in
flight, two indicators, two records, two requests of a list and of a pane, three
events, clicks or edits on a page, filters and searches of the devices that ask for one
or both (`Searches`), two names and three filters.  Two requests in flight are what an
overtaken answer needs; three clicks choose, act and choose again while the first is on
its way; a search for one device tells a selection that is found from one that is not;
three filters are the built-in one, a saved
one and one that is renewed.  Deadlock is checked: a page can always be left.

| Property | Says |
|----------|------|
| `DashboardIsSteady` | polling neither multiplies nor stops; pane and alert table tell of the chosen device |
| `PaneFollowsRow` | the buttons of a pane act on the record that is highlighted and seen |
| `DevicesPageAgrees` | the cookie names a highlighted row, the link of the pane switches the device it shows |
| `FilterRowsKept` | a filter has one row and a name of its own, and is never without |
| `PollingMovesOn` | a device's telemetry never gets older but by two requests at once |
| `SelectionSurvives` | a list that comes anew keeps the selection it can keep and closes the pane of what is gone, but for a click between a draw of devices and its timer |
| `ListsAreLatest` | the grid and the list of jobs implement `LatestAnswer` |
| `EditorKeepsFilter` | the editor keeps the filter it saved; a forced deletion is for the filter the first was for |
| `PollingNeverStops` | alerts, indicators and the chosen device keep coming |
| `TabComesToRest` | a tab whose user pauses comes to rest, uncovered but for three failures |

The exceptions in these properties are reached.  The lists of rules and actions
abort no request and may show an older answer, so the refinement is about the two
that do; `DeviceDetails.init` returns nothing, so a request for details cannot be
aborted and may be overtaken; `destroy` of the grid keeps its handlers, so after an
edit of the columns every click counts twice and the second timer of a draw closes
the pane that the first has opened for a device still displayed (against the
comment at `DeviceIndex.js:113`); a click on another row between a draw and its timer is
taken back, since the timer selects what was selected at the draw, or closes the pane the
click has opened; the list of devices stays covered when the suggested clauses could not be
read (it then has no grid either), when the checked devices could not be saved as a filter
for a job, and when they were saved to be opened and the filter is then not found; two
users who save one name at once both succeed; a rename whose old row could not be
dropped leaves both; a starting instance of the site brings a renamed built-in
filter back; the forced deletion is for the filter the editor has by then.

**Fairness.**  Per page: timers fire and requests end, in an answer or an error,
which the browser sees to.  `DashboardFairness` and `IndicatorsFairness` add that
the service does not fail for ever to answer for the chosen device and for the
definitions (strong fairness of the answer); without it the pane stays covered, which is
what the code does when the service is down.  Nothing is assumed about clicks or about leaving.

### Proofs

All safety properties of the site are proved, for any number of devices, records,
filters, requests in flight and clicks: in `WebSiteProofs` those of the dashboard
and the record pages (`DashboardInv`, `RecordInv`), in `DevicesPageProofs` those of the
devices and the refinement of `LatestAnswer` (`DevicesInv`), in `FiltersPageProofs` those
of the filters and `TypeOK` of the whole (`FilterInv`).

* `DashboardInv`: the handle the script keeps is the one timer that is armed; a
  pane without a request or a timer polls nothing; what is uncovered is the chosen device's.
* `RecordInv`: the last request of the pane is for its target, and those before are
  superseded when it is answered, so that a view of something else is either to be
  followed or was overtaken.  For the refinement the one request of the jobs has
  read something the service held since it was sent (`SinceInv`).
* `DevicesInv`: while a draw is to be dealt with and nothing was clicked since, what it
  found is the cookie, or nothing if the cookie's device is not among the rows; whatever
  was clicked, a cookie without a draw to deal with names a marked row (`GridOK`).
  `hurried` stands for the click since the draw, and only `RedrawKeeps` asks for its absence.
  Before the table is made nothing is checked or saved (`Begun`).  A request for a
  device is for the script's device, superseded, or followed by one, and is never the
  loader that can be aborted (`PaneOK`).
* `FilterInv`: two calls under way on one filter or for one name are in the history
  (`Apart`); a call's findings still hold unless it was raced for (`Found`, `Free`), and
  while a row is renamed the new one is there (`Renaming`).  So the only steps that
  drop a row drop that of a filter nobody else works on, or one that is raced.
  `TabOK` ties the tab's call to the editor.

Liveness (`PollingNeverStops`, `TabComesToRest`) stays with TLC.

## What is only model-checked

Liveness everywhere (`EveryCallReturns`, `FeedbackConsumed`, `FleetFollowsTable`,
`PollingNeverStops`, `TabComesToRest`): the prover has no rule for fairness.  Of the
first, the half that needs none is proved: a call has a finite number of steps left
and each of its own takes one of them (`CallsCountDownAlways`, `CallsAreBounded`).
Every other property of a passing run is a theorem, some under assumptions that the
run's constants satisfy and that the theorem names.  One theorem states a property no
run lists, `RollbackOfAddIsOwn`.

## Not modelled

* **Event processors** (H).  Partitions, leases and checkpoints are the event
  processor host's; the code between reads a batch, calls modules 1, 2 or 4's operations and
  checkpoints.
* **The rest of I**: the name cache and the storing of job records are single
  writes after another call; scheduling a job in the hub is the hub's.
* **The rest of the site**: forms that send one request and show its answer (tags,
  desired properties, job and command forms, adding a device), charts, widgets for names,
  localization, controllers without state.
* **Device list queries and filtering, telemetry, alerts and locations**: read
  only; pure functions of documents and rows.
* **Device types, command parameters, user settings, icons**: single independent
  writes.
* **Cellular connectivity**: a vendor's service behind one call each.
* **Deployment scripts and configuration**.
* **Vendored scripts** in `Web/Scripts` (jQuery, jQuery UI, moment, knockout,
  DataTables, validation), which are most of the repository's JavaScript, are
  libraries: the pages' modules model them from how the pages use them.
