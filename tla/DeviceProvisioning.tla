------------------------- MODULE DeviceProvisioning -------------------------
(***************************************************************************)
(* Registering, removing and enabling devices: DeviceLogic over the three  *)
(* stores that know a device, IoT Hub (its identity, key, status and the   *)
(* HubEnabledState tag of its twin), the device registry (DocumentDB) and  *)
(* the table the simulator reads, plus the device's rules.                 *)
(*                                                                         *)
(* The stores share no transaction.  An operation is a chain of awaited    *)
(* calls, and every call is one action here: other operations, running in  *)
(* the web site and in the web jobs, step in between, and a call may fail. *)
(* What the code does about a failure (retry, roll back, swallow, let the  *)
(* exception out) is what this module is about.                            *)
(***************************************************************************)
EXTENDS Integers, FiniteSets

CONSTANTS
    Devices,      \* device ids
    NoDevice,     \* the device of an operator that has not started anything
    Operators,    \* concurrent callers of DeviceLogic: requests, web jobs
    Kinds,        \* the operations the callers use
    Simulated,    \* the devices whose IsSimulatedDevice is true
    Initially,    \* the devices registered in the initial state
    Faults,       \* the failures that may occur: a set of <<call, fault>>
    RETRY_COUNT,  \* AzureRetryHelper: attempts after the first
    Unlimited,    \* whether calls may fail for ever, or MaxFaults holds
    MaxFaults,    \* bound: failing calls per operation
    MaxOps        \* bound: operations started in a behaviour

AddKinds    == {"add", "bootstrap"}   \* AddDeviceAsync; BootstrapDefaultDevices, GenerateNDevices
StatusKinds == {"enable", "disable"}  \* UpdateDeviceEnabledStatusAsync
SaveKinds   == {"save", "info"}       \* UpdateDeviceAsync: an edit or a command; a DeviceInfo packet
AllKinds    == AddKinds \union StatusKinds \union SaveKinds \union {"remove"}

Calls  == {"hubAdd", "hubTwin", "hubGet", "hubRemove", "hubUpdate", "docRead",
           "docSave", "docDelete", "tag", "keys", "sim", "rules", "process"}
\* transient: refused, worth a retry; permanent: refused; lost: done, but the
\* caller gets a transient error; crash: the process stops between two calls
FaultKinds == {"transient", "permanent", "lost", "crash"}

Keys  == 0 .. MaxOps     \* one per AddDevice: its security keys and its document id
NoKey == -1

ASSUME ConstantsAssumption ==
    /\ NoDevice \notin Devices
    /\ Kinds \subseteq AllKinds
    /\ Simulated \subseteq Devices
    /\ Initially \subseteq Devices
    /\ Faults \subseteq Calls \X FaultKinds
    /\ RETRY_COUNT \in Nat
    /\ Unlimited \in BOOLEAN
    /\ MaxFaults \in Nat
    /\ MaxOps \in Nat

VARIABLES
    identity,   \* IoT Hub: the identity of each device and its twin's HubEnabledState
    docs,       \* device registry: by device and document id, HubEnabledState
    sim,        \* simulator table: the key the simulator will connect with
    rules,      \* the devices that have rules
    pc,         \* per operator: the call its operation makes next, or its result
    kind, dev,  \* the operation and its device
    key,        \* the keys it generated or read, and the id of the document it adds
    doc, enabled,     \* the document it read, and the HubEnabledState in it
    status,     \* the status in the identity it read
    attempt,    \* failed attempts of the present call
    faults,     \* failing calls so far, unless Unlimited
    started     \* operations started so far

stores  == <<identity, docs, sim, rules>>
task    == <<kind, dev, started>>
memory  == <<key, doc, enabled, status>>
control == <<pc, attempt, faults>>
vars    == <<stores, task, memory, control>>

-----------------------------------------------------------------------------
(* State *)

Statuses == {"enabled", "disabled"}
Tags     == {"none", "Running", "Disabled"}
Absent   == "absent"
Enabled  == {"null", "on", "off"}     \* DeviceProperties.HubEnabledState, a bool?
NewEnabled == {"null", "on"}          \* in a new device's document

\* readers: the operators whose last read carries the current ETag
Identity(k, s) == [key |-> k, status |-> s, tag |-> "none", readers |-> {}]
NoIdentity     == Identity(NoKey, "enabled")
Present(d)     == identity[d].key # NoKey
DocIds(d)      == {k \in Keys : docs[d][k] # Absent}

Returned == {"idle", "ok", "failed", "crashed"}
Labels   == Returned \union
    {"validate", "hubAdd", "hubTwin", "docCheck", "docSave", "tag", "simSave", "undoAdd",
     "hubGet", "hubRemove", "docFind", "docDelete", "simRemove", "rulesRemove", "undoRemove",
     "statusGet", "statusSet", "keysGet", "undoGet", "undoSet", "docRead", "docExists", "twinSync"}

IdentityRecord == [key : Keys \union {NoKey}, status : Statuses, tag : Tags,
                   readers : SUBSET Operators]

(* Every store and every operation's locals hold values of their kind, and  *)
(* an operation that is under way works on a device.                        *)
TypeOK ==
    /\ identity \in [Devices -> IdentityRecord]
    /\ docs \in [Devices -> [Keys -> Enabled \union {Absent}]]
    /\ sim \in [Devices -> Keys \union {NoKey}]
    /\ rules \subseteq Devices
    /\ pc \in [Operators -> Labels]
    /\ kind \in [Operators -> Kinds \union {"none"}]
    /\ dev \in [Operators -> Devices \union {NoDevice}]
    /\ key \in [Operators -> Keys \union {NoKey}]
    /\ doc \in [Operators -> Keys \union {NoKey}]
    /\ enabled \in [Operators -> Enabled]
    /\ status \in [Operators -> Statuses]
    /\ attempt \in [Operators -> 0 .. RETRY_COUNT]
    /\ faults \in [Operators -> 0 .. MaxFaults]
    /\ started \in 0 .. MaxOps
    /\ \A o \in Operators : pc[o] \notin Returned => dev[o] \in Devices

Init ==
    /\ identity = [d \in Devices |-> IF d \in Initially
                     THEN [Identity(0, "enabled") EXCEPT !.tag = "Running"] ELSE NoIdentity]
    /\ docs = [d \in Devices |-> [k \in Keys |->
                     IF d \in Initially /\ k = 0 THEN "null" ELSE Absent]]
    /\ sim = [d \in Devices |-> IF d \in Initially \intersect Simulated THEN 0 ELSE NoKey]
    /\ rules = {}
    /\ pc = [o \in Operators |-> "idle"]
    /\ kind = [o \in Operators |-> "none"]
    /\ dev = [o \in Operators |-> NoDevice]
    /\ key = [o \in Operators |-> NoKey]
    /\ doc = [o \in Operators |-> NoKey]
    /\ enabled = [o \in Operators |-> "null"]
    /\ status = [o \in Operators |-> "enabled"]
    /\ attempt = [o \in Operators |-> 0]
    /\ faults = [o \in Operators |-> 0]
    /\ started = 0

-----------------------------------------------------------------------------
(* Calls and their failures *)

At(o, label) == pc[o] = label
Kind(o, ks)  == kind[o] \in ks

Budget(o) == Unlimited \/ faults[o] < MaxFaults
Spend(o)  == faults' = IF Unlimited THEN faults ELSE [faults EXCEPT ![o] = @ + 1]

MayFail(o, call, fault) == <<call, fault>> \in Faults /\ Budget(o)

\* where an answered, a failed and a retried call leave the operation
Goto(o, label) ==
    /\ pc' = [pc EXCEPT ![o] = label]
    /\ attempt' = [attempt EXCEPT ![o] = 0]
    /\ UNCHANGED faults
GotoAfterFault(o, label) ==
    /\ pc' = [pc EXCEPT ![o] = label]
    /\ attempt' = [attempt EXCEPT ![o] = 0]
    /\ Spend(o)
Retry(o) ==
    /\ attempt' = [attempt EXCEPT ![o] = @ + 1]
    /\ Spend(o)
    /\ UNCHANGED pc

\* mutant: one try too many
RetryableOnceMore(o, f) == f # "permanent" /\ attempt[o] <= RETRY_COUNT

\* OperationWithBasicRetryAsync: a transient error is tried again, RETRY_COUNT times
Retryable(o, f) == f # "permanent" /\ attempt[o] < RETRY_COUNT

SetIdentity(d, v) == identity' = [identity EXCEPT ![d] = v]

\* a call that is answered ends at ok when the service accepts it and at err
\* when it refuses; accepts and effect are the service's
HubCall(o, call, accepts, effect, ok, err) ==
    /\ \/ /\ accepts
          /\ SetIdentity(dev[o], effect)
          /\ Goto(o, ok)
       \/ /\ ~accepts
          /\ Goto(o, err)
          /\ UNCHANGED identity
       \/ \E f \in {"transient", "permanent", "lost"} :
            /\ MayFail(o, call, f)
            /\ IF f = "lost" /\ accepts THEN SetIdentity(dev[o], effect) ELSE UNCHANGED identity
            /\ IF Retryable(o, f)
               THEN Retry(o) ELSE GotoAfterFault(o, err)
    /\ UNCHANGED <<docs, sim, rules, task, memory>>

\* a read of the identity, GetIotHubDeviceAsync, that fails: retried, then thrown
GetFails(o) ==
    \E f \in {"transient", "permanent"} :
      /\ MayFail(o, "hubGet", f)
      /\ IF Retryable(o, f)
         THEN Retry(o) ELSE GotoAfterFault(o, "failed")

\* UpdateTwinAsync is called without a retry
TwinCall(o, call, effect, ok, err) ==
    /\ \/ /\ Present(dev[o])
          /\ SetIdentity(dev[o], effect)
          /\ Goto(o, ok)
       \/ /\ ~Present(dev[o])
          /\ Goto(o, err)
          /\ UNCHANGED identity
       \/ \E f \in {"permanent", "lost"} :
            /\ MayFail(o, call, f)
            /\ IF f = "lost" /\ Present(dev[o]) THEN SetIdentity(dev[o], effect) ELSE UNCHANGED identity
            /\ GotoAfterFault(o, err)
    /\ UNCHANGED <<docs, sim, rules, task, memory>>

\* a read of the registry (with the twin, GetDeviceAsync) that fails
ReadFails(o, err) ==
    /\ MayFail(o, "docRead", "permanent")
    /\ GotoAfterFault(o, err)

\* a write to the registry: upsert or delete of one document, without a retry
DocCall(o, call, id, value, ok, err) ==
    /\ \/ /\ docs' = [docs EXCEPT ![dev[o]][id] = value]
          /\ Goto(o, ok)
       \/ /\ MayFail(o, call, "permanent")
          /\ GotoAfterFault(o, err)
          /\ UNCHANGED docs
       \/ /\ MayFail(o, call, "lost")
          /\ docs' = [docs EXCEPT ![dev[o]][id] = value]
          /\ GotoAfterFault(o, err)
    /\ UNCHANGED <<identity, sim, rules, task, memory>>

\* a write to the simulator table; the callers swallow its failures
SimCall(o, k, next) ==
    /\ \/ sim' = [sim EXCEPT ![dev[o]] = k] /\ Goto(o, next)
       \/ MayFail(o, "sim", "permanent") /\ GotoAfterFault(o, next) /\ UNCHANGED sim
       \/ /\ MayFail(o, "sim", "lost")
          /\ sim' = [sim EXCEPT ![dev[o]] = k]
          /\ GotoAfterFault(o, next)
    /\ UNCHANGED <<identity, docs, rules, task, memory>>

-----------------------------------------------------------------------------
(* Starting an operation *)

Entry == [k \in AllKinds |->
    CASE k = "add"          -> "validate"
      [] k = "bootstrap"    -> "hubAdd"
      [] k = "remove"       -> "hubGet"
      [] k \in StatusKinds  -> "statusGet"
      [] k \in SaveKinds    -> "docRead"]

Begin(o) ==
    /\ pc[o] \in Returned
    /\ started < MaxOps
    /\ started' = started + 1
    /\ \E k \in Kinds, d \in Devices :
         /\ kind' = [kind EXCEPT ![o] = k]
         /\ dev' = [dev EXCEPT ![o] = d]
         /\ pc' = [pc EXCEPT ![o] = Entry[k]]
         /\ key' = [key EXCEPT ![o] = IF k \in AddKinds THEN started + 1 ELSE NoKey]
    /\ doc' = [doc EXCEPT ![o] = NoKey]
    /\ enabled' = [enabled EXCEPT ![o] = "null"]
    /\ status' = [status EXCEPT ![o] = "enabled"]
    /\ attempt' = [attempt EXCEPT ![o] = 0]
    /\ faults' = [faults EXCEPT ![o] = 0]
    /\ UNCHANGED stores

\* a user saves a rule for a registered device
SaveRule(d) ==
    /\ DocIds(d) # {}
    /\ rules' = rules \union {d}
    /\ UNCHANGED <<identity, docs, sim, task, memory, control>>

\* the process hosting the operation stops: nothing is rolled back
Crash(o) ==
    /\ pc[o] \notin Returned
    /\ MayFail(o, "process", "crash")
    /\ GotoAfterFault(o, "crashed")
    /\ UNCHANGED <<stores, task, memory>>

-----------------------------------------------------------------------------
(* AddDeviceAsync *)

\* ValidateDevice: the id must not be in the registry yet
Validate(o) ==
    /\ At(o, "validate")
    /\ \/ DocIds(dev[o]) = {} /\ Goto(o, "hubAdd")
       \/ DocIds(dev[o]) # {} /\ Goto(o, "failed")
       \/ ReadFails(o, "failed")
    /\ UNCHANGED <<stores, task, memory>>

\* mutants: the hub's refusal ignored; an add that overwrites
HubAddSwallows(o) ==
    At(o, "hubAdd") /\ HubCall(o, "hubAdd", ~Present(dev[o]), Identity(key[o], "enabled"), "docCheck", "docCheck")
HubAddOverwrites(o) ==
    At(o, "hubAdd") /\ HubCall(o, "hubAdd", TRUE, Identity(key[o], "enabled"), "hubTwin", "failed")

\* outside any try: an exception here goes to the caller.  A device without
\* tags and desired properties, as GenerateNDevices makes, skips the twin update
HubAdd(o) ==
    /\ At(o, "hubAdd")
    /\ \E next \in {"hubTwin", "docCheck"} :
         HubCall(o, "hubAdd", ~Present(dev[o]), Identity(key[o], "enabled"), next, "failed")

HubTwin(o) ==
    /\ At(o, "hubTwin")
    /\ TwinCall(o, "hubTwin", identity[dev[o]], "docCheck", "failed")

DocCheck(o) ==
    /\ At(o, "docCheck")
    /\ \/ DocIds(dev[o]) = {} /\ Goto(o, "docSave")
       \/ DocIds(dev[o]) # {} /\ Goto(o, "undoAdd")
       \/ ReadFails(o, "undoAdd")
    /\ UNCHANGED <<stores, task, memory>>

\* the registry write of every operation: which document and what it holds,
\* then where the operation goes on
DocSave(o) ==
    /\ At(o, "docSave")
    /\ \/ /\ Kind(o, AddKinds)
          /\ \E value \in NewEnabled : DocCall(o, "docSave", key[o], value, "tag", "undoAdd")
       \/ /\ Kind(o, {"enable"})
          /\ DocCall(o, "docSave", doc[o], "on", "tag", "undoGet")
       \/ /\ Kind(o, {"disable"})
          /\ DocCall(o, "docSave", doc[o], "off", "tag", "undoGet")
       \/ /\ Kind(o, {"save"})
          /\ DocCall(o, "docSave", doc[o], enabled[o], "twinSync", "failed")
       \/ /\ Kind(o, {"info"})
          /\ DocCall(o, "docSave", doc[o], "on", "twinSync", "failed")

\* SetHubEnabledStateTag, after the document was saved
AfterTag(o) == IF dev[o] \notin Simulated THEN "ok"
               ELSE CASE Kind(o, AddKinds)    -> "simSave"
                      [] Kind(o, {"enable"})  -> "keysGet"
                      [] OTHER                -> "simRemove"
Tag(o) ==
    /\ At(o, "tag")
    /\ TwinCall(o, "tag",
                [identity[dev[o]] EXCEPT !.tag = IF Kind(o, {"disable"}) THEN "Disabled" ELSE "Running"],
                AfterTag(o), IF Kind(o, AddKinds) THEN "undoAdd" ELSE "undoGet")

SimSave(o) ==
    /\ At(o, "simSave")
    /\ SimCall(o, key[o], "ok")

\* mutant: rolls back again until the hub obeys
UndoAddUntilDone(o) ==
    At(o, "undoAdd") /\ HubCall(o, "hubRemove", Present(dev[o]), NoIdentity, "failed", "undoAdd")

\* TryRemoveDeviceAsync swallows what goes wrong; then the exception is rethrown
UndoAdd(o) ==
    /\ At(o, "undoAdd")
    /\ HubCall(o, "hubRemove", Present(dev[o]), NoIdentity, "failed", "failed")

-----------------------------------------------------------------------------
(* RemoveDeviceAsync *)

\* keeps the identity it read for the rollback
HubGet(o) ==
    /\ At(o, "hubGet")
    /\ \/ /\ Present(dev[o])
          /\ key' = [key EXCEPT ![o] = identity[dev[o]].key]
          /\ status' = [status EXCEPT ![o] = identity[dev[o]].status]
          /\ Goto(o, "hubRemove")
       \/ ~Present(dev[o]) /\ Goto(o, "failed") /\ UNCHANGED <<key, status>>
       \/ GetFails(o) /\ UNCHANGED <<key, status>>
    /\ UNCHANGED <<stores, task, doc, enabled>>

\* mutants: goes on when the hub refuses; rolls back a removal it did not make
HubRemoveSwallows(o) ==
    At(o, "hubRemove") /\ HubCall(o, "hubRemove", Present(dev[o]), NoIdentity, "docFind", "docFind")
HubRemoveInTry(o) ==
    At(o, "hubRemove") /\ HubCall(o, "hubRemove", Present(dev[o]), NoIdentity, "docFind", "undoRemove")

HubRemove(o) ==
    /\ At(o, "hubRemove")
    /\ HubCall(o, "hubRemove", Present(dev[o]), NoIdentity, "docFind", "failed")

\* any document with this DeviceID may be the first of the query's result
DocFind(o) ==
    /\ At(o, "docFind")
    /\ LET found    == IF Kind(o, {"remove"}) THEN "docDelete" ELSE "docSave"
           notFound == IF Kind(o, {"remove"}) THEN "undoRemove" ELSE "undoGet"
       IN \/ /\ \E k \in DocIds(dev[o]) : doc' = [doc EXCEPT ![o] = k]
             /\ Goto(o, found)
          \/ DocIds(dev[o]) = {} /\ Goto(o, notFound) /\ UNCHANGED doc
          \/ ReadFails(o, notFound) /\ UNCHANGED doc
    /\ UNCHANGED <<stores, task, key, enabled, status>>

\* mutants: no rollback when the registry refuses; the refusal ignored
DocDeleteOnly(o) ==
    At(o, "docDelete") /\ DocCall(o, "docDelete", doc[o], Absent, "simRemove", "failed")
DocDeleteSwallows(o) ==
    At(o, "docDelete") /\ DocCall(o, "docDelete", doc[o], Absent, "simRemove", "simRemove")

\* deleting a document that is gone is an error
DocDelete(o) ==
    /\ At(o, "docDelete")
    /\ IF docs[dev[o]][doc[o]] # Absent
       THEN DocCall(o, "docDelete", doc[o], Absent, "simRemove", "undoRemove")
       ELSE Goto(o, "undoRemove") /\ UNCHANGED <<stores, task, memory>>

SimRemove(o) ==
    /\ At(o, "simRemove")
    /\ SimCall(o, NoKey, IF Kind(o, {"remove"}) THEN "rulesRemove" ELSE "ok")

\* RemoveAllRulesForDeviceAsync: a deletion that fails or conflicts is only
\* reported, and RemoveDeviceAsync does not look at the report
RulesRefused(o) ==
    /\ MayFail(o, "rules", "transient")
    /\ GotoAfterFault(o, "ok")
    /\ UNCHANGED rules

\* an exception, of the query or of the blob written after each deletion, is not
\* caught; nothing is rolled back
RulesRemove(o) ==
    /\ At(o, "rulesRemove")
    /\ \/ rules' = rules \ {dev[o]} /\ Goto(o, "ok")
       \/ RulesRefused(o)
       \/ /\ MayFail(o, "rules", "permanent")
          /\ GotoAfterFault(o, "failed")
          /\ rules' \in {rules, rules \ {dev[o]}}
    /\ UNCHANGED <<identity, docs, sim, task, memory>>

\* TryAddDeviceAsync: the old keys and status, but a new, empty twin
UndoRemove(o) ==
    /\ At(o, "undoRemove")
    /\ HubCall(o, "hubAdd", ~Present(dev[o]), Identity(key[o], status[o]), "failed", "failed")

-----------------------------------------------------------------------------
(* UpdateDeviceEnabledStatusAsync *)

Wanted(o)   == IF Kind(o, {"enable"}) THEN "enabled" ELSE "disabled"
Opposite(o) == IF Kind(o, {"enable"}) THEN "disabled" ELSE "enabled"

\* the identity is read with its ETag; a missing one is null and dereferenced,
\* so the call throws
ReadStatus(o, next) ==
    \/ /\ Present(dev[o])
       /\ identity' = [identity EXCEPT ![dev[o]].readers = @ \union {o}]
       /\ Goto(o, next)
    \/ ~Present(dev[o]) /\ Goto(o, "failed") /\ UNCHANGED identity
    \/ GetFails(o) /\ UNCHANGED identity

\* the update is refused unless the ETag read is still the current one
WriteStatus(o, s, ok, err) ==
    HubCall(o, "hubUpdate", Present(dev[o]) /\ o \in identity[dev[o]].readers,
            [identity[dev[o]] EXCEPT !.status = s, !.readers = {}], ok, err)

StatusGet(o) ==
    /\ At(o, "statusGet")
    /\ ReadStatus(o, "statusSet")
    /\ UNCHANGED <<docs, sim, rules, task, memory>>

StatusSet(o) == At(o, "statusSet") /\ WriteStatus(o, Wanted(o), "docFind", "failed")

UndoGet(o) ==
    /\ At(o, "undoGet")
    /\ ReadStatus(o, "undoSet")
    /\ UNCHANGED <<docs, sim, rules, task, memory>>

UndoSet(o) == At(o, "undoSet") /\ WriteStatus(o, Opposite(o), "failed", "failed")

\* AddOrRemoveSimulatedDevice swallows every failure, a missing identity included
KeysGet(o) ==
    /\ At(o, "keysGet")
    /\ \/ /\ Present(dev[o])
          /\ key' = [key EXCEPT ![o] = identity[dev[o]].key]
          /\ Goto(o, "simSave")
       \/ ~Present(dev[o]) /\ Goto(o, "ok") /\ UNCHANGED key
       \/ MayFail(o, "keys", "permanent") /\ GotoAfterFault(o, "ok") /\ UNCHANGED key
    /\ UNCHANGED <<stores, task, doc, enabled, status>>

-----------------------------------------------------------------------------
(* UpdateDeviceAsync: the whole document is read, and later written back *)

DocRead(o) ==
    /\ At(o, "docRead")
    /\ \/ /\ \E k \in DocIds(dev[o]) :
               /\ doc' = [doc EXCEPT ![o] = k]
               /\ enabled' = [enabled EXCEPT ![o] = docs[dev[o]][k]]
          /\ Goto(o, "docExists")
       \/ DocIds(dev[o]) = {} /\ Goto(o, "failed") /\ UNCHANGED <<doc, enabled>>
       \/ ReadFails(o, "failed") /\ UNCHANGED <<doc, enabled>>
    /\ UNCHANGED <<stores, task, key, status>>

DocExists(o) ==
    /\ At(o, "docExists")
    /\ \/ DocIds(dev[o]) # {} /\ Goto(o, "docSave")
       \/ DocIds(dev[o]) = {} /\ Goto(o, "failed")
       \/ ReadFails(o, "failed")
    /\ UNCHANGED <<stores, task, memory>>

\* the twin that was read is written back if it differs from the present one,
\* under the ETag it was read with: that never changes HubEnabledState, and
\* throws when the twin was changed meanwhile, is gone or cannot be reached
TwinSync(o) ==
    /\ At(o, "twinSync")
    /\ Goto(o, "ok") \/ Goto(o, "failed")
    /\ UNCHANGED <<stores, task, memory>>

-----------------------------------------------------------------------------

Step(o) ==
    \/ Validate(o) \/ HubAdd(o) \/ HubTwin(o) \/ DocCheck(o) \/ DocSave(o) \/ Tag(o)
    \/ SimSave(o) \/ UndoAdd(o)
    \/ HubGet(o) \/ HubRemove(o) \/ DocFind(o) \/ DocDelete(o) \/ SimRemove(o)
    \/ RulesRemove(o) \/ UndoRemove(o)
    \/ StatusGet(o) \/ StatusSet(o) \/ KeysGet(o) \/ UndoGet(o) \/ UndoSet(o)
    \/ DocRead(o) \/ DocExists(o) \/ TwinSync(o)

Next ==
    \/ \E o \in Operators : Begin(o) \/ Step(o) \/ Crash(o)
    \/ \E d \in Devices : SaveRule(d)

Spec == Init /\ [][Next]_vars

\* an awaited call completes, with an answer or an error
FairSpec == Spec /\ \A o \in Operators : WF_vars(Step(o))

\* operator o has an operation on device d under way
Working(o, d) == pc[o] \notin Returned /\ dev[o] = d

Begins(o) == pc[o] \in Returned /\ pc'[o] \notin Returned

\* a device's operations follow one another
DevicesInTurn ==
    \A o \in Operators : Begins(o) =>
        \A p \in Operators \ {o} : ~Working(p, dev'[o])
InTurnSpec == Init /\ [][Next /\ DevicesInTurn]_vars

\* the same, except that removals of a device may overlap
RemovalsOverlap ==
    \A o \in Operators : Begins(o) =>
        \A p \in Operators \ {o} :
            Working(p, dev'[o]) => kind'[o] = "remove" /\ kind[p] = "remove"
RemovalsOverlapSpec == Init /\ [][Next /\ RemovalsOverlap]_vars

-----------------------------------------------------------------------------
(* Properties *)

\* the failures after which the document an Add saved outlives its identity
OrderBreakers == {<<"hubRemove", "lost">>, <<"docSave", "lost">>,
                  <<"tag", "permanent">>, <<"tag", "lost">>}

\* operator o's operation comes back to its caller with this result
Returns(o, result) == pc[o] \notin Returned /\ pc'[o] = result
Moves(o)           == pc'[o] # pc[o] \/ attempt'[o] # attempt[o]

(* The order of AddDeviceAsync, hub first, makes a device's document appear *)
(* only while the hub holds the identity made for it: its keys are the ones *)
(* the same Add generated, so no device has two documents either.  Adds and *)
(* updates only (no removal), and none of OrderBreakers.                    *)
RegisteredHasIdentity ==
    \A d \in Devices, k \in Keys : docs[d][k] # Absent => identity[d].key = k

(* The simulator never holds a key the hub would refuse: an entry of its    *)
(* table carries the key of the device's present identity, although it is   *)
(* written last, by adds and by re-enables, from what was read before.      *)
SimulatorKeyIsHubKey ==
    \A d \in Devices : sim[d] # NoKey => sim[d] = identity[d].key

(* The rollback of a failed Add removes the identity that Add created, never *)
(* one that another Add has registered meanwhile.                           *)
RollbackTakesBackOwn ==
    [][\A o \in Operators :
         At(o, "undoAdd") /\ Moves(o) /\ identity' # identity
           => identity[dev[o]].key = key[o]]_vars

(* Hub and registry know the same devices, apart from those an operation is  *)
(* working on: rollbacks make up for one failing call per operation.         *)
Quiet(d) == \A o \in Operators : ~Working(o, d)
Agreement ==
    \A d \in Devices : Quiet(d) => (Present(d) <=> DocIds(d) # {})

(* A call that returns normally did all it stands for, whatever failed, was *)
(* retried or was lost on the way and whatever state earlier failures left;  *)
(* only the rules of a removed device may outlive it, when one could not be   *)
(* deleted: RemoveDeviceAsync does not look at what RemoveAllRulesForDevice-  *)
(* Async reports.                                                             *)
Done(o) ==
    LET d == dev[o]
    IN /\ Kind(o, AddKinds) => /\ identity[d].key = key[o]
                               /\ identity[d].tag = "Running"
                               /\ DocIds(d) = {key[o]}
       /\ Kind(o, {"remove"}) => ~Present(d) /\ DocIds(d) = {}
       /\ Kind(o, {"enable"}) => /\ identity[d].status = "enabled"
                                 /\ identity[d].tag = "Running"
                                 /\ docs[d][doc[o]] = "on"
       /\ Kind(o, {"disable"}) => /\ identity[d].status = "disabled"
                                  /\ identity[d].tag = "Disabled"
                                  /\ docs[d][doc[o]] = "off"
RulesGone(o) == Kind(o, {"remove"}) => dev[o] \notin rules' \/ RulesRefused(o)
OkMeansDone ==
    [][\A o \in Operators : Returns(o, "ok") => Done(o)' /\ RulesGone(o)]_vars

(* Once the removal of a device was reported to succeed, the device is gone  *)
(* from the hub and the registry and only an Add of it brings it back: no    *)
(* rollback of another removal does.                                         *)
Gone(d) == ~Present(d) /\ DocIds(d) = {}
RemovedIsGone ==
    [][\A o \in Operators :
         (Kind(o, {"remove"}) /\ At(o, "ok"))' =>
            \/ Gone(dev[o])'
            \/ At(o, "ok") /\ ~Gone(dev[o])
            \/ \E p \in Operators : Kind(p, AddKinds) /\ dev[p] = dev[o] /\ Moves(p)]_vars

(* To its callers the registry is one that changes a device's entry in one   *)
(* step (AtomicDevices): a call that fails or stops before its write leaves  *)
(* the entry alone, however many other calls fail, and one that returns      *)
(* normally has made its change exactly once.  It fails to be that only      *)
(* through the failures of HalfDone.                                         *)
HalfDone == {<<"docSave", "lost">>, <<"docDelete", "lost">>,
             <<"tag", "permanent">>, <<"tag", "lost">>}
AfterWrite == {"tag", "keysGet", "simSave", "simRemove", "rulesRemove", "twinSync"}
Progress(o) ==
    CASE pc[o] \in Returned   -> pc[o]
      [] pc[o] \in AfterWrite -> "applied"
      [] OTHER                -> "open"
Registered == [d \in Devices |-> {docs[d][k] : k \in DocIds(d)}]
Call == [o \in Operators |-> [kind |-> kind[o], dev |-> dev[o], at |-> Progress(o)]]

Registry == INSTANCE AtomicDevices WITH
    registered <- Registered, call <- Call,
    Registered0 <- [d \in Devices |-> IF d \in Initially THEN {"null"} ELSE {}]
DevicesAreAtomic == Registry!Spec

(* Retries are bounded and rollbacks do not loop: every operation returns,   *)
(* even when every call it makes keeps failing.                              *)
EveryCallReturns ==
    \A o \in Operators : pc[o] \notin Returned ~> pc[o] \in Returned

(* What comments in the code say, and the interleavings or failures refute.  *)

(* DeviceLogic.RemoveDeviceAsync, on its rollback: "It is assumed that if an *)
(* exception has occured in the Device Registry, the device is still in that *)
(* store".                                                                   *)
RollbackFindsDeviceRegistered ==
    \A o \in Operators : At(o, "undoRemove") => DocIds(dev[o]) # {}

(* DeviceRegistryRepository.UpdateDeviceAsync "Updates an existing device",  *)
(* and throws when there is none: it never registers one.                    *)
UpdateNeverRegisters ==
    [][\A o \in Operators :
         At(o, "docSave") /\ Moves(o) /\ ~Kind(o, AddKinds)
           => DocIds(dev[o])' \subseteq DocIds(dev[o])]_vars

=============================================================================
