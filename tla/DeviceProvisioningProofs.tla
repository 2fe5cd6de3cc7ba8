---------------------- MODULE DeviceProvisioningProofs ----------------------
(***************************************************************************)
(* Theorems about DeviceProvisioning for every set of devices, operators   *)
(* and faults and every bound.  Whatever the callers do and whatever fails *)
(*                                                                         *)
(*   TypeCorrect                   Spec => []TypeOK                        *)
(*   CallsCountDownAlways          Spec => CallsCountDown                  *)
(*   CallsAreBounded               Spec => [](at most 8 * (RETRY_COUNT+1)) *)
(*   as long as nothing is removed and no failure of OrderBreakers happens *)
(*   (HubFirst)                                                            *)
(*   RegisteredHasIdentityAlways   Spec => []RegisteredHasIdentity         *)
(*   SimulatorKeyIsHubKeyAlways    Spec => []SimulatorKeyIsHubKey          *)
(*   RollbackOfAddIsOwn            Spec => RollbackTakesBackOwn            *)
(*   while the operations on a device follow one another, whatever runs on *)
(*   other devices and whatever fails                                      *)
(*   OkMeansDoneAlways             InTurnSpec => OkMeansDone               *)
(*   OneCallerInTurn               Spec => InTurnSpec, for one caller      *)
(*   and while only removals of a device overlap, when no failure of       *)
(*   HalfDone happens (WritesReported)                                     *)
(*   DevicesAreAtomicAlways        RemovalsOverlapSpec => DevicesAreAtomic *)
(*   or when at most one call of an operation is refused (RefusedOnce)     *)
(*   AgreementAlways               RemovalsOverlapSpec => []Agreement      *)
(*   RemovedIsGoneAlways           RemovalsOverlapSpec => RemovedIsGone    *)
(*                                                                         *)
(* HubFirstInv: which call each operation may be at, that the keys of an   *)
(* Add are new, what an Add owns before and after each call, and what the  *)
(* others have read.  TurnsInv: what an operation has achieved before each *)
(* of its calls; InTurnInv adds what only an operation that has its device *)
(* to itself has.  AgreeInv: a device that only one of hub and registry    *)
(* knows has one operation that owes the other half or is taking its own   *)
(* half back.                                                              *)
(***************************************************************************)
EXTENDS DeviceProvisioning, TLAPS

-----------------------------------------------------------------------------
(* Types *)

ControlOK ==
    /\ pc \in [Operators -> Labels]
    /\ attempt \in [Operators -> 0 .. RETRY_COUNT]
    /\ faults \in [Operators -> 0 .. MaxFaults]
    /\ \A o \in Operators : pc[o] \notin Returned => dev[o] \in Devices

MemoryOK ==
    /\ key \in [Operators -> Keys \union {NoKey}]
    /\ doc \in [Operators -> Keys \union {NoKey}]
    /\ enabled \in [Operators -> Enabled]
    /\ status \in [Operators -> Statuses]

TaskOK ==
    /\ kind \in [Operators -> Kinds \union {"none"}]
    /\ dev \in [Operators -> Devices \union {NoDevice}]
    /\ started \in 0 .. MaxOps

StoresOK ==
    /\ identity \in [Devices -> IdentityRecord]
    /\ docs \in [Devices -> [Keys -> Enabled \union {Absent}]]
    /\ sim \in [Devices -> Keys \union {NoKey}]
    /\ rules \subseteq Devices

\* TypeOK by what the actions change together
LEMMA TypeParts == TypeOK <=> StoresOK /\ TaskOK /\ MemoryOK /\ ControlOK
BY DEF TypeOK, StoresOK, TaskOK, MemoryOK, ControlOK

\* an operation under way, moved by one of its calls to a label
LEMMA GotoOK ==
    ASSUME ControlOK, NEW o \in Operators, pc[o] \notin Returned,
           NEW label \in Labels, Goto(o, label), UNCHANGED dev
    PROVE  ControlOK'
BY ConstantsAssumption DEF ControlOK, Goto

LEMMA GotoAfterFaultOK ==
    ASSUME ControlOK, NEW o \in Operators, pc[o] \notin Returned, Budget(o),
           NEW label \in Labels, GotoAfterFault(o, label), UNCHANGED dev
    PROVE  ControlOK'
BY ConstantsAssumption DEF ControlOK, GotoAfterFault, Budget, Spend

LEMMA RetryOK ==
    ASSUME ControlOK, NEW o \in Operators, attempt[o] < RETRY_COUNT, Budget(o),
           Retry(o), UNCHANGED dev
    PROVE  ControlOK'
BY ConstantsAssumption DEF ControlOK, Retry, Budget, Spend

LEMMA SetIdentityOK ==
    ASSUME identity \in [Devices -> IdentityRecord], NEW d \in Devices,
           NEW v \in IdentityRecord, SetIdentity(d, v)
    PROVE  identity' \in [Devices -> IdentityRecord]
BY DEF SetIdentity

\* an identity that exists stays well-formed when one field is replaced
LEMMA NewIdentityOK ==
    ASSUME NEW k \in Keys \union {NoKey}, NEW s \in Statuses
    PROVE  Identity(k, s) \in IdentityRecord
BY DEF Identity, IdentityRecord, Tags

LEMMA SetFieldOK ==
    ASSUME NEW i \in IdentityRecord, NEW t \in Tags, NEW s \in Statuses, NEW r \in SUBSET Operators
    PROVE  /\ [i EXCEPT !.tag = t] \in IdentityRecord
           /\ [i EXCEPT !.readers = r] \in IdentityRecord
           /\ [i EXCEPT !.status = s, !.readers = r] \in IdentityRecord
BY DEF IdentityRecord

LEMMA HubCallOK ==
    ASSUME TypeOK, NEW o \in Operators, pc[o] \notin Returned,
           NEW call, NEW accepts \in BOOLEAN, NEW effect \in IdentityRecord,
           NEW ok \in Labels, NEW err \in Labels,
           HubCall(o, call, accepts, effect, ok, err)
    PROVE  TypeOK'
<1>1. /\ StoresOK /\ TaskOK /\ MemoryOK /\ ControlOK
      /\ dev[o] \in Devices
  BY TypeParts DEF TypeOK
<1>2. UNCHANGED <<docs, sim, rules, kind, dev, started, key, doc, enabled, status>>
  BY DEF HubCall, task, memory
<1>3. identity' \in [Devices -> IdentityRecord] /\ ControlOK'
  <2>1. CASE accepts /\ SetIdentity(dev[o], effect) /\ Goto(o, ok)
    BY <1>1, <1>2, <2>1, GotoOK, SetIdentityOK DEF StoresOK
  <2>2. CASE Goto(o, err) /\ UNCHANGED identity
    BY <1>1, <1>2, <2>2, GotoOK DEF StoresOK
  <2>3. ASSUME NEW f \in {"transient", "permanent", "lost"},
               MayFail(o, call, f),
               IF f = "lost" /\ accepts THEN SetIdentity(dev[o], effect) ELSE UNCHANGED identity,
               IF Retryable(o, f)
               THEN Retry(o) ELSE GotoAfterFault(o, err)
        PROVE  identity' \in [Devices -> IdentityRecord] /\ ControlOK'
    <3>1. identity' \in [Devices -> IdentityRecord]
      BY <1>1, <2>3, SetIdentityOK DEF StoresOK
    <3>2. CASE Retry(o) /\ attempt[o] < RETRY_COUNT
      BY <1>1, <1>2, <2>3, <3>1, <3>2, RetryOK DEF MayFail
    <3>3. CASE GotoAfterFault(o, err)
      BY <1>1, <1>2, <2>3, <3>1, <3>3, GotoAfterFaultOK DEF MayFail
    <3>4. QED BY <2>3, <3>2, <3>3 DEF Retryable
  <2>4. QED BY <2>1, <2>2, <2>3 DEF HubCall
<1>4. StoresOK' /\ TaskOK' /\ MemoryOK'
  BY <1>1, <1>2, <1>3 DEF StoresOK, TaskOK, MemoryOK
<1>5. QED BY <1>3, <1>4 DEF TypeOK, StoresOK, TaskOK, MemoryOK, ControlOK

LEMMA TwinCallOK ==
    ASSUME TypeOK, NEW o \in Operators, pc[o] \notin Returned,
           NEW call, NEW effect \in IdentityRecord,
           NEW ok \in Labels, NEW err \in Labels,
           TwinCall(o, call, effect, ok, err)
    PROVE  TypeOK'
<1>1. /\ StoresOK /\ TaskOK /\ MemoryOK /\ ControlOK
      /\ dev[o] \in Devices
  BY TypeParts DEF TypeOK
<1>2. UNCHANGED <<docs, sim, rules, kind, dev, started, key, doc, enabled, status>>
  BY DEF TwinCall, task, memory
<1>3. identity' \in [Devices -> IdentityRecord] /\ ControlOK'
  <2>1. CASE SetIdentity(dev[o], effect) /\ Goto(o, ok)
    BY <1>1, <1>2, <2>1, GotoOK, SetIdentityOK DEF StoresOK
  <2>2. CASE Goto(o, err) /\ UNCHANGED identity
    BY <1>1, <1>2, <2>2, GotoOK DEF StoresOK
  <2>3. ASSUME NEW f \in {"permanent", "lost"}, MayFail(o, call, f),
               SetIdentity(dev[o], effect) \/ UNCHANGED identity,
               GotoAfterFault(o, err)
        PROVE  identity' \in [Devices -> IdentityRecord] /\ ControlOK'
    <3>1. identity' \in [Devices -> IdentityRecord]
      BY <1>1, <2>3, SetIdentityOK DEF StoresOK
    <3>2. QED BY <1>1, <1>2, <2>3, <3>1, GotoAfterFaultOK DEF MayFail
  <2>4. QED BY <2>1, <2>2, <2>3 DEF TwinCall
<1>4. StoresOK' /\ TaskOK' /\ MemoryOK'
  BY <1>1, <1>2, <1>3 DEF StoresOK, TaskOK, MemoryOK
<1>5. QED BY <1>3, <1>4 DEF TypeOK, StoresOK, TaskOK, MemoryOK, ControlOK

LEMMA SetDocOK ==
    ASSUME docs \in [Devices -> [Keys -> Enabled \union {Absent}]],
           NEW d \in Devices, NEW id \in Keys \union {NoKey},
           NEW value \in Enabled \union {Absent},
           docs' = [docs EXCEPT ![d][id] = value]
    PROVE  docs' \in [Devices -> [Keys -> Enabled \union {Absent}]]
OBVIOUS

LEMMA DocCallOK ==
    ASSUME TypeOK, NEW o \in Operators, pc[o] \notin Returned,
           NEW call, NEW id \in Keys \union {NoKey}, NEW value \in Enabled \union {Absent},
           NEW ok \in Labels, NEW err \in Labels,
           DocCall(o, call, id, value, ok, err)
    PROVE  TypeOK'
<1>1. /\ StoresOK /\ TaskOK /\ MemoryOK /\ ControlOK
      /\ dev[o] \in Devices
  BY TypeParts DEF TypeOK
<1>2. UNCHANGED <<identity, sim, rules, kind, dev, started, key, doc, enabled, status>>
  BY DEF DocCall, task, memory
<1>3. docs' = [docs EXCEPT ![dev[o]][id] = value] \/ UNCHANGED docs
  BY DEF DocCall
<1>4. docs' \in [Devices -> [Keys -> Enabled \union {Absent}]]
  BY <1>1, <1>3, SetDocOK DEF StoresOK
<1>5. ControlOK'
  <2>1. CASE Goto(o, ok)
    BY <1>1, <1>2, <2>1, GotoOK
  <2>2. CASE Budget(o) /\ GotoAfterFault(o, err)
    BY <1>1, <1>2, <2>2, GotoAfterFaultOK
  <2>3. QED BY <2>1, <2>2 DEF DocCall, MayFail
<1>6. StoresOK' /\ TaskOK' /\ MemoryOK'
  BY <1>1, <1>2, <1>4 DEF StoresOK, TaskOK, MemoryOK
<1>7. QED BY <1>5, <1>6 DEF TypeOK, StoresOK, TaskOK, MemoryOK, ControlOK

LEMMA SimCallOK ==
    ASSUME TypeOK, NEW o \in Operators, pc[o] \notin Returned,
           NEW k \in Keys \union {NoKey}, NEW next \in Labels, SimCall(o, k, next)
    PROVE  TypeOK'
<1>1. /\ StoresOK /\ TaskOK /\ MemoryOK /\ ControlOK
      /\ dev[o] \in Devices
  BY TypeParts DEF TypeOK
<1>2. UNCHANGED <<identity, docs, rules, kind, dev, started, key, doc, enabled, status>>
  BY DEF SimCall, task, memory
<1>3. sim' \in [Devices -> Keys \union {NoKey}]
  BY <1>1 DEF StoresOK, SimCall
<1>4. ControlOK'
  <2>1. CASE Goto(o, next)
    BY <1>1, <1>2, <2>1, GotoOK
  <2>2. CASE Budget(o) /\ GotoAfterFault(o, next)
    BY <1>1, <1>2, <2>2, GotoAfterFaultOK
  <2>3. QED BY <2>1, <2>2 DEF SimCall, MayFail
<1>5. StoresOK' /\ TaskOK' /\ MemoryOK'
  BY <1>1, <1>2, <1>3 DEF StoresOK, TaskOK, MemoryOK
<1>6. QED BY <1>4, <1>5 DEF TypeOK, StoresOK, TaskOK, MemoryOK, ControlOK

\* the calls that only read: whether they answer or fail, and wherever they go
LEMMA ReadOK ==
    ASSUME ControlOK, NEW o \in Operators, pc[o] \notin Returned, UNCHANGED dev,
           NEW ok \in Labels, NEW notFound \in Labels, NEW err \in Labels,
           Goto(o, ok) \/ Goto(o, notFound) \/ ReadFails(o, err)
    PROVE  ControlOK'
<1>1. CASE Goto(o, ok) \/ Goto(o, notFound)
  BY <1>1, GotoOK
<1>2. CASE ReadFails(o, err)
  BY <1>2, GotoAfterFaultOK DEF ReadFails, MayFail
<1>3. QED BY <1>1, <1>2

LEMMA GetOK ==
    ASSUME ControlOK, NEW o \in Operators, pc[o] \notin Returned, UNCHANGED dev,
           NEW ok \in Labels, Goto(o, ok) \/ Goto(o, "failed") \/ GetFails(o)
    PROVE  ControlOK'
<1>1. CASE Goto(o, ok) \/ Goto(o, "failed")
  BY <1>1, GotoOK DEF Labels, Returned
<1>2. CASE GetFails(o)
  <2>1. "failed" \in Labels
    BY DEF Labels, Returned
  <2>2. QED BY <1>2, <2>1, GotoAfterFaultOK, RetryOK DEF GetFails, MayFail, Retryable
<1>3. QED BY <1>1, <1>2

LEMMA InitOK == Init => TypeOK
BY ConstantsAssumption
   DEF Init, TypeOK, Identity, NoIdentity, IdentityRecord, Keys, NoKey, Statuses, Tags,
       Enabled, Absent, Labels, Returned

LEMMA BeginOK == ASSUME TypeOK, NEW o \in Operators, Begin(o) PROVE TypeOK'
<1>1. PICK k \in Kinds, d \in Devices :
        /\ kind' = [kind EXCEPT ![o] = k]
        /\ dev' = [dev EXCEPT ![o] = d]
        /\ pc' = [pc EXCEPT ![o] = Entry[k]]
        /\ key' = [key EXCEPT ![o] = IF k \in AddKinds THEN started + 1 ELSE NoKey]
  BY DEF Begin
<1>2. Entry[k] \in Labels
  BY ConstantsAssumption
     DEF Entry, AllKinds, AddKinds, StatusKinds, SaveKinds, Labels, Returned
<1>3. started' \in 0 .. MaxOps /\ started + 1 \in Keys
  BY ConstantsAssumption DEF Begin, TypeOK, Keys
<1>4. StoresOK'
  BY DEF TypeOK, StoresOK, Begin, stores
<1>5. TaskOK'
  BY <1>1, <1>3 DEF TypeOK, TaskOK
<1>6. MemoryOK'
  BY <1>1, <1>3 DEF TypeOK, MemoryOK, Begin, Enabled, Statuses
<1>7. ControlOK'
  BY <1>1, <1>2, ConstantsAssumption DEF TypeOK, ControlOK, Begin
<1>8. QED BY <1>4, <1>5, <1>6, <1>7 DEF TypeOK, StoresOK, TaskOK, MemoryOK, ControlOK

LEMMA CrashOK == ASSUME TypeOK, NEW o \in Operators, Crash(o) PROVE TypeOK'
<1>1. ControlOK'
  BY TypeParts, GotoAfterFaultOK DEF Crash, MayFail, Labels, Returned, task
<1>2. QED BY <1>1 DEF TypeOK, ControlOK, Crash, stores, task, memory

LEMMA AddStepOK ==
    ASSUME TypeOK, NEW o \in Operators,
           Validate(o) \/ HubAdd(o) \/ HubTwin(o) \/ DocCheck(o) \/ DocSave(o)
             \/ Tag(o) \/ SimSave(o) \/ UndoAdd(o)
    PROVE  TypeOK'
<1> DEFINE UnderWay == pc[o] \notin Returned
<1>1. dev[o] \in Devices /\ ControlOK /\ UnderWay
  BY DEF TypeOK, ControlOK, Validate, HubAdd, HubTwin, DocCheck, DocSave, Tag, SimSave,
         UndoAdd, At, Returned
<1>2. CASE Validate(o)
  <2>1. ControlOK'
    BY <1>1, <1>2, ReadOK DEF Validate, Labels, Returned, task
  <2>2. QED BY <1>2, <2>1 DEF TypeOK, ControlOK, Validate, stores, task, memory
<1>3. CASE HubAdd(o)
  <2>1. PICK next \in {"hubTwin", "docCheck"} :
          HubCall(o, "hubAdd", ~Present(dev[o]), Identity(key[o], "enabled"), next, "failed")
    BY <1>3 DEF HubAdd
  <2>2. Identity(key[o], "enabled") \in IdentityRecord
    BY NewIdentityOK DEF TypeOK, Statuses
  <2>3. next \in Labels /\ "failed" \in Labels
    BY DEF Labels, Returned
  <2>4. QED BY <1>1, <2>1, <2>2, <2>3, HubCallOK
<1>4. CASE HubTwin(o)
  <2>1. identity[dev[o]] \in IdentityRecord
    BY <1>1 DEF TypeOK
  <2>2. "docCheck" \in Labels /\ "failed" \in Labels
    BY DEF Labels, Returned
  <2>3. QED BY <1>1, <1>4, <2>1, <2>2, TwinCallOK DEF HubTwin
<1>5. CASE DocCheck(o)
  <2>1. ControlOK'
    BY <1>1, <1>5, ReadOK DEF DocCheck, Labels, Returned, task
  <2>2. QED BY <1>5, <2>1 DEF TypeOK, ControlOK, DocCheck, stores, task, memory
<1>6. CASE DocSave(o)
  <2>1. key[o] \in Keys \union {NoKey} /\ doc[o] \in Keys \union {NoKey}
        /\ enabled[o] \in Enabled
    BY DEF TypeOK
  <2>2. {"tag", "undoAdd", "undoGet", "twinSync", "failed"} \subseteq Labels
        /\ {"on", "off"} \subseteq Enabled /\ NewEnabled \subseteq Enabled
    BY DEF Labels, Returned, Enabled, NewEnabled
  <2>3. QED BY <1>1, <1>6, <2>1, <2>2, DocCallOK DEF DocSave
<1>7. CASE Tag(o)
  <2> DEFINE effect == [identity[dev[o]] EXCEPT !.tag =
                          IF Kind(o, {"disable"}) THEN "Disabled" ELSE "Running"]
  <2>1. effect \in IdentityRecord
    BY <1>1, SetFieldOK DEF TypeOK, Tags, Statuses
  <2>2. AfterTag(o) \in Labels
    BY DEF AfterTag, Labels, Returned
  <2>3. "undoAdd" \in Labels /\ "undoGet" \in Labels
    BY DEF Labels
  <2>4. QED BY <1>1, <1>7, <2>1, <2>2, <2>3, TwinCallOK DEF Tag
<1>8. CASE SimSave(o)
  <2>1. key[o] \in Keys \union {NoKey} /\ "ok" \in Labels
    BY DEF TypeOK, Labels, Returned
  <2>2. QED BY <1>1, <1>8, <2>1, SimCallOK DEF SimSave
<1>9. CASE UndoAdd(o)
  <2>1. NoIdentity \in IdentityRecord /\ "failed" \in Labels /\ Present(dev[o]) \in BOOLEAN
    BY NewIdentityOK DEF NoIdentity, Statuses, Labels, Returned, Present
  <2>2. QED BY <1>1, <1>9, <2>1, HubCallOK DEF UndoAdd
<1>10. QED BY <1>2, <1>3, <1>4, <1>5, <1>6, <1>7, <1>8, <1>9

LEMMA RemoveStepOK ==
    ASSUME TypeOK, NEW o \in Operators,
           HubGet(o) \/ HubRemove(o) \/ DocFind(o) \/ DocDelete(o) \/ SimRemove(o)
             \/ RulesRemove(o) \/ UndoRemove(o)
    PROVE  TypeOK'
<1>1. dev[o] \in Devices /\ ControlOK /\ pc[o] \notin Returned
  BY DEF TypeOK, ControlOK, HubGet, HubRemove, DocFind, DocDelete, SimRemove, RulesRemove,
         UndoRemove, At, Returned
<1>2. Present(dev[o]) \in BOOLEAN /\ (~Present(dev[o])) \in BOOLEAN
  BY DEF Present
<1>3. CASE HubGet(o)
  <2>1. ControlOK'
    BY <1>1, <1>3, GetOK DEF HubGet, Labels, Returned, task
  <2>2. MemoryOK'
    <3>1. identity[dev[o]].key \in Keys \union {NoKey} /\ identity[dev[o]].status \in Statuses
      BY <1>1 DEF TypeOK, IdentityRecord
    <3>2. QED BY <1>3, <3>1 DEF HubGet, TypeOK, MemoryOK
  <2>3. QED BY <1>3, <2>1, <2>2 DEF TypeOK, ControlOK, MemoryOK, HubGet, stores, task
<1>4. CASE HubRemove(o)
  <2>1. NoIdentity \in IdentityRecord /\ "docFind" \in Labels /\ "failed" \in Labels
    BY NewIdentityOK DEF NoIdentity, Statuses, Labels, Returned
  <2>2. QED BY <1>1, <1>2, <1>4, <2>1, HubCallOK DEF HubRemove
<1>5. CASE DocFind(o)
  <2>1. ControlOK'
    <3>1. PICK found \in Labels, notFound \in Labels :
            Goto(o, found) \/ Goto(o, notFound) \/ ReadFails(o, notFound)
      BY <1>5 DEF DocFind, Labels
    <3>2. QED BY <1>1, <1>5, <3>1, ReadOK DEF DocFind, task
  <2>2. doc' \in [Operators -> Keys \union {NoKey}]
    BY <1>5 DEF TypeOK, DocFind, DocIds
  <2>3. QED BY <1>5, <2>1, <2>2 DEF TypeOK, ControlOK, DocFind, stores, task
<1>6. CASE DocDelete(o)
  <2>1. /\ doc[o] \in Keys \union {NoKey}
        /\ Absent \in Enabled \union {Absent}
        /\ "simRemove" \in Labels /\ "undoRemove" \in Labels
    BY DEF TypeOK, Labels
  <2>2. CASE DocCall(o, "docDelete", doc[o], Absent, "simRemove", "undoRemove")
    BY <1>1, <2>1, <2>2, DocCallOK
  <2>3. CASE Goto(o, "undoRemove") /\ UNCHANGED <<stores, task, memory>>
    <3>1. ControlOK'
      BY <1>1, <2>1, <2>3, GotoOK DEF task
    <3>2. QED BY <2>3, <3>1 DEF TypeOK, ControlOK, stores, task, memory
  <2>4. QED BY <1>6, <2>2, <2>3 DEF DocDelete
<1>7. CASE SimRemove(o)
  <2>1. NoKey \in Keys \union {NoKey} /\ "ok" \in Labels /\ "rulesRemove" \in Labels
    BY DEF Labels, Returned
  <2>2. QED BY <1>1, <1>7, <2>1, SimCallOK DEF SimRemove
<1>8. CASE RulesRemove(o)
  <2>1. ControlOK'
    BY <1>1, <1>8, GotoOK, GotoAfterFaultOK DEF RulesRemove, RulesRefused, MayFail, Labels, Returned, task
  <2>2. rules' \subseteq Devices
    BY <1>8 DEF TypeOK, RulesRemove, RulesRefused
  <2>3. QED BY <1>8, <2>1, <2>2 DEF TypeOK, ControlOK, RulesRemove, task, memory
<1>9. CASE UndoRemove(o)
  <2>1. Identity(key[o], status[o]) \in IdentityRecord
    BY NewIdentityOK DEF TypeOK
  <2>2. "failed" \in Labels
    BY DEF Labels, Returned
  <2>3. QED BY <1>1, <1>2, <1>9, <2>1, <2>2, HubCallOK DEF UndoRemove
<1>10. QED BY <1>3, <1>4, <1>5, <1>6, <1>7, <1>8, <1>9

LEMMA ReadStatusOK ==
    ASSUME TypeOK, NEW o \in Operators, pc[o] \notin Returned, NEW next \in Labels,
           ReadStatus(o, next), UNCHANGED dev
    PROVE  ControlOK' /\ identity' \in [Devices -> IdentityRecord]
<1>1. dev[o] \in Devices /\ ControlOK
  BY DEF TypeOK, ControlOK
<1>2. ControlOK'
  BY <1>1, GetOK DEF ReadStatus
<1>3. identity' = [identity EXCEPT ![dev[o]].readers = @ \union {o}] \/ UNCHANGED identity
  BY DEF ReadStatus
<1>4. ASSUME NEW d \in Devices, NEW r \in SUBSET Operators
      PROVE  [identity[d] EXCEPT !.readers = r] \in IdentityRecord
  BY SetFieldOK DEF TypeOK, Statuses, Tags
<1>5. /\ identity \in [Devices -> IdentityRecord]
      /\ identity[dev[o]].readers \union {o} \in SUBSET Operators
  BY <1>1 DEF TypeOK, IdentityRecord
<1>6. CASE identity' = [identity EXCEPT ![dev[o]].readers = @ \union {o}]
  <2> DEFINE i == [identity[dev[o]] EXCEPT !.readers = @ \union {o}]
  <2>1. i \in IdentityRecord
    BY <1>1, <1>4, <1>5
  <2>2. identity' = [identity EXCEPT ![dev[o]] = i]
    BY <1>6
  <2> HIDE DEF i
  <2>3. QED BY <1>1, <1>2, <1>5, <2>1, <2>2
<1>7. QED BY <1>2, <1>3, <1>5, <1>6

LEMMA WriteStatusOK ==
    ASSUME TypeOK, NEW o \in Operators, pc[o] \notin Returned, NEW s \in Statuses,
           NEW ok \in Labels, NEW err \in Labels, WriteStatus(o, s, ok, err)
    PROVE  TypeOK'
<1> DEFINE accepts == Present(dev[o]) /\ o \in identity[dev[o]].readers
           effect  == [identity[dev[o]] EXCEPT !.status = s, !.readers = {}]
<1>1. dev[o] \in Devices
  BY DEF TypeOK
<1>2. identity[dev[o]] \in IdentityRecord /\ {} \in SUBSET Operators /\ "none" \in Tags
  BY <1>1 DEF TypeOK, Tags
<1>3. effect \in IdentityRecord
  BY <1>2, SetFieldOK
<1>4. accepts \in BOOLEAN
  BY DEF Present
<1>5. HubCall(o, "hubUpdate", accepts, effect, ok, err)
  BY DEF WriteStatus
<1> HIDE DEF accepts, effect
<1>6. QED BY <1>3, <1>4, <1>5, HubCallOK

LEMMA StatusStepOK ==
    ASSUME TypeOK, NEW o \in Operators,
           StatusGet(o) \/ StatusSet(o) \/ KeysGet(o) \/ UndoGet(o) \/ UndoSet(o)
    PROVE  TypeOK'
<1>1. dev[o] \in Devices /\ ControlOK /\ pc[o] \notin Returned
  BY DEF TypeOK, ControlOK, StatusGet, StatusSet, KeysGet, UndoGet, UndoSet, At, Returned
<1>2. {"statusSet", "undoSet", "docFind", "failed", "ok", "simSave"} \subseteq Labels
  BY DEF Labels, Returned
<1>3. identity[dev[o]].status \in Statuses /\ identity[dev[o]].key \in Keys \union {NoKey}
  BY <1>1 DEF TypeOK, IdentityRecord
<1>4. CASE StatusGet(o)
  <2>1. ControlOK' /\ identity' \in [Devices -> IdentityRecord]
    BY <1>1, <1>2, <1>4, ReadStatusOK DEF StatusGet, task
  <2>2. QED BY <1>4, <2>1 DEF TypeOK, ControlOK, StatusGet, task, memory
<1>5. CASE StatusSet(o)
  BY <1>1, <1>2, <1>5, WriteStatusOK DEF StatusSet, Wanted, Statuses
<1>6. CASE KeysGet(o)
  <2>1. ControlOK'
    BY <1>1, <1>2, <1>6, GotoOK, GotoAfterFaultOK DEF KeysGet, MayFail, task
  <2>2. key' \in [Operators -> Keys \union {NoKey}]
    BY <1>3, <1>6 DEF TypeOK, KeysGet
  <2>3. QED BY <1>6, <2>1, <2>2 DEF TypeOK, ControlOK, KeysGet, stores, task
<1>7. CASE UndoGet(o)
  <2>1. ControlOK' /\ identity' \in [Devices -> IdentityRecord]
    BY <1>1, <1>2, <1>7, ReadStatusOK DEF UndoGet, task
  <2>2. QED BY <1>7, <2>1 DEF TypeOK, ControlOK, UndoGet, task, memory
<1>8. CASE UndoSet(o)
  BY <1>1, <1>2, <1>8, WriteStatusOK DEF UndoSet, Opposite, Statuses
<1>9. QED BY <1>4, <1>5, <1>6, <1>7, <1>8

LEMMA UpdateStepOK ==
    ASSUME TypeOK, NEW o \in Operators, DocRead(o) \/ DocExists(o) \/ TwinSync(o)
    PROVE  TypeOK'
<1>1. dev[o] \in Devices /\ ControlOK /\ pc[o] \notin Returned
  BY DEF TypeOK, ControlOK, DocRead, DocExists, TwinSync, At, Returned
<1>2. {"docExists", "docSave", "ok", "failed"} \subseteq Labels
  BY DEF Labels, Returned
<1>3. CASE DocRead(o)
  <2>1. ControlOK'
    BY <1>1, <1>2, <1>3, ReadOK DEF DocRead, task
  <2>2. doc' \in [Operators -> Keys \union {NoKey}] /\ enabled' \in [Operators -> Enabled]
    BY <1>1, <1>3 DEF TypeOK, DocRead, DocIds
  <2>3. QED BY <1>3, <2>1, <2>2 DEF TypeOK, ControlOK, DocRead, stores, task
<1>4. CASE DocExists(o)
  <2>1. ControlOK'
    BY <1>1, <1>2, <1>4, ReadOK DEF DocExists, task
  <2>2. QED BY <1>4, <2>1 DEF TypeOK, ControlOK, DocExists, stores, task, memory
<1>5. CASE TwinSync(o)
  <2>1. ControlOK'
    BY <1>1, <1>2, <1>5, GotoOK DEF TwinSync, task
  <2>2. QED BY <1>5, <2>1 DEF TypeOK, ControlOK, TwinSync, stores, task, memory
<1>6. QED BY <1>3, <1>4, <1>5

LEMMA NextOK == TypeOK /\ [Next]_vars => TypeOK'
<1> SUFFICES ASSUME TypeOK, [Next]_vars PROVE TypeOK'
  OBVIOUS
<1>1. ASSUME NEW o \in Operators, Begin(o) \/ Step(o) \/ Crash(o) PROVE TypeOK'
  BY <1>1, BeginOK, CrashOK, AddStepOK, RemoveStepOK, StatusStepOK, UpdateStepOK DEF Step
<1>2. ASSUME NEW d \in Devices, SaveRule(d) PROVE TypeOK'
  BY <1>2 DEF SaveRule, TypeOK, task, memory, control
<1>3. CASE UNCHANGED vars
  BY <1>3 DEF TypeOK, vars, stores, task, memory, control
<1>4. QED BY <1>1, <1>2, <1>3 DEF Next

(* Every store and every operation's locals keep values of their kind, for  *)
(* any number of devices, operators, retries and failures.                  *)
THEOREM TypeCorrect == Spec => []TypeOK
BY InitOK, NextOK, PTL DEF Spec

-----------------------------------------------------------------------------
(* Hub first: the inductive invariant behind RegisteredHasIdentity          *)

\* no operation removes a device, and the failures that separate a saved
\* document from its identity do not happen
HubFirst == "remove" \notin Kinds /\ Faults \intersect OrderBreakers = {}

\* which operation makes which call
CallsOfKind(o) ==
    /\ pc[o] \in {"validate", "hubAdd", "hubTwin", "docCheck", "undoAdd"} => kind[o] \in AddKinds
    /\ pc[o] \in {"statusGet", "statusSet", "docFind", "keysGet", "simRemove", "undoGet", "undoSet"}
         => kind[o] \in StatusKinds
    /\ pc[o] \in {"docRead", "docExists"} => kind[o] \in SaveKinds
    /\ pc[o] \in {"tag", "simSave"} => kind[o] \in AddKinds \union StatusKinds
    /\ pc[o] = "docSave" => kind[o] \in AddKinds \union StatusKinds \union SaveKinds
    /\ pc[o] \notin {"hubGet", "hubRemove", "docDelete", "rulesRemove", "undoRemove"}

\* an Add that has not saved its document has none in the registry, and from
\* its hub call on owns the identity
AddOwns(o) ==
    kind[o] \in AddKinds =>
      /\ pc[o] \in {"validate", "hubAdd", "hubTwin", "docCheck", "docSave", "undoAdd"}
           => docs[dev[o]][key[o]] = Absent
      /\ pc[o] \in {"hubTwin", "docCheck", "docSave", "undoAdd"} => identity[dev[o]].key = key[o]
      /\ pc[o] \in {"tag", "simSave"} => docs[dev[o]][key[o]] # Absent

\* what the other operations read of the registry stays there
ReaderKnows(o) ==
    kind[o] \notin AddKinds =>
      /\ pc[o] \in {"docExists", "docSave", "tag", "keysGet"} =>
           doc[o] \in Keys /\ docs[dev[o]][doc[o]] # Absent
      /\ pc[o] = "simSave" => key[o] \in Keys /\ docs[dev[o]][key[o]] # Absent

Local(o) == CallsOfKind(o) /\ AddOwns(o) /\ ReaderKnows(o)

\* the keys an Add generates are new: no other Add has them, no document yet
FreshKeys ==
    /\ \A o \in Operators : kind[o] \in AddKinds => key[o] \in 1 .. started
    /\ \A o, p \in Operators :
         kind[o] \in AddKinds /\ kind[p] \in AddKinds /\ key[o] = key[p] => o = p
    /\ \A d \in Devices, k \in Keys : docs[d][k] # Absent => k <= started

SimulatorIsRegistered ==
    \A d \in Devices : sim[d] # NoKey => docs[d][sim[d]] # Absent

HubFirstInv ==
    /\ TypeOK
    /\ FreshKeys
    /\ RegisteredHasIdentity
    /\ SimulatorIsRegistered
    /\ \A o \in Operators : Local(o)

LEMMA HubFirstImplies == HubFirstInv => RegisteredHasIdentity /\ SimulatorKeyIsHubKey
BY DEF HubFirstInv, TypeOK, RegisteredHasIdentity, SimulatorKeyIsHubKey, SimulatorIsRegistered

LEMMA HubFirstInit == Init => HubFirstInv
<1> SUFFICES ASSUME Init PROVE HubFirstInv
  OBVIOUS
<1>1. TypeOK
  BY InitOK
<1>2. FreshKeys
  BY ConstantsAssumption DEF Init, FreshKeys, AddKinds, Absent, Keys
<1>3. RegisteredHasIdentity
  BY DEF Init, RegisteredHasIdentity, Identity, Absent
<1>4. SimulatorIsRegistered
  BY ConstantsAssumption DEF Init, SimulatorIsRegistered, Absent, Keys, NoKey
<1>5. ASSUME NEW o \in Operators PROVE Local(o)
  BY DEF Init, Local, CallsOfKind, AddOwns, ReaderKnows
<1>6. QED BY <1>1, <1>2, <1>3, <1>4, <1>5 DEF HubFirstInv

\* only operator o's operation changes, and it stays the same operation
OnlyOperator(o) ==
    /\ \A p \in Operators \ {o} : pc'[p] = pc[p] /\ key'[p] = key[p] /\ doc'[p] = doc[p]
    /\ UNCHANGED <<kind, dev, started>>
    /\ kind[o] \in AddKinds => key'[o] = key[o]

\* which documents exist and which keys the hub has do not change
SameRegistry ==
    /\ \A d \in Devices, k \in Keys : docs'[d][k] = Absent <=> docs[d][k] = Absent
    /\ \A d \in Devices : identity'[d].key = identity[d].key

LEMMA KeptStep ==
    ASSUME HubFirstInv, TypeOK', NEW o \in Operators, OnlyOperator(o), SameRegistry,
           UNCHANGED sim, Local(o)'
    PROVE  HubFirstInv'
<1>1. FreshKeys'
  BY DEF HubFirstInv, FreshKeys, OnlyOperator, SameRegistry
<1>2. RegisteredHasIdentity'
  BY DEF HubFirstInv, RegisteredHasIdentity, SameRegistry
<1>3. SimulatorIsRegistered'
  BY DEF HubFirstInv, TypeOK, SimulatorIsRegistered, SameRegistry
<1>4. ASSUME NEW p \in Operators, p # o PROVE Local(p)'
  <2>1. Local(p) /\ (pc[p] \notin Returned => dev[p] \in Devices) /\ key[p] \in Keys \union {NoKey}
    BY DEF HubFirstInv, TypeOK
  <2>2. kind[p] \in AddKinds => key[p] \in Keys
    BY ConstantsAssumption DEF HubFirstInv, TypeOK, FreshKeys, Keys
  <2>3. CallsOfKind(p)'
    BY <1>4, <2>1 DEF Local, CallsOfKind, OnlyOperator
  <2>4. AddOwns(p)'
    BY <1>4, <2>1, <2>2 DEF Local, AddOwns, OnlyOperator, SameRegistry, Returned
  <2>5. ReaderKnows(p)'
    BY <1>4, <2>1 DEF Local, ReaderKnows, OnlyOperator, SameRegistry, Returned
  <2>6. QED BY <2>3, <2>4, <2>5 DEF Local
<1>5. QED BY <1>1, <1>2, <1>3, <1>4 DEF HubFirstInv

(* What each kind of call may have done when the step is over               *)

LEMMA MovesOnly ==
    ASSUME TypeOK, NEW o \in Operators, NEW label,
           Goto(o, label) \/ GotoAfterFault(o, label) \/ Retry(o), UNCHANGED <<task, memory>>
    PROVE  OnlyOperator(o) /\ pc'[o] \in {label, pc[o]} /\ (~Retry(o) => pc'[o] = label)
BY DEF TypeOK, OnlyOperator, Goto, GotoAfterFault, Retry, task, memory

LEMMA HubCallDoes ==
    ASSUME TypeOK, NEW o \in Operators, NEW call, NEW accepts, NEW effect, NEW ok, NEW err,
           HubCall(o, call, accepts, effect, ok, err)
    PROVE  /\ OnlyOperator(o) /\ UNCHANGED <<docs, sim>>
           /\ \/ accepts /\ SetIdentity(dev[o], effect) /\ pc'[o] = ok
              \/ /\ accepts /\ SetIdentity(dev[o], effect) /\ pc'[o] \in {err, pc[o]}
                 /\ <<call, "lost">> \in Faults
              \/ UNCHANGED identity /\ pc'[o] \in {err, pc[o]}
<1>1. UNCHANGED <<docs, sim, task, memory>>
  BY DEF HubCall
<1>2. CASE accepts /\ SetIdentity(dev[o], effect) /\ Goto(o, ok)
  BY <1>1, <1>2, MovesOnly DEF Goto, TypeOK
<1>3. CASE Goto(o, err) /\ UNCHANGED identity
  BY <1>1, <1>3, MovesOnly
<1>4. ASSUME NEW f \in {"transient", "permanent", "lost"}, MayFail(o, call, f),
             IF f = "lost" /\ accepts THEN SetIdentity(dev[o], effect) ELSE UNCHANGED identity,
             Retry(o) \/ GotoAfterFault(o, err)
      PROVE  /\ OnlyOperator(o)
             /\ \/ /\ accepts /\ SetIdentity(dev[o], effect) /\ pc'[o] \in {err, pc[o]}
                   /\ <<call, "lost">> \in Faults
                \/ UNCHANGED identity /\ pc'[o] \in {err, pc[o]}
  BY <1>1, <1>4, MovesOnly DEF MayFail
<1>5. QED BY <1>1, <1>2, <1>3, <1>4 DEF HubCall

TwinCallDone(o, call, ok, err) ==
    /\ OnlyOperator(o) /\ SameRegistry /\ UNCHANGED <<docs, sim, doc>>
    /\ \/ pc'[o] = ok
       \/ /\ pc'[o] = err
          /\ Present(dev[o]) => {<<call, "permanent">>, <<call, "lost">>} \intersect Faults # {}

LEMMA TwinCallDoes ==
    ASSUME TypeOK, NEW o \in Operators, pc[o] \notin Returned, NEW call, NEW effect, NEW ok, NEW err,
           effect.key = identity[dev[o]].key,
           TwinCall(o, call, effect, ok, err)
    PROVE  TwinCallDone(o, call, ok, err)
<1>1. UNCHANGED <<docs, sim, doc, task, memory>>
  BY DEF TwinCall, memory
<1>2. SetIdentity(dev[o], effect) \/ UNCHANGED identity
  BY DEF TwinCall
<1>3. SameRegistry
  BY <1>1, <1>2 DEF TypeOK, SameRegistry, SetIdentity
<1>4. CASE Goto(o, ok)
  BY <1>1, <1>3, <1>4, MovesOnly DEF Goto, TypeOK, TwinCallDone
<1>5. CASE ~Present(dev[o]) /\ Goto(o, err)
  BY <1>1, <1>3, <1>5, MovesOnly DEF Goto, TypeOK, TwinCallDone
<1>6. CASE /\ {<<call, "permanent">>, <<call, "lost">>} \intersect Faults # {}
           /\ GotoAfterFault(o, err)
  BY <1>1, <1>3, <1>6, MovesOnly DEF GotoAfterFault, TypeOK, TwinCallDone
<1>7. QED BY <1>4, <1>5, <1>6 DEF TwinCall, MayFail

DocCallDone(o, call, id, value, ok, err) ==
    /\ OnlyOperator(o) /\ UNCHANGED <<identity, sim, doc>>
    /\ \/ docs' = [docs EXCEPT ![dev[o]][id] = value] /\ pc'[o] = ok
       \/ UNCHANGED docs /\ pc'[o] = err
       \/ /\ docs' = [docs EXCEPT ![dev[o]][id] = value] /\ pc'[o] = err
          /\ <<call, "lost">> \in Faults

LEMMA DocCallDoes ==
    ASSUME TypeOK, NEW o \in Operators, NEW call, NEW id, NEW value, NEW ok, NEW err,
           DocCall(o, call, id, value, ok, err)
    PROVE  DocCallDone(o, call, id, value, ok, err)
<1>1. UNCHANGED <<identity, sim, doc, task, memory>>
  BY DEF DocCall, memory
<1>2. CASE docs' = [docs EXCEPT ![dev[o]][id] = value] /\ Goto(o, ok)
  BY <1>1, <1>2, MovesOnly DEF Goto, TypeOK, DocCallDone
<1>3. CASE UNCHANGED docs /\ GotoAfterFault(o, err)
  BY <1>1, <1>3, MovesOnly DEF GotoAfterFault, TypeOK, DocCallDone
<1>4. CASE /\ docs' = [docs EXCEPT ![dev[o]][id] = value]
           /\ <<call, "lost">> \in Faults /\ GotoAfterFault(o, err)
  BY <1>1, <1>4, MovesOnly DEF GotoAfterFault, TypeOK, DocCallDone
<1>5. QED BY <1>1, <1>2, <1>3, <1>4 DEF DocCall, MayFail

LEMMA SimCallDoes ==
    ASSUME TypeOK, NEW o \in Operators, NEW k, NEW next, SimCall(o, k, next)
    PROVE  /\ OnlyOperator(o) /\ UNCHANGED <<identity, docs>> /\ pc'[o] = next
           /\ sim' = [sim EXCEPT ![dev[o]] = k] \/ UNCHANGED sim
<1>1. UNCHANGED <<identity, docs, task, memory>>
  BY DEF SimCall
<1>2. sim' = [sim EXCEPT ![dev[o]] = k] \/ UNCHANGED sim
  BY DEF SimCall
<1>3. Goto(o, next) \/ GotoAfterFault(o, next)
  BY DEF SimCall
<1>4. OnlyOperator(o) /\ pc'[o] = next
  BY <1>1, <1>3, MovesOnly DEF Goto, GotoAfterFault, TypeOK
<1>5. QED BY <1>1, <1>2, <1>4

(* The steps that change what the registry, the hub or the simulator knows  *)

\* the invariant as it concerns one operation under way
LEMMA HubFirstAt ==
    ASSUME HubFirst, HubFirstInv, NEW o \in Operators, pc[o] \notin Returned
    PROVE  /\ TypeOK /\ Local(o) /\ dev[o] \in Devices
           /\ kind[o] \in (AllKinds \ {"remove"}) \union {"none"}
           /\ kind[o] \in AddKinds => key[o] \in Keys /\ key[o] # NoKey /\ key[o] \in 1 .. started
           /\ started \in Nat
<1>1. TypeOK /\ Local(o) /\ dev[o] \in Devices
  BY DEF HubFirstInv, TypeOK
<1>2. kind[o] \in (AllKinds \ {"remove"}) \union {"none"}
  BY <1>1, ConstantsAssumption DEF HubFirst, TypeOK
<1>3. started \in 0 .. MaxOps /\ MaxOps \in Nat
  BY <1>1, ConstantsAssumption DEF TypeOK
<1>4. kind[o] \in AddKinds => key[o] \in 1 .. started
  BY DEF HubFirstInv, FreshKeys
<1>5. kind[o] \in AddKinds => key[o] \in Keys /\ key[o] # NoKey
  BY <1>3, <1>4 DEF Keys, NoKey
<1>6. QED BY <1>1, <1>2, <1>3, <1>4, <1>5

LEMMA CreatedStep ==
    ASSUME HubFirst, HubFirstInv, TypeOK', NEW o \in Operators, At(o, "hubAdd"),
           OnlyOperator(o), UNCHANGED <<docs, sim>>,
           ~Present(dev[o]), SetIdentity(dev[o], Identity(key[o], "enabled")),
           pc'[o] \in {"hubAdd", "hubTwin", "docCheck", "failed"}
    PROVE  HubFirstInv'
<1>1. /\ TypeOK /\ Local(o) /\ dev[o] \in Devices
      /\ kind[o] \in AddKinds /\ key[o] \in Keys /\ key[o] # NoKey
  BY HubFirstAt DEF At, Returned, Local, CallsOfKind
<1>2. /\ identity[dev[o]].key = NoKey /\ identity'[dev[o]].key = key[o]
      /\ \A d \in Devices \ {dev[o]} : identity'[d] = identity[d]
  BY <1>1 DEF Present, SetIdentity, TypeOK, Identity
<1>3. \A k \in Keys : docs[dev[o]][k] = Absent
  BY <1>1, <1>2 DEF HubFirstInv, RegisteredHasIdentity, Keys, NoKey
<1>4. FreshKeys'
  BY DEF HubFirstInv, FreshKeys, OnlyOperator
<1>5. RegisteredHasIdentity'
  BY <1>2, <1>3 DEF HubFirstInv, RegisteredHasIdentity
<1>6. SimulatorIsRegistered'
  BY DEF HubFirstInv, SimulatorIsRegistered
<1>7. Local(o)'
  BY <1>1, <1>2 DEF Local, CallsOfKind, AddOwns, ReaderKnows, OnlyOperator, At
<1>8. ASSUME NEW p \in Operators, p # o PROVE Local(p)'
  <2>1. /\ Local(p) /\ pc'[p] = pc[p] /\ kind'[p] = kind[p] /\ dev'[p] = dev[p]
        /\ key'[p] = key[p] /\ doc'[p] = doc[p]
        /\ kind[p] \in AddKinds => key[p] # NoKey
    BY <1>8 DEF OnlyOperator, HubFirstInv, FreshKeys, NoKey, TypeOK
  <2>2. CallsOfKind(p)' /\ ReaderKnows(p)'
    BY <2>1 DEF Local, CallsOfKind, ReaderKnows
  <2>3. pc[p] \in {"hubTwin", "docCheck", "docSave", "undoAdd"} => dev[p] \in Devices
    BY <1>1 DEF TypeOK, Returned
  <2>4. AddOwns(p)'
    BY <1>2, <2>1, <2>3 DEF Local, AddOwns
  <2>5. QED BY <2>2, <2>4 DEF Local
<1>9. QED BY <1>4, <1>5, <1>6, <1>7, <1>8 DEF HubFirstInv

LEMMA SavedStep ==
    ASSUME HubFirst, HubFirstInv, TypeOK', NEW o \in Operators, At(o, "docSave"),
           kind[o] \in AddKinds, OnlyOperator(o), UNCHANGED <<identity, sim>>,
           NEW value \in NewEnabled,
           docs' = [docs EXCEPT ![dev[o]][key[o]] = value], pc'[o] = "tag"
    PROVE  HubFirstInv'
<1>0. pc[o] \notin Returned
  BY DEF At, Returned
<1>1. /\ TypeOK /\ Local(o) /\ dev[o] \in Devices
      /\ key[o] \in Keys /\ key[o] \in 1 .. started /\ started \in Nat
  BY <1>0, HubFirstAt
<1>2. /\ docs'[dev[o]][key[o]] # Absent
      /\ \A d \in Devices, k \in Keys : <<d, k>> # <<dev[o], key[o]>> => docs'[d][k] = docs[d][k]
  BY <1>1 DEF TypeOK, Absent, NewEnabled
<1>3. \A d \in Devices, k \in Keys : docs[d][k] # Absent => docs'[d][k] # Absent
  BY <1>2
<1>4. FreshKeys'
  BY <1>1, <1>2 DEF HubFirstInv, FreshKeys, OnlyOperator
<1>5. RegisteredHasIdentity'
  BY <1>1, <1>2 DEF HubFirstInv, RegisteredHasIdentity, Local, AddOwns, At
<1>6. SimulatorIsRegistered'
  BY <1>3 DEF HubFirstInv, SimulatorIsRegistered, TypeOK
<1>7. Local(o)'
  BY <1>1, <1>2 DEF Local, CallsOfKind, AddOwns, ReaderKnows, OnlyOperator, At
<1>8. ASSUME NEW p \in Operators, p # o PROVE Local(p)'
  <2>1. /\ Local(p) /\ pc'[p] = pc[p] /\ kind'[p] = kind[p] /\ dev'[p] = dev[p]
        /\ key'[p] = key[p] /\ doc'[p] = doc[p]
        /\ pc[p] \notin Returned => dev[p] \in Devices
    BY <1>8 DEF OnlyOperator, HubFirstInv, TypeOK
  <2>2. kind[p] \in AddKinds => key[p] \in Keys /\ key[p] # key[o]
    BY <1>1, <1>8, ConstantsAssumption DEF HubFirstInv, FreshKeys, Keys, TypeOK
  <2>3. CallsOfKind(p)'
    BY <2>1 DEF Local, CallsOfKind
  <2>4. AddOwns(p)'
    BY <1>2, <1>3, <2>1, <2>2 DEF Local, AddOwns, Returned
  <2>5. ReaderKnows(p)'
    BY <1>3, <2>1 DEF Local, ReaderKnows, Returned
  <2>6. QED BY <2>3, <2>4, <2>5 DEF Local
<1>9. QED BY <1>4, <1>5, <1>6, <1>7, <1>8 DEF HubFirstInv

LEMMA UndoneStep ==
    ASSUME HubFirst, HubFirstInv, TypeOK', NEW o \in Operators, At(o, "undoAdd"),
           OnlyOperator(o), UNCHANGED <<docs, sim>>, SetIdentity(dev[o], NoIdentity),
           pc'[o] = "failed"
    PROVE  HubFirstInv'
<1>1. /\ TypeOK /\ Local(o) /\ dev[o] \in Devices
      /\ kind[o] \in AddKinds /\ key[o] \in Keys
      /\ identity[dev[o]].key = key[o] /\ docs[dev[o]][key[o]] = Absent
  BY HubFirstAt DEF At, Returned, Local, CallsOfKind, AddOwns
<1>2. \A k \in Keys : docs[dev[o]][k] = Absent
  BY <1>1 DEF HubFirstInv, RegisteredHasIdentity
<1>3. \A d \in Devices \ {dev[o]} : identity'[d] = identity[d]
  BY <1>1 DEF SetIdentity, TypeOK
<1>4. FreshKeys'
  BY DEF HubFirstInv, FreshKeys, OnlyOperator
<1>5. RegisteredHasIdentity'
  BY <1>2, <1>3 DEF HubFirstInv, RegisteredHasIdentity
<1>6. SimulatorIsRegistered'
  BY DEF HubFirstInv, SimulatorIsRegistered
<1>7. Local(o)'
  BY <1>1 DEF Local, CallsOfKind, AddOwns, ReaderKnows, OnlyOperator
<1>8. ASSUME NEW p \in Operators, p # o PROVE Local(p)'
  <2>1. /\ Local(p) /\ pc'[p] = pc[p] /\ kind'[p] = kind[p] /\ dev'[p] = dev[p]
        /\ key'[p] = key[p] /\ doc'[p] = doc[p]
        /\ pc[p] \notin Returned => dev[p] \in Devices
    BY <1>8 DEF OnlyOperator, HubFirstInv, TypeOK
  <2>2. kind[p] \in AddKinds => key[p] # key[o]
    BY <1>1, <1>8 DEF HubFirstInv, FreshKeys
  <2>3. CallsOfKind(p)' /\ ReaderKnows(p)'
    BY <2>1 DEF Local, CallsOfKind, ReaderKnows
  <2>4. AddOwns(p)'
    BY <1>1, <1>3, <2>1, <2>2 DEF Local, AddOwns, Returned
  <2>5. QED BY <2>3, <2>4 DEF Local
<1>9. QED BY <1>4, <1>5, <1>6, <1>7, <1>8 DEF HubFirstInv

LEMMA SimStep ==
    ASSUME HubFirst, HubFirstInv, TypeOK', NEW o \in Operators, pc[o] \notin Returned,
           OnlyOperator(o), UNCHANGED <<identity, docs>>, pc'[o] = "ok",
           NEW k \in Keys \union {NoKey}, k # NoKey => docs[dev[o]][k] # Absent,
           sim' = [sim EXCEPT ![dev[o]] = k] \/ UNCHANGED sim
    PROVE  HubFirstInv'
<1>1. TypeOK /\ Local(o) /\ dev[o] \in Devices
  BY HubFirstAt
<1>2. FreshKeys' /\ RegisteredHasIdentity'
  BY DEF HubFirstInv, FreshKeys, RegisteredHasIdentity, OnlyOperator
<1>3. SimulatorIsRegistered'
  BY <1>1 DEF HubFirstInv, SimulatorIsRegistered, TypeOK
<1>4. Local(o)'
  BY DEF Local, CallsOfKind, AddOwns, ReaderKnows
<1>5. ASSUME NEW p \in Operators, p # o PROVE Local(p)'
  BY <1>5 DEF HubFirstInv, OnlyOperator, Local, CallsOfKind, AddOwns, ReaderKnows
<1>6. QED BY <1>2, <1>3, <1>4, <1>5 DEF HubFirstInv

(* One lemma per action or family of actions                                *)

LEMMA HubFirstAdd ==
    ASSUME HubFirst, HubFirstInv, TypeOK', NEW o \in Operators,
           Validate(o) \/ HubAdd(o) \/ HubTwin(o) \/ DocCheck(o) \/ UndoAdd(o)
    PROVE  HubFirstInv'
<1>1. /\ pc[o] \in {"validate", "hubAdd", "hubTwin", "docCheck", "undoAdd"}
      /\ pc[o] \notin Returned
  BY DEF Validate, HubAdd, HubTwin, DocCheck, UndoAdd, At, Returned
<1>2. /\ TypeOK /\ Local(o) /\ dev[o] \in Devices
      /\ kind[o] \in AddKinds /\ key[o] \in Keys /\ key[o] # NoKey
  BY <1>1, HubFirstAt DEF Local, CallsOfKind
<1>3. CASE Validate(o)
  <2>1. PICK label \in {"hubAdd", "failed"} : Goto(o, label) \/ GotoAfterFault(o, label)
    BY <1>3 DEF Validate, ReadFails
  <2>2. UNCHANGED <<stores, task, memory>>
    BY <1>3 DEF Validate
  <2>3. OnlyOperator(o) /\ pc'[o] = label
    BY <1>2, <2>1, <2>2, MovesOnly DEF Goto, GotoAfterFault, TypeOK
  <2>4. SameRegistry /\ UNCHANGED sim
    BY <2>2 DEF SameRegistry, stores
  <2>5. Local(o)'
    BY <1>2, <1>3, <2>1, <2>2, <2>3
       DEF Local, CallsOfKind, AddOwns, ReaderKnows, Validate, At, task, memory, stores
  <2>6. QED BY <2>3, <2>4, <2>5, KeptStep
<1>4. CASE HubAdd(o)
  <2>1. PICK next \in {"hubTwin", "docCheck"} :
          HubCall(o, "hubAdd", ~Present(dev[o]), Identity(key[o], "enabled"), next, "failed")
    BY <1>4 DEF HubAdd
  <2>2. /\ OnlyOperator(o) /\ UNCHANGED <<docs, sim>>
        /\ \/ /\ ~Present(dev[o]) /\ SetIdentity(dev[o], Identity(key[o], "enabled"))
              /\ pc'[o] \in {next, "failed", pc[o]}
           \/ UNCHANGED identity /\ pc'[o] \in {"failed", pc[o]}
    BY <1>2, <2>1, HubCallDoes
  <2>3. At(o, "hubAdd")
    BY <1>4 DEF HubAdd
  <2>4. CASE ~Present(dev[o]) /\ SetIdentity(dev[o], Identity(key[o], "enabled"))
    BY <2>2, <2>3, <2>4, CreatedStep DEF At
  <2>5. CASE UNCHANGED identity /\ pc'[o] \in {"failed", "hubAdd"}
    <3>1. SameRegistry
      BY <2>2, <2>5 DEF SameRegistry
    <3>2. Local(o)'
      BY <1>2, <2>2, <2>3, <2>5
         DEF Local, CallsOfKind, AddOwns, ReaderKnows, OnlyOperator, At
    <3>3. QED BY <2>2, <3>1, <3>2, KeptStep
  <2>6. QED BY <2>2, <2>3, <2>4, <2>5 DEF At
<1>5. CASE HubTwin(o)
  <2>1. /\ OnlyOperator(o) /\ SameRegistry /\ UNCHANGED <<docs, sim>>
        /\ pc'[o] \in {"docCheck", "failed"}
    BY <1>1, <1>2, <1>5, TwinCallDoes DEF HubTwin, TwinCallDone
  <2>2. Local(o)'
    BY <1>2, <1>5, <2>1
       DEF Local, CallsOfKind, AddOwns, ReaderKnows, OnlyOperator, SameRegistry, HubTwin, At
  <2>3. QED BY <2>1, <2>2, KeptStep
<1>6. CASE DocCheck(o)
  <2>1. PICK label \in {"docSave", "undoAdd"} : Goto(o, label) \/ GotoAfterFault(o, label)
    BY <1>6 DEF DocCheck, ReadFails
  <2>2. UNCHANGED <<stores, task, memory>>
    BY <1>6 DEF DocCheck
  <2>3. OnlyOperator(o) /\ pc'[o] = label
    BY <1>2, <2>1, <2>2, MovesOnly DEF Goto, GotoAfterFault, TypeOK
  <2>4. SameRegistry /\ UNCHANGED sim
    BY <2>2 DEF SameRegistry, stores
  <2>5. Local(o)'
    BY <1>2, <1>6, <2>1, <2>2, <2>3
       DEF Local, CallsOfKind, AddOwns, ReaderKnows, DocCheck, At, task, memory, stores
  <2>6. QED BY <2>3, <2>4, <2>5, KeptStep
<1>7. CASE UndoAdd(o)
  <2>1. <<"hubRemove", "lost">> \notin Faults
    BY DEF HubFirst, OrderBreakers
  <2>2. HubCall(o, "hubRemove", Present(dev[o]), NoIdentity, "failed", "failed") /\ At(o, "undoAdd")
    BY <1>7 DEF UndoAdd
  <2>3. /\ OnlyOperator(o) /\ UNCHANGED <<docs, sim>>
        /\ \/ SetIdentity(dev[o], NoIdentity) /\ pc'[o] = "failed"
           \/ UNCHANGED identity /\ pc'[o] \in {"failed", pc[o]}
    BY <1>2, <2>1, <2>2, HubCallDoes
  <2>4. CASE SetIdentity(dev[o], NoIdentity) /\ pc'[o] = "failed"
    BY <2>2, <2>3, <2>4, UndoneStep
  <2>5. CASE UNCHANGED identity /\ pc'[o] \in {"failed", pc[o]}
    <3>1. SameRegistry
      BY <2>3, <2>5 DEF SameRegistry
    <3>2. Local(o)'
      BY <1>2, <2>2, <2>3, <2>5
         DEF Local, CallsOfKind, AddOwns, ReaderKnows, OnlyOperator, At
    <3>3. QED BY <2>3, <3>1, <3>2, KeptStep
  <2>6. QED BY <2>3, <2>4, <2>5
<1>8. QED BY <1>3, <1>4, <1>5, <1>6, <1>7

LEMMA HubFirstDocSave ==
    ASSUME HubFirst, HubFirstInv, TypeOK', NEW o \in Operators, DocSave(o)
    PROVE  HubFirstInv'
<1>1. /\ TypeOK /\ Local(o) /\ dev[o] \in Devices /\ pc[o] = "docSave"
      /\ kind[o] \in AddKinds => key[o] \in Keys
  BY HubFirstAt DEF DocSave, At, Returned
<1>2. <<"docSave", "lost">> \notin Faults
  BY DEF HubFirst, OrderBreakers
<1>3. ASSUME Kind(o, AddKinds), NEW value \in NewEnabled,
             DocCall(o, "docSave", key[o], value, "tag", "undoAdd")
      PROVE  HubFirstInv'
  <2> DEFINE saved == [docs EXCEPT ![dev[o]][key[o]] = value]
  <2>1. /\ OnlyOperator(o) /\ UNCHANGED <<identity, sim>>
        /\ \/ docs' = saved /\ pc'[o] = "tag"
           \/ UNCHANGED docs /\ pc'[o] = "undoAdd"
    <3>1. TypeOK /\ DocCall(o, "docSave", key[o], value, "tag", "undoAdd")
      BY <1>1, <1>3
    <3>2. DocCallDone(o, "docSave", key[o], value, "tag", "undoAdd")
      BY <3>1, DocCallDoes
    <3>3. QED BY <1>2, <3>2 DEF DocCallDone
  <2>2. CASE docs' = saved /\ pc'[o] = "tag"
    BY <1>1, <1>3, <2>1, <2>2, SavedStep DEF Kind, At
  <2>3. CASE UNCHANGED docs /\ pc'[o] = "undoAdd"
    <3>1. SameRegistry
      BY <2>1, <2>3 DEF SameRegistry
    <3>2. Local(o)'
      BY <1>1, <1>3, <2>1, <2>3
         DEF Local, CallsOfKind, AddOwns, ReaderKnows, OnlyOperator, Kind
    <3>3. QED BY <2>1, <3>1, <3>2, KeptStep
  <2>4. QED BY <2>1, <2>2, <2>3
<1>4. ASSUME kind[o] \notin AddKinds,
             NEW value \in Enabled, NEW ok \in {"tag", "twinSync"}, NEW err \in {"undoGet", "failed"},
             ok = "tag" \/ err = "undoGet" => kind[o] \in StatusKinds,
             DocCall(o, "docSave", doc[o], value, ok, err)
      PROVE  HubFirstInv'
  <2>1. doc[o] \in Keys /\ docs[dev[o]][doc[o]] # Absent
    BY <1>1, <1>4 DEF Local, ReaderKnows
  <2>2. /\ OnlyOperator(o) /\ UNCHANGED <<identity, sim>>
        /\ docs' = [docs EXCEPT ![dev[o]][doc[o]] = value] \/ UNCHANGED docs
        /\ pc'[o] \in {ok, err}
        /\ UNCHANGED doc
    <3>1. DocCallDone(o, "docSave", doc[o], value, ok, err)
      BY <1>1, <1>4, DocCallDoes
    <3>2. QED BY <3>1 DEF DocCallDone
  <2>3. value # Absent
    BY <1>4 DEF Enabled, Absent
  <2>4. SameRegistry
    BY <1>1, <2>1, <2>2, <2>3 DEF SameRegistry, TypeOK
  <2>5. Local(o)'
    BY <1>1, <1>4, <2>1, <2>2, <2>4
       DEF Local, CallsOfKind, AddOwns, ReaderKnows, OnlyOperator, SameRegistry
  <2>6. QED BY <2>2, <2>4, <2>5, KeptStep
<1>5. enabled[o] \in Enabled /\ "on" \in Enabled /\ "off" \in Enabled
  BY <1>1 DEF TypeOK, Enabled
<1>6. {"enable", "disable"} = StatusKinds /\ {"enable", "disable", "save", "info"} \intersect AddKinds = {}
  BY DEF StatusKinds, AddKinds
<1>7. CASE Kind(o, {"enable"}) /\ DocCall(o, "docSave", doc[o], "on", "tag", "undoGet")
  BY <1>4, <1>5, <1>6, <1>7 DEF Kind
<1>8. CASE Kind(o, {"disable"}) /\ DocCall(o, "docSave", doc[o], "off", "tag", "undoGet")
  BY <1>4, <1>5, <1>6, <1>8 DEF Kind
<1>9. CASE Kind(o, {"save"}) /\ DocCall(o, "docSave", doc[o], enabled[o], "twinSync", "failed")
  BY <1>4, <1>5, <1>6, <1>9 DEF Kind
<1>10. CASE Kind(o, {"info"}) /\ DocCall(o, "docSave", doc[o], "on", "twinSync", "failed")
  BY <1>4, <1>5, <1>6, <1>10 DEF Kind
<1>11. QED BY <1>3, <1>7, <1>8, <1>9, <1>10 DEF DocSave

LEMMA HubFirstTag ==
    ASSUME HubFirst, HubFirstInv, TypeOK', NEW o \in Operators, Tag(o)
    PROVE  HubFirstInv'
<1> DEFINE effect == [identity[dev[o]] EXCEPT !.tag =
                        IF Kind(o, {"disable"}) THEN "Disabled" ELSE "Running"]
           err    == IF Kind(o, AddKinds) THEN "undoAdd" ELSE "undoGet"
<1>1. /\ TypeOK /\ Local(o) /\ dev[o] \in Devices /\ pc[o] = "tag" /\ pc[o] \notin Returned
      /\ kind[o] \in AddKinds => key[o] \in Keys /\ key[o] # NoKey
  BY HubFirstAt DEF Tag, At, Returned
<1>2. kind[o] \in AddKinds \union StatusKinds
  BY <1>1 DEF Local, CallsOfKind
<1>3. effect.key = identity[dev[o]].key
  BY <1>1 DEF TypeOK, IdentityRecord
<1>4. TwinCall(o, "tag", effect, AfterTag(o), err)
  BY DEF Tag
<1>5. {<<"tag", "permanent">>, <<"tag", "lost">>} \intersect Faults = {}
  BY DEF HubFirst, OrderBreakers
<1> HIDE DEF effect
<1>6. /\ OnlyOperator(o) /\ SameRegistry /\ UNCHANGED <<docs, sim>>
      /\ \/ pc'[o] = AfterTag(o)
         \/ pc'[o] = err /\ ~Present(dev[o])
      /\ UNCHANGED doc
  <2>1. TwinCallDone(o, "tag", AfterTag(o), err)
    BY <1>1, <1>3, <1>4, TwinCallDoes
  <2>2. /\ OnlyOperator(o) /\ SameRegistry /\ UNCHANGED <<docs, sim, doc>>
        /\ \/ pc'[o] = AfterTag(o)
           \/ /\ pc'[o] = err
              /\ Present(dev[o]) => {<<"tag", "permanent">>, <<"tag", "lost">>} \intersect Faults # {}
    BY <2>1 DEF TwinCallDone
  <2> HIDE DEF err
  <2>3. QED BY <1>5, <2>2
<1>7. kind[o] \in AddKinds => Present(dev[o])
  BY <1>1 DEF Local, AddOwns, HubFirstInv, RegisteredHasIdentity, Present
<1>8. /\ pc'[o] \in {"ok", "simSave", "keysGet", "simRemove", "undoGet"}
      /\ pc'[o] = "undoGet" => kind[o] \in StatusKinds
      /\ pc'[o] = "simSave" => kind[o] \in AddKinds
      /\ pc'[o] \in {"keysGet", "simRemove"} => kind[o] \in StatusKinds
  BY <1>2, <1>6, <1>7 DEF AfterTag, Kind, AddKinds, StatusKinds
<1>9. Local(o)'
  BY <1>1, <1>6, <1>8
     DEF Local, CallsOfKind, AddOwns, ReaderKnows, OnlyOperator, SameRegistry, AddKinds, StatusKinds
<1>10. QED BY <1>6, <1>9, KeptStep

LEMMA HubFirstSim ==
    ASSUME HubFirst, HubFirstInv, TypeOK', NEW o \in Operators, SimSave(o) \/ SimRemove(o)
    PROVE  HubFirstInv'
<1>1. /\ TypeOK /\ Local(o) /\ dev[o] \in Devices /\ pc[o] \notin Returned
      /\ kind[o] \in AddKinds => key[o] \in Keys
  BY HubFirstAt DEF SimSave, SimRemove, At, Returned
<1>2. CASE SimSave(o)
  <2>1. key[o] \in Keys /\ docs[dev[o]][key[o]] # Absent
    BY <1>1, <1>2 DEF Local, AddOwns, ReaderKnows, SimSave, At
  <2>2. /\ OnlyOperator(o) /\ UNCHANGED <<identity, docs>> /\ pc'[o] = "ok"
        /\ sim' = [sim EXCEPT ![dev[o]] = key[o]] \/ UNCHANGED sim
    BY <1>1, <1>2, SimCallDoes DEF SimSave
  <2>3. QED BY <1>1, <2>1, <2>2, SimStep
<1>3. CASE SimRemove(o)
  <2>1. kind[o] \in StatusKinds
    BY <1>1, <1>3 DEF Local, CallsOfKind, SimRemove, At
  <2>2. SimCall(o, NoKey, "ok")
    BY <1>3, <2>1 DEF SimRemove, Kind, StatusKinds
  <2>3. /\ OnlyOperator(o) /\ UNCHANGED <<identity, docs>> /\ pc'[o] = "ok"
        /\ sim' = [sim EXCEPT ![dev[o]] = NoKey] \/ UNCHANGED sim
    BY <1>1, <2>2, SimCallDoes
  <2>4. NoKey \in Keys \union {NoKey}
    OBVIOUS
  <2>5. QED BY <1>1, <2>3, <2>4, SimStep
<1>4. QED BY <1>2, <1>3

LEMMA ReadStatusDoes ==
    ASSUME TypeOK, NEW o \in Operators, dev[o] \in Devices, NEW next, ReadStatus(o, next),
           UNCHANGED <<docs, sim, task, key, doc>>
    PROVE  OnlyOperator(o) /\ SameRegistry /\ pc'[o] \in {next, "failed", pc[o]}
<1>1. SameRegistry
  <2>1. identity' = [identity EXCEPT ![dev[o]].readers = @ \union {o}] \/ UNCHANGED identity
    BY DEF ReadStatus
  <2>2. ASSUME NEW d \in Devices PROVE identity'[d].key = identity[d].key
    BY <2>1 DEF TypeOK, IdentityRecord
  <2>3. QED BY <2>2 DEF SameRegistry
<1>2. Goto(o, next) \/ Goto(o, "failed") \/ Retry(o) \/ GotoAfterFault(o, "failed")
  BY DEF ReadStatus, GetFails
<1>3. OnlyOperator(o) /\ pc'[o] \in {next, "failed", pc[o]}
  BY <1>2 DEF TypeOK, OnlyOperator, Goto, GotoAfterFault, Retry, task
<1>4. QED BY <1>1, <1>3

LEMMA WriteStatusDoes ==
    ASSUME TypeOK, NEW o \in Operators, dev[o] \in Devices, NEW s, NEW ok, NEW err,
           WriteStatus(o, s, ok, err)
    PROVE  /\ OnlyOperator(o) /\ SameRegistry /\ UNCHANGED <<docs, sim, doc>>
           /\ pc'[o] \in {ok, err, pc[o]}
<1> DEFINE accepts == Present(dev[o]) /\ o \in identity[dev[o]].readers
           effect  == [identity[dev[o]] EXCEPT !.status = s, !.readers = {}]
<1>1. effect.key = identity[dev[o]].key
  BY DEF TypeOK, IdentityRecord
<1>2. HubCall(o, "hubUpdate", accepts, effect, ok, err) /\ UNCHANGED doc
  BY DEF WriteStatus, HubCall, memory
<1> HIDE DEF accepts, effect
<1>3. /\ OnlyOperator(o) /\ UNCHANGED <<docs, sim>>
      /\ \/ SetIdentity(dev[o], effect) /\ pc'[o] \in {ok, err, pc[o]}
         \/ UNCHANGED identity /\ pc'[o] \in {ok, err, pc[o]}
  BY <1>2, HubCallDoes
<1>4. SameRegistry
  BY <1>1, <1>3 DEF SameRegistry, SetIdentity, TypeOK
<1>5. QED BY <1>2, <1>3, <1>4

LEMMA HubFirstStatus ==
    ASSUME HubFirst, HubFirstInv, TypeOK', NEW o \in Operators,
           StatusGet(o) \/ StatusSet(o) \/ UndoGet(o) \/ UndoSet(o)
    PROVE  HubFirstInv'
<1>1. /\ TypeOK /\ Local(o) /\ dev[o] \in Devices
      /\ pc[o] \in {"statusGet", "statusSet", "undoGet", "undoSet"}
  BY HubFirstAt DEF StatusGet, StatusSet, UndoGet, UndoSet, At, Returned
<1>2. kind[o] \in StatusKinds /\ kind[o] \notin AddKinds
  BY <1>1 DEF Local, CallsOfKind, StatusKinds, AddKinds
<1>3. /\ OnlyOperator(o) /\ SameRegistry /\ UNCHANGED sim
      /\ pc'[o] \in {"statusGet", "statusSet", "undoGet", "undoSet", "docFind", "failed"}
  <2>1. CASE StatusGet(o)
    BY <1>1, <2>1, ReadStatusDoes DEF StatusGet, At, memory
  <2>2. CASE StatusSet(o)
    BY <1>1, <2>2, WriteStatusDoes DEF StatusSet, At
  <2>3. CASE UndoGet(o)
    BY <1>1, <2>3, ReadStatusDoes DEF UndoGet, At, memory
  <2>4. CASE UndoSet(o)
    BY <1>1, <2>4, WriteStatusDoes DEF UndoSet, At
  <2>5. QED BY <2>1, <2>2, <2>3, <2>4
<1>4. Local(o)'
  BY <1>2, <1>3 DEF Local, CallsOfKind, AddOwns, ReaderKnows, OnlyOperator
<1>5. QED BY <1>3, <1>4, KeptStep

LEMMA HubFirstKeysGet ==
    ASSUME HubFirst, HubFirstInv, TypeOK', NEW o \in Operators, KeysGet(o)
    PROVE  HubFirstInv'
<1>1. /\ TypeOK /\ Local(o) /\ dev[o] \in Devices /\ pc[o] = "keysGet"
  BY HubFirstAt DEF KeysGet, At, Returned
<1>2. kind[o] \in StatusKinds /\ kind[o] \notin AddKinds
  BY <1>1 DEF Local, CallsOfKind, StatusKinds, AddKinds
<1>3. doc[o] \in Keys /\ docs[dev[o]][doc[o]] # Absent /\ identity[dev[o]].key = doc[o]
  BY <1>1, <1>2 DEF Local, ReaderKnows, HubFirstInv, RegisteredHasIdentity
<1>4. OnlyOperator(o) /\ SameRegistry /\ UNCHANGED <<docs, sim>>
  BY <1>2 DEF KeysGet, OnlyOperator, SameRegistry, TypeOK, HubFirstInv, Goto, GotoAfterFault, stores, task
<1>5. \/ pc'[o] = "simSave" /\ key'[o] = identity[dev[o]].key
      \/ pc'[o] = "ok"
  BY <1>1 DEF KeysGet, TypeOK, Goto, GotoAfterFault
<1>6. Local(o)'
  BY <1>2, <1>3, <1>4, <1>5 DEF Local, CallsOfKind, AddOwns, ReaderKnows, OnlyOperator
<1>7. QED BY <1>4, <1>6, KeptStep

LEMMA HubFirstRead ==
    ASSUME HubFirst, HubFirstInv, TypeOK', NEW o \in Operators,
           DocFind(o) \/ DocRead(o) \/ DocExists(o)
    PROVE  HubFirstInv'
<1>1. /\ TypeOK /\ Local(o) /\ dev[o] \in Devices
      /\ pc[o] \in {"docFind", "docRead", "docExists"}
  BY HubFirstAt DEF DocFind, DocRead, DocExists, At, Returned
<1>2. /\ pc[o] = "docFind" => kind[o] \in StatusKinds
      /\ kind[o] \in StatusKinds \union SaveKinds
        \/ (pc[o] = "docExists" /\ kind[o] \notin AddKinds)
      /\ kind[o] \notin AddKinds
  BY <1>1 DEF Local, CallsOfKind, StatusKinds, SaveKinds, AddKinds
<1>3. OnlyOperator(o) /\ SameRegistry /\ UNCHANGED <<docs, sim>>
  BY <1>1, <1>2 DEF DocFind, DocRead, DocExists, OnlyOperator, SameRegistry, TypeOK,
     ReadFails, Goto, GotoAfterFault, stores, task, memory
<1>4. CASE DocFind(o)
  <2>1. kind[o] # "remove" /\ kind[o] \in StatusKinds
    BY <1>1, <1>2, <1>4 DEF StatusKinds, DocFind, At
  <2>2. \/ pc'[o] = "docSave" /\ doc'[o] \in DocIds(dev[o])
        \/ pc'[o] = "undoGet"
    BY <1>1, <1>4, <2>1 DEF DocFind, TypeOK, ReadFails, Goto, GotoAfterFault, Kind
  <2>3. Local(o)'
    BY <1>2, <1>3, <2>1, <2>2
       DEF Local, CallsOfKind, AddOwns, ReaderKnows, OnlyOperator, DocIds
  <2>4. QED BY <1>3, <2>3, KeptStep
<1>5. CASE DocRead(o)
  <2>1. kind[o] \in SaveKinds
    BY <1>1, <1>5 DEF Local, CallsOfKind, DocRead, At
  <2>2. \/ pc'[o] = "docExists" /\ doc'[o] \in DocIds(dev[o])
        \/ pc'[o] = "failed"
    BY <1>1, <1>5 DEF DocRead, TypeOK, ReadFails, Goto, GotoAfterFault
  <2>3. Local(o)'
    BY <1>2, <1>3, <2>1, <2>2
       DEF Local, CallsOfKind, AddOwns, ReaderKnows, OnlyOperator, DocIds
  <2>4. QED BY <1>3, <2>3, KeptStep
<1>6. CASE DocExists(o)
  <2>1. kind[o] \in SaveKinds /\ pc[o] = "docExists"
    BY <1>1, <1>6 DEF Local, CallsOfKind, DocExists, At
  <2>2. pc'[o] \in {"docSave", "failed"} /\ UNCHANGED doc
    BY <1>1, <1>6 DEF DocExists, TypeOK, ReadFails, Goto, GotoAfterFault, memory
  <2>3. Local(o)'
    BY <1>1, <1>2, <1>3, <2>1, <2>2
       DEF Local, CallsOfKind, AddOwns, ReaderKnows, OnlyOperator
  <2>4. QED BY <1>3, <2>3, KeptStep
<1>7. QED BY <1>4, <1>5, <1>6

LEMMA HubFirstSync ==
    ASSUME HubFirst, HubFirstInv, TypeOK', NEW o \in Operators, TwinSync(o)
    PROVE  HubFirstInv'
<1>1. TypeOK
  BY DEF HubFirstInv
<1>2. PICK label \in {"ok", "failed"} : Goto(o, label)
  BY DEF TwinSync
<1>3. UNCHANGED <<stores, task, memory>>
  BY DEF TwinSync
<1>4. OnlyOperator(o) /\ pc'[o] = label
  BY <1>1, <1>2, <1>3, MovesOnly DEF Goto, TypeOK
<1>5. SameRegistry /\ UNCHANGED sim
  BY <1>3 DEF SameRegistry, stores
<1>6. Local(o)'
  BY <1>4 DEF Local, CallsOfKind, AddOwns, ReaderKnows
<1>7. QED BY <1>4, <1>5, <1>6, KeptStep

LEMMA HubFirstBegin ==
    ASSUME HubFirst, HubFirstInv, TypeOK', NEW o \in Operators, Begin(o)
    PROVE  HubFirstInv'
<1>1. TypeOK /\ started \in Nat /\ started < MaxOps /\ MaxOps \in Nat
      /\ started' = started + 1 /\ UNCHANGED <<identity, docs, sim>>
  BY ConstantsAssumption DEF HubFirstInv, TypeOK, Begin, stores
<1>2. PICK k \in Kinds, d \in Devices :
        /\ kind' = [kind EXCEPT ![o] = k]
        /\ dev' = [dev EXCEPT ![o] = d]
        /\ pc' = [pc EXCEPT ![o] = Entry[k]]
        /\ key' = [key EXCEPT ![o] = IF k \in AddKinds THEN started + 1 ELSE NoKey]
  BY DEF Begin
<1>3. /\ kind'[o] = k /\ dev'[o] = d /\ pc'[o] = Entry[k]
      /\ k \in AddKinds => key'[o] = started + 1
  BY <1>1, <1>2 DEF TypeOK
<1>4. \A p \in Operators \ {o} :
        /\ pc'[p] = pc[p] /\ kind'[p] = kind[p] /\ dev'[p] = dev[p]
        /\ key'[p] = key[p] /\ doc'[p] = doc[p]
  BY <1>1, <1>2 DEF TypeOK, Begin
<1>5. k \in AllKinds \ {"remove"}
  BY ConstantsAssumption DEF HubFirst
<1>6. FreshKeys'
  <2>1. \A p \in Operators : kind'[p] \in AddKinds => key'[p] \in 1 .. started'
    BY <1>1, <1>3, <1>4 DEF HubFirstInv, FreshKeys
  <2>2. \A p, q \in Operators :
          kind'[p] \in AddKinds /\ kind'[q] \in AddKinds /\ key'[p] = key'[q] => p = q
    BY <1>1, <1>3, <1>4 DEF HubFirstInv, FreshKeys
  <2>3. \A e \in Devices, i \in Keys : docs'[e][i] # Absent => i <= started'
    BY <1>1 DEF HubFirstInv, FreshKeys, Keys
  <2>4. QED BY <2>1, <2>2, <2>3 DEF FreshKeys
<1>7. RegisteredHasIdentity' /\ SimulatorIsRegistered'
  BY <1>1 DEF HubFirstInv, RegisteredHasIdentity, SimulatorIsRegistered
<1>8. Local(o)'
  <2>1. /\ k \in AddKinds => pc'[o] \in {"validate", "hubAdd"}
        /\ k \in StatusKinds => pc'[o] = "statusGet"
        /\ k \in SaveKinds => pc'[o] = "docRead"
        /\ k \in AddKinds \union StatusKinds \union SaveKinds
        /\ k \in StatusKinds \union SaveKinds => k \notin AddKinds
    BY <1>3, <1>5 DEF Entry, AllKinds, AddKinds, StatusKinds, SaveKinds
  <2>2. docs[d][started + 1] = Absent
    BY <1>1 DEF HubFirstInv, FreshKeys, Keys
  <2>3. QED BY <1>1, <1>3, <2>1, <2>2 DEF Local, CallsOfKind, AddOwns, ReaderKnows
<1>9. ASSUME NEW p \in Operators, p # o PROVE Local(p)'
  BY <1>1, <1>4, <1>9 DEF HubFirstInv, Local, CallsOfKind, AddOwns, ReaderKnows
<1>10. QED BY <1>6, <1>7, <1>8, <1>9 DEF HubFirstInv

LEMMA HubFirstCrash ==
    ASSUME HubFirst, HubFirstInv, TypeOK', NEW o \in Operators, Crash(o)
    PROVE  HubFirstInv'
<1>1. TypeOK /\ Local(o)
  BY DEF HubFirstInv
<1>2. UNCHANGED <<stores, task, memory>> /\ GotoAfterFault(o, "crashed")
  BY DEF Crash
<1>3. OnlyOperator(o) /\ pc'[o] = "crashed"
  BY <1>1, <1>2, MovesOnly DEF GotoAfterFault, TypeOK
<1>4. SameRegistry /\ UNCHANGED sim
  BY <1>2 DEF SameRegistry, stores
<1>5. Local(o)'
  BY <1>3 DEF Local, CallsOfKind, AddOwns, ReaderKnows
<1>6. QED BY <1>3, <1>4, <1>5, KeptStep

LEMMA HubFirstNext == HubFirst /\ HubFirstInv /\ [Next]_vars => HubFirstInv'
<1> SUFFICES ASSUME HubFirst, HubFirstInv, [Next]_vars PROVE HubFirstInv'
  OBVIOUS
<1>1. TypeOK'
  BY NextOK DEF HubFirstInv
<1>2. ASSUME NEW o \in Operators, Begin(o) \/ Crash(o) PROVE HubFirstInv'
  BY <1>1, <1>2, HubFirstBegin, HubFirstCrash
<1>3. ASSUME NEW o \in Operators, Step(o) PROVE HubFirstInv'
  <2>1. Local(o)
    BY DEF HubFirstInv
  <2>2. ~(HubGet(o) \/ HubRemove(o) \/ DocDelete(o) \/ RulesRemove(o) \/ UndoRemove(o))
    BY <2>1 DEF Local, CallsOfKind, HubGet, HubRemove, DocDelete, RulesRemove, UndoRemove, At
  <2>3. QED BY <1>1, <1>3, <2>2, HubFirstAdd, HubFirstDocSave, HubFirstTag, HubFirstSim,
               HubFirstStatus, HubFirstKeysGet, HubFirstRead, HubFirstSync DEF Step
<1>4. ASSUME NEW d \in Devices, SaveRule(d) PROVE HubFirstInv'
  BY <1>1, <1>4 DEF SaveRule, HubFirstInv, FreshKeys, RegisteredHasIdentity, SimulatorIsRegistered,
     Local, CallsOfKind, AddOwns, ReaderKnows, task, memory, control
<1>5. CASE UNCHANGED vars
  BY <1>1, <1>5 DEF vars, stores, HubFirstInv, FreshKeys, RegisteredHasIdentity,
     SimulatorIsRegistered, Local, CallsOfKind, AddOwns, ReaderKnows, task, memory, control
<1>6. QED BY <1>2, <1>3, <1>4, <1>5 DEF Next

LEMMA HubFirstAlways == ASSUME HubFirst PROVE Spec => []HubFirstInv
BY HubFirst, HubFirstInit, HubFirstNext, PTL DEF Spec

(* Hub first: as long as no device is removed and none of OrderBreakers      *)
(* happens, every document in the registry stands beside the identity made  *)
(* for it, whatever other failures, retries, rollbacks and crashes occur.   *)
THEOREM RegisteredHasIdentityAlways == ASSUME HubFirst PROVE Spec => []RegisteredHasIdentity
BY HubFirst, HubFirstAlways, HubFirstImplies, PTL

(* Under the same assumptions the simulator never holds a key the hub would *)
(* refuse.                                                                  *)
THEOREM SimulatorKeyIsHubKeyAlways == ASSUME HubFirst PROVE Spec => []SimulatorKeyIsHubKey
BY HubFirst, HubFirstAlways, HubFirstImplies, PTL

(* Under the same assumptions the rollback of an Add only ever removes the  *)
(* identity that Add created.                                               *)
THEOREM RollbackOfAddIsOwn == ASSUME HubFirst PROVE Spec => RollbackTakesBackOwn
<1>1. HubFirstInv /\ [Next]_vars =>
        [\A o \in Operators : At(o, "undoAdd") /\ Moves(o) /\ identity' # identity
                               => identity[dev[o]].key = key[o]]_vars
  BY DEF HubFirstInv, Local, CallsOfKind, AddOwns, At
<1>2. QED BY <1>1, HubFirst, HubFirstAlways, PTL DEF Spec, RollbackTakesBackOwn

-----------------------------------------------------------------------------
(* Any callers: which calls an operation of a kind can be at, and that a    *)
(* step is one operator's                                                   *)

AddCalls    == {"validate", "hubAdd", "hubTwin", "docCheck", "docSave", "tag", "simSave", "undoAdd"}
RemoveCalls == {"hubGet", "hubRemove", "docFind", "docDelete", "simRemove", "rulesRemove", "undoRemove"}
StatusCalls == {"statusGet", "statusSet", "docFind", "docSave", "tag", "keysGet", "simSave",
                "simRemove", "undoGet", "undoSet"}
SaveCalls   == {"docRead", "docExists", "docSave", "twinSync"}

LEMMA KindsApart ==
    /\ \A k \in AddKinds : k \notin StatusKinds /\ k \notin SaveKinds /\ k # "remove" /\ k \in AllKinds
    /\ \A k \in StatusKinds : k \notin AddKinds /\ k \notin SaveKinds /\ k # "remove" /\ k \in AllKinds
    /\ \A k \in SaveKinds : k \notin AddKinds /\ k \notin StatusKinds /\ k # "remove" /\ k \in AllKinds
    /\ "remove" \in AllKinds \ (AddKinds \union StatusKinds \union SaveKinds)
BY DEF AddKinds, StatusKinds, SaveKinds, AllKinds

CallsOK(o) ==
    /\ pc[o] \notin Returned => kind[o] \in AllKinds
    /\ kind[o] \in AddKinds    => pc[o] \in Returned \union AddCalls
    /\ kind[o] = "remove"      => pc[o] \in Returned \union RemoveCalls
    /\ kind[o] \in StatusKinds => pc[o] \in Returned \union StatusCalls
    /\ kind[o] \in SaveKinds   => pc[o] \in Returned \union SaveCalls

CallsInv == TypeOK /\ \A o \in Operators : CallsOK(o)

\* a step of operator o leaves every other operation where it is
Own(o) ==
    /\ UNCHANGED <<kind, dev, started>>
    /\ \A p \in Operators \ {o} :
         pc'[p] = pc[p] /\ key'[p] = key[p] /\ doc'[p] = doc[p] /\ faults'[p] = faults[p]

LEMMA MovesOwn ==
    ASSUME TypeOK, NEW o \in Operators, NEW label,
           Goto(o, label) \/ GotoAfterFault(o, label) \/ Retry(o)
    PROVE  /\ \A p \in Operators \ {o} : pc'[p] = pc[p] /\ faults'[p] = faults[p]
           /\ pc'[o] \in {label, pc[o]}
BY DEF TypeOK, Goto, GotoAfterFault, Retry, Spend

LEMMA HubCallOwn ==
    ASSUME TypeOK, NEW o \in Operators, NEW call, NEW accepts, NEW effect, NEW ok, NEW err,
           HubCall(o, call, accepts, effect, ok, err)
    PROVE  Own(o) /\ pc'[o] \in {ok, err, pc[o]}
<1>1. Goto(o, ok) \/ Goto(o, err) \/ Retry(o) \/ GotoAfterFault(o, err)
  BY DEF HubCall
<1>2. UNCHANGED <<task, memory>>
  BY DEF HubCall
<1>3. QED BY <1>1, <1>2, MovesOwn DEF Own, task, memory

LEMMA TwinCallOwn ==
    ASSUME TypeOK, NEW o \in Operators, NEW call, NEW effect, NEW ok, NEW err,
           TwinCall(o, call, effect, ok, err)
    PROVE  Own(o) /\ pc'[o] \in {ok, err, pc[o]}
<1>1. Goto(o, ok) \/ Goto(o, err) \/ GotoAfterFault(o, err)
  BY DEF TwinCall
<1>2. UNCHANGED <<task, memory>>
  BY DEF TwinCall
<1>3. QED BY <1>1, <1>2, MovesOwn DEF Own, task, memory

LEMMA DocCallOwn ==
    ASSUME TypeOK, NEW o \in Operators, NEW call, NEW id, NEW value, NEW ok, NEW err,
           DocCall(o, call, id, value, ok, err)
    PROVE  Own(o) /\ pc'[o] \in {ok, err, pc[o]}
<1>1. Goto(o, ok) \/ GotoAfterFault(o, err)
  BY DEF DocCall
<1>2. UNCHANGED <<task, memory>>
  BY DEF DocCall
<1>3. QED BY <1>1, <1>2, MovesOwn DEF Own, task, memory

LEMMA SimCallOwn ==
    ASSUME TypeOK, NEW o \in Operators, NEW k, NEW next, SimCall(o, k, next)
    PROVE  Own(o) /\ pc'[o] \in {next, pc[o]}
<1>1. Goto(o, next) \/ GotoAfterFault(o, next)
  BY DEF SimCall
<1>2. UNCHANGED <<task, memory>>
  BY DEF SimCall
<1>3. QED BY <1>1, <1>2, MovesOwn DEF Own, task, memory

LEMMA ReadStatusOwn ==
    ASSUME TypeOK, NEW o \in Operators, NEW next, ReadStatus(o, next), UNCHANGED <<task, memory>>
    PROVE  Own(o) /\ pc'[o] \in {next, "failed", pc[o]}
<1>1. Goto(o, next) \/ Goto(o, "failed") \/ Retry(o) \/ GotoAfterFault(o, "failed")
  BY DEF ReadStatus, GetFails
<1>2. QED BY <1>1, MovesOwn DEF Own, task, memory

\* the calls that read, by where they go on
LEMMA ReadOwn ==
    ASSUME TypeOK, NEW o \in Operators, NEW ok, NEW err,
           Goto(o, ok) \/ Goto(o, err) \/ ReadFails(o, err), UNCHANGED task,
           \A p \in Operators \ {o} : key'[p] = key[p] /\ doc'[p] = doc[p]
    PROVE  Own(o) /\ pc'[o] \in {ok, err, pc[o]}
<1>1. Goto(o, ok) \/ Goto(o, err) \/ GotoAfterFault(o, err)
  BY DEF ReadFails
<1>2. QED BY <1>1, MovesOwn DEF Own, task

LEMMA CallsAt ==
    ASSUME CallsInv, NEW o \in Operators, pc[o] \notin Returned
    PROVE  /\ TypeOK /\ CallsOK(o) /\ dev[o] \in Devices
           /\ \/ kind[o] \in AddKinds /\ pc[o] \in AddCalls
              \/ kind[o] = "remove" /\ pc[o] \in RemoveCalls
              \/ kind[o] \in StatusKinds /\ pc[o] \in StatusCalls
              \/ kind[o] \in SaveKinds /\ pc[o] \in SaveCalls
BY DEF CallsInv, CallsOK, TypeOK, AllKinds

LEMMA OwnAdd ==
    ASSUME CallsInv, NEW o \in Operators,
           Validate(o) \/ HubAdd(o) \/ HubTwin(o) \/ DocCheck(o) \/ UndoAdd(o)
    PROVE  /\ Own(o) /\ CallsOK(o)'
           /\ kind[o] \in AddKinds /\ pc'[o] \in {"failed"} \union AddCalls
<1>1. TypeOK
  BY DEF CallsInv
<1>2. kind[o] \in AddKinds
  <2>1. /\ pc[o] \in {"validate", "hubAdd", "hubTwin", "docCheck", "undoAdd"}
        /\ pc[o] \notin Returned
    BY DEF Validate, HubAdd, HubTwin, DocCheck, UndoAdd, At, Returned
  <2>2. QED BY <2>1, CallsAt DEF RemoveCalls, StatusCalls, SaveCalls
<1>3. Own(o) /\ pc'[o] \in {"failed"} \union AddCalls
  <2>1. CASE Validate(o)
    <3>1. Goto(o, "hubAdd") \/ Goto(o, "failed") \/ ReadFails(o, "failed")
      BY <2>1 DEF Validate
    <3>2. UNCHANGED <<task, memory>> /\ pc[o] = "validate"
      BY <2>1 DEF Validate, At
    <3>3. QED BY <1>1, <3>1, <3>2, ReadOwn DEF AddCalls, memory
  <2>2. CASE HubAdd(o)
    <3>1. PICK next \in {"hubTwin", "docCheck"} :
            HubCall(o, "hubAdd", ~Present(dev[o]), Identity(key[o], "enabled"), next, "failed")
      BY <2>2 DEF HubAdd
    <3>2. pc[o] = "hubAdd"
      BY <2>2 DEF HubAdd, At
    <3>3. QED BY <1>1, <3>1, <3>2, HubCallOwn DEF AddCalls
  <2>3. CASE HubTwin(o)
    BY <1>1, <2>3, TwinCallOwn DEF HubTwin, At, AddCalls
  <2>4. CASE DocCheck(o)
    <3>1. Goto(o, "docSave") \/ Goto(o, "undoAdd") \/ ReadFails(o, "undoAdd")
      BY <2>4 DEF DocCheck
    <3>2. UNCHANGED <<task, memory>> /\ pc[o] = "docCheck"
      BY <2>4 DEF DocCheck, At
    <3>3. QED BY <1>1, <3>1, <3>2, ReadOwn DEF AddCalls, memory
  <2>5. CASE UndoAdd(o)
    BY <1>1, <2>5, HubCallOwn DEF UndoAdd, At, AddCalls
  <2>6. QED BY <2>1, <2>2, <2>3, <2>4, <2>5
<1>4. CallsOK(o)'
  BY <1>2, <1>3, KindsApart DEF Own, CallsOK, Returned
<1>5. QED BY <1>2, <1>3, <1>4

LEMMA OwnRemove ==
    ASSUME CallsInv, NEW o \in Operators,
           HubGet(o) \/ HubRemove(o) \/ DocDelete(o) \/ RulesRemove(o) \/ UndoRemove(o)
    PROVE  Own(o) /\ CallsOK(o)' /\ kind[o] = "remove"
<1>1. TypeOK
  BY DEF CallsInv
<1>2. kind[o] = "remove"
  <2>1. /\ pc[o] \in {"hubGet", "hubRemove", "docDelete", "rulesRemove", "undoRemove"}
        /\ pc[o] \notin Returned
    BY DEF HubGet, HubRemove, DocDelete, RulesRemove, UndoRemove, At, Returned
  <2>2. QED BY <2>1, CallsAt DEF AddCalls, StatusCalls, SaveCalls
<1>3. Own(o) /\ pc'[o] \in {"failed", "ok"} \union RemoveCalls
  <2>1. CASE HubGet(o)
    <3>1. /\ Goto(o, "hubRemove") \/ Goto(o, "failed") \/ Retry(o) \/ GotoAfterFault(o, "failed")
          /\ UNCHANGED <<task, doc>> /\ pc[o] = "hubGet"
          /\ \A p \in Operators \ {o} : key'[p] = key[p]
      BY <1>1, <2>1 DEF HubGet, GetFails, At, TypeOK
    <3>2. QED BY <1>1, <3>1, MovesOwn DEF Own, task, RemoveCalls
  <2>2. CASE HubRemove(o)
    BY <1>1, <2>2, HubCallOwn DEF HubRemove, At, RemoveCalls
  <2>3. CASE DocDelete(o)
    <3>1. \/ DocCall(o, "docDelete", doc[o], Absent, "simRemove", "undoRemove")
          \/ Goto(o, "undoRemove") /\ UNCHANGED <<task, memory>>
      BY <2>3 DEF DocDelete
    <3>2. CASE DocCall(o, "docDelete", doc[o], Absent, "simRemove", "undoRemove")
      BY <1>1, <2>3, <3>2, DocCallOwn DEF DocDelete, At, RemoveCalls
    <3>3. CASE Goto(o, "undoRemove") /\ UNCHANGED <<task, memory>>
      BY <1>1, <2>3, <3>3, MovesOwn DEF DocDelete, At, Own, task, memory, RemoveCalls
    <3>4. QED BY <3>1, <3>2, <3>3
  <2>4. CASE RulesRemove(o)
    <3>1. /\ Goto(o, "ok") \/ GotoAfterFault(o, "ok") \/ GotoAfterFault(o, "failed")
          /\ UNCHANGED <<task, memory>> /\ pc[o] = "rulesRemove"
      BY <2>4 DEF RulesRemove, RulesRefused, At
    <3>2. QED BY <1>1, <3>1, MovesOwn DEF Own, task, memory, RemoveCalls
  <2>5. CASE UndoRemove(o)
    BY <1>1, <2>5, HubCallOwn DEF UndoRemove, At, RemoveCalls
  <2>6. QED BY <2>1, <2>2, <2>3, <2>4, <2>5
<1>4. CallsOK(o)'
  BY <1>2, <1>3, KindsApart DEF Own, CallsOK, Returned
<1>5. QED BY <1>2, <1>3, <1>4

LEMMA OwnStatus ==
    ASSUME CallsInv, NEW o \in Operators,
           StatusGet(o) \/ StatusSet(o) \/ UndoGet(o) \/ UndoSet(o) \/ KeysGet(o)
    PROVE  Own(o) /\ CallsOK(o)' /\ kind[o] \in StatusKinds
<1>1. TypeOK
  BY DEF CallsInv
<1>2. kind[o] \in StatusKinds
  <2>1. /\ pc[o] \in {"statusGet", "statusSet", "undoGet", "undoSet", "keysGet"}
        /\ pc[o] \notin Returned
    BY DEF StatusGet, StatusSet, UndoGet, UndoSet, KeysGet, At, Returned
  <2>2. QED BY <2>1, CallsAt DEF AddCalls, RemoveCalls, SaveCalls
<1>3. Own(o) /\ pc'[o] \in {"failed", "ok"} \union StatusCalls
  <2>1. CASE StatusGet(o)
    BY <1>1, <2>1, ReadStatusOwn DEF StatusGet, At, StatusCalls
  <2>2. CASE StatusSet(o)
    BY <1>1, <2>2, HubCallOwn DEF StatusSet, WriteStatus, At, StatusCalls
  <2>3. CASE UndoGet(o)
    BY <1>1, <2>3, ReadStatusOwn DEF UndoGet, At, StatusCalls
  <2>4. CASE UndoSet(o)
    BY <1>1, <2>4, HubCallOwn DEF UndoSet, WriteStatus, At, StatusCalls
  <2>5. CASE KeysGet(o)
    <3>1. /\ Goto(o, "simSave") \/ Goto(o, "ok") \/ GotoAfterFault(o, "ok")
          /\ UNCHANGED <<task, doc>> /\ pc[o] = "keysGet"
          /\ \A p \in Operators \ {o} : key'[p] = key[p]
      BY <1>1, <2>5 DEF KeysGet, At, TypeOK
    <3>2. QED BY <1>1, <3>1, MovesOwn DEF Own, task, StatusCalls
  <2>6. QED BY <2>1, <2>2, <2>3, <2>4, <2>5
<1>4. CallsOK(o)'
  BY <1>2, <1>3, KindsApart DEF Own, CallsOK, Returned
<1>5. QED BY <1>2, <1>3, <1>4

LEMMA OwnDocSave ==
    ASSUME CallsInv, NEW o \in Operators, DocSave(o)
    PROVE  Own(o) /\ CallsOK(o)' /\ kind[o] # "remove"
<1>1. TypeOK /\ pc[o] = "docSave" /\ pc[o] \notin Returned /\ kind[o] # "remove"
  BY CallsAt DEF DocSave, At, Returned, CallsInv, RemoveCalls, CallsOK
<1>2. ASSUME kind[o] \in AddKinds,
             NEW id, NEW value, DocCall(o, "docSave", id, value, "tag", "undoAdd")
      PROVE  Own(o) /\ CallsOK(o)'
  <2>1. Own(o) /\ pc'[o] \in {"tag", "undoAdd", "docSave"}
    BY <1>1, <1>2, DocCallOwn
  <2>2. QED BY <1>2, <2>1, KindsApart DEF Own, CallsOK, AddCalls
<1>3. ASSUME kind[o] \in StatusKinds,
             NEW id, NEW value, DocCall(o, "docSave", id, value, "tag", "undoGet")
      PROVE  Own(o) /\ CallsOK(o)'
  <2>1. Own(o) /\ pc'[o] \in {"tag", "undoGet", "docSave"}
    BY <1>1, <1>3, DocCallOwn
  <2>2. QED BY <1>3, <2>1, KindsApart DEF Own, CallsOK, StatusCalls
<1>4. ASSUME kind[o] \in SaveKinds,
             NEW id, NEW value, DocCall(o, "docSave", id, value, "twinSync", "failed")
      PROVE  Own(o) /\ CallsOK(o)'
  <2>1. Own(o) /\ pc'[o] \in {"twinSync", "failed", "docSave"}
    BY <1>1, <1>4, DocCallOwn
  <2>2. QED BY <1>4, <2>1, KindsApart DEF Own, CallsOK, SaveCalls, Returned
<1>5. {"enable", "disable"} \subseteq StatusKinds /\ {"save", "info"} \subseteq SaveKinds
  BY DEF StatusKinds, SaveKinds
<1>6. QED BY <1>1, <1>2, <1>3, <1>4, <1>5 DEF DocSave, Kind

LEMMA OwnTagSim ==
    ASSUME CallsInv, NEW o \in Operators, Tag(o) \/ SimSave(o) \/ SimRemove(o)
    PROVE  Own(o) /\ CallsOK(o)'
<1>1. /\ TypeOK /\ pc[o] \in {"tag", "simSave", "simRemove"} /\ pc[o] \notin Returned
  BY DEF Tag, SimSave, SimRemove, At, Returned, CallsInv
<1>2. \/ kind[o] \in AddKinds /\ pc[o] \in AddCalls
      \/ kind[o] = "remove" /\ pc[o] \in RemoveCalls
      \/ kind[o] \in StatusKinds /\ pc[o] \in StatusCalls
  BY <1>1, CallsAt DEF SaveCalls
<1>3. CASE Tag(o)
  <2>1. Own(o) /\ pc'[o] \in {AfterTag(o), IF Kind(o, AddKinds) THEN "undoAdd" ELSE "undoGet", "tag"}
    BY <1>1, <1>3, TwinCallOwn DEF Tag, At
  <2>2. pc[o] = "tag"
    BY <1>3 DEF Tag, At
  <2>3. CASE kind[o] \in AddKinds
    <3>1. AfterTag(o) \in {"ok", "simSave"}
      BY <2>3, KindsApart DEF AfterTag, Kind, StatusKinds
    <3>2. pc'[o] \in {"ok", "simSave", "undoAdd", "tag"}
      BY <2>1, <2>3, <3>1 DEF Kind
    <3>3. QED BY <2>1, <2>3, <3>2, KindsApart DEF Own, CallsOK, AddCalls, Returned
  <2>4. CASE kind[o] \in StatusKinds
    BY <2>1, <2>4, KindsApart DEF AfterTag, Kind, Own, CallsOK, StatusCalls, Returned
  <2>5. QED BY <1>2, <2>1, <2>2, <2>3, <2>4 DEF RemoveCalls
<1>4. CASE SimSave(o)
  <2>1. Own(o) /\ pc'[o] \in {"ok", "simSave"} /\ pc[o] = "simSave"
    BY <1>1, <1>4, SimCallOwn DEF SimSave, At
  <2>2. QED BY <1>2, <2>1, KindsApart DEF Own, CallsOK, AddCalls, RemoveCalls, StatusCalls, Returned
<1>5. CASE SimRemove(o)
  <2>1. /\ Own(o) /\ pc[o] = "simRemove"
        /\ pc'[o] \in {IF Kind(o, {"remove"}) THEN "rulesRemove" ELSE "ok", "simRemove"}
    BY <1>1, <1>5, SimCallOwn DEF SimRemove, At
  <2>2. CASE kind[o] = "remove"
    BY <2>1, <2>2, KindsApart DEF Own, CallsOK, Kind, RemoveCalls
  <2>3. CASE kind[o] \in StatusKinds
    BY <2>1, <2>3, KindsApart DEF Own, CallsOK, Kind, StatusCalls, Returned
  <2>4. QED BY <1>2, <2>1, <2>2, <2>3 DEF AddCalls
<1>6. QED BY <1>3, <1>4, <1>5

LEMMA OwnRead ==
    ASSUME CallsInv, NEW o \in Operators, DocFind(o) \/ DocRead(o) \/ DocExists(o) \/ TwinSync(o)
    PROVE  Own(o) /\ CallsOK(o)'
<1>1. /\ TypeOK /\ pc[o] \in {"docFind", "docRead", "docExists", "twinSync"} /\ pc[o] \notin Returned
  BY DEF DocFind, DocRead, DocExists, TwinSync, At, Returned, CallsInv
<1>2. \/ kind[o] = "remove" /\ pc[o] \in RemoveCalls
      \/ kind[o] \in StatusKinds /\ pc[o] \in StatusCalls
      \/ kind[o] \in SaveKinds /\ pc[o] \in SaveCalls
  BY <1>1, CallsAt DEF AddCalls
<1>3. /\ UNCHANGED <<task, key>>
      /\ \A p \in Operators \ {o} : doc'[p] = doc[p]
  BY <1>1 DEF DocFind, DocRead, DocExists, TwinSync, memory, TypeOK
<1>4. CASE DocFind(o)
  <2> DEFINE found    == IF Kind(o, {"remove"}) THEN "docDelete" ELSE "docSave"
             notFound == IF Kind(o, {"remove"}) THEN "undoRemove" ELSE "undoGet"
  <2>1. Goto(o, found) \/ Goto(o, notFound) \/ ReadFails(o, notFound)
    BY <1>4 DEF DocFind
  <2> HIDE DEF found, notFound
  <2>2. Own(o) /\ pc'[o] \in {found, notFound, pc[o]}
    BY <1>1, <1>3, <2>1, ReadOwn
  <2>3. CASE kind[o] = "remove"
    BY <1>4, <2>2, <2>3, KindsApart DEF Own, CallsOK, Kind, RemoveCalls, DocFind, At, found, notFound
  <2>4. CASE kind[o] \in StatusKinds
    BY <1>4, <2>2, <2>4, KindsApart DEF Own, CallsOK, Kind, StatusCalls, DocFind, At, found, notFound
  <2>5. QED BY <1>2, <1>4, <2>2, <2>3, <2>4 DEF SaveCalls, DocFind, At
<1>5. ASSUME ~DocFind(o) PROVE Own(o) /\ CallsOK(o)'
  <2>1. kind[o] \in SaveKinds
    BY <1>2, <1>5 DEF DocRead, DocExists, TwinSync, At, RemoveCalls, StatusCalls
  <2>2. PICK label \in {"docExists", "docSave", "ok"} :
          Goto(o, label) \/ Goto(o, "failed") \/ ReadFails(o, "failed")
    BY <1>5 DEF DocRead, DocExists, TwinSync
  <2>3. Own(o) /\ pc'[o] \in {label, "failed", pc[o]}
    BY <1>1, <1>3, <2>2, ReadOwn
  <2>4. pc'[o] \in Returned \union SaveCalls
    BY <1>1, <1>5, <2>3 DEF DocRead, DocExists, TwinSync, At, SaveCalls, Returned
  <2>5. QED BY <2>1, <2>3, <2>4, KindsApart DEF Own, CallsOK
<1>6. QED BY <1>4, <1>5

LEMMA StepIsOwn ==
    ASSUME CallsInv, NEW o \in Operators, Step(o)
    PROVE  Own(o) /\ CallsOK(o)'
BY OwnAdd, OwnRemove, OwnStatus, OwnDocSave, OwnTagSim, OwnRead DEF Step

LEMMA CallsInit == Init => CallsInv
BY InitOK DEF Init, CallsInv, CallsOK, Returned

LEMMA CallsNext == CallsInv /\ [Next]_vars => CallsInv'
<1> SUFFICES ASSUME CallsInv, [Next]_vars PROVE CallsInv'
  OBVIOUS
<1>1. TypeOK /\ TypeOK' /\ \A p \in Operators : CallsOK(p)
  BY NextOK DEF CallsInv
<1>2. ASSUME NEW o \in Operators, CallsOK(o)',
             \A p \in Operators \ {o} : pc'[p] = pc[p] /\ kind'[p] = kind[p]
      PROVE  CallsInv'
  <2>1. ASSUME NEW p \in Operators PROVE CallsOK(p)'
    BY <1>1, <1>2 DEF CallsOK
  <2>2. QED BY <1>1, <2>1 DEF CallsInv
<1>3. ASSUME NEW o \in Operators, Step(o) PROVE CallsInv'
  BY <1>2, <1>3, StepIsOwn DEF Own
<1>4. ASSUME NEW o \in Operators, Begin(o) PROVE CallsInv'
  <2>1. PICK k \in Kinds : kind' = [kind EXCEPT ![o] = k] /\ pc' = [pc EXCEPT ![o] = Entry[k]]
    BY <1>4 DEF Begin
  <2>2. k \in AllKinds /\ kind'[o] = k /\ pc'[o] = Entry[k]
    BY <1>1, <2>1, ConstantsAssumption DEF TypeOK
  <2>3. CallsOK(o)'
    <3>1. CASE k \in AddKinds
      BY <2>2, <3>1, KindsApart DEF CallsOK, Entry, AddCalls, AddKinds, StatusKinds, SaveKinds
    <3>2. CASE k = "remove"
      BY <2>2, <3>2, KindsApart DEF CallsOK, Entry, RemoveCalls, StatusKinds, SaveKinds
    <3>3. CASE k \in StatusKinds
      BY <2>2, <3>3, KindsApart DEF CallsOK, Entry, StatusCalls, StatusKinds, SaveKinds
    <3>4. CASE k \in SaveKinds
      BY <2>2, <3>4, KindsApart DEF CallsOK, Entry, SaveCalls, StatusKinds, SaveKinds
    <3>5. QED BY <2>2, <3>1, <3>2, <3>3, <3>4 DEF AllKinds
  <2>4. QED BY <1>1, <1>2, <2>1, <2>3 DEF TypeOK
<1>5. ASSUME NEW o \in Operators, Crash(o) PROVE CallsInv'
  <2>1. UNCHANGED kind /\ pc' = [pc EXCEPT ![o] = "crashed"]
    BY <1>5 DEF Crash, GotoAfterFault, task
  <2>2. CallsOK(o)'
    BY <1>1, <2>1 DEF CallsOK, Returned, TypeOK
  <2>3. QED BY <1>1, <1>2, <2>1, <2>2 DEF TypeOK
<1>6. ASSUME UNCHANGED <<pc, kind>> PROVE CallsInv'
  BY <1>1, <1>6 DEF CallsInv, CallsOK
<1>7. (\E d \in Devices : SaveRule(d)) \/ UNCHANGED vars => UNCHANGED <<pc, kind>>
  BY DEF SaveRule, vars, task, control
<1>8. QED BY <1>3, <1>4, <1>5, <1>6, <1>7 DEF Next

LEMMA StepAtWork == ASSUME NEW o \in Operators, Step(o) PROVE pc[o] \notin Returned
BY DEF Step, Validate, HubAdd, HubTwin, DocCheck, DocSave, Tag, SimSave, UndoAdd, HubGet, HubRemove,
   DocFind, DocDelete, SimRemove, RulesRemove, UndoRemove, StatusGet, StatusSet, KeysGet, UndoGet,
   UndoSet, DocRead, DocExists, TwinSync, At, Returned

\* a step of operator o concerns no other device, and no other operation's document
Elsewhere(o) ==
    /\ \A d \in Devices \ {dev[o]} : identity'[d] = identity[d] /\ docs'[d] = docs[d]
    /\ \A p \in Operators \ {o} : enabled'[p] = enabled[p]

LEMMA StepElsewhere ==
    ASSUME CallsInv, NEW o \in Operators, Step(o)
    PROVE  Elsewhere(o)
<1>1. TypeOK
  BY DEF CallsInv
<1>2. ASSUME NEW call, NEW accepts, NEW effect, NEW ok, NEW err,
             HubCall(o, call, accepts, effect, ok, err)
      PROVE  Elsewhere(o)
  <2>1. (identity' = [identity EXCEPT ![dev[o]] = effect] \/ UNCHANGED identity) /\ UNCHANGED <<docs, enabled>>
    BY <1>2 DEF HubCall, SetIdentity, memory
  <2>2. QED BY <1>1, <2>1 DEF Elsewhere, TypeOK
<1>3. ASSUME NEW call, NEW effect, NEW ok, NEW err, TwinCall(o, call, effect, ok, err)
      PROVE  Elsewhere(o)
  <2>1. (identity' = [identity EXCEPT ![dev[o]] = effect] \/ UNCHANGED identity) /\ UNCHANGED <<docs, enabled>>
    BY <1>3 DEF TwinCall, SetIdentity, memory
  <2>2. QED BY <1>1, <2>1 DEF Elsewhere, TypeOK
<1>4. ASSUME NEW call, NEW id, NEW value, NEW ok, NEW err, DocCall(o, call, id, value, ok, err)
      PROVE  Elsewhere(o)
  <2>1. (docs' = [docs EXCEPT ![dev[o]][id] = value] \/ UNCHANGED docs) /\ UNCHANGED <<identity, enabled>>
    BY <1>4 DEF DocCall, memory
  <2>2. QED BY <1>1, <2>1 DEF Elsewhere, TypeOK
<1>5. ASSUME UNCHANGED <<identity, docs, enabled>> PROVE Elsewhere(o)
  BY <1>5 DEF Elsewhere
<1>6. CASE Validate(o) \/ DocCheck(o) \/ HubGet(o) \/ DocFind(o) \/ KeysGet(o) \/ DocExists(o) \/ TwinSync(o)
  BY <1>5, <1>6 DEF Validate, DocCheck, HubGet, DocFind, KeysGet, DocExists, TwinSync, stores, memory
<1>7. CASE SimSave(o) \/ SimRemove(o) \/ RulesRemove(o)
  BY <1>5, <1>7 DEF SimSave, SimRemove, SimCall, RulesRemove, memory
<1>8. CASE HubAdd(o) \/ UndoAdd(o) \/ HubRemove(o) \/ UndoRemove(o)
  BY <1>2, <1>8 DEF HubAdd, UndoAdd, HubRemove, UndoRemove
<1>9. CASE HubTwin(o) \/ Tag(o)
  BY <1>3, <1>9 DEF HubTwin, Tag
<1>10. CASE DocSave(o)
  BY <1>4, <1>10 DEF DocSave
<1>11. CASE DocDelete(o)
  BY <1>4, <1>5, <1>11 DEF DocDelete, stores, memory
<1>12. CASE StatusSet(o) \/ UndoSet(o)
  BY <1>2, <1>12 DEF StatusSet, UndoSet, WriteStatus
<1>13. CASE StatusGet(o) \/ UndoGet(o)
  <2>1. /\ \/ identity' = [identity EXCEPT ![dev[o]].readers = @ \union {o}]
           \/ UNCHANGED identity
        /\ UNCHANGED <<docs, enabled>>
    BY <1>13 DEF StatusGet, UndoGet, ReadStatus, memory
  <2>2. QED BY <1>1, <2>1 DEF Elsewhere, TypeOK
<1>14. CASE DocRead(o)
  <2>1. UNCHANGED <<identity, docs>> /\ \A p \in Operators \ {o} : enabled'[p] = enabled[p]
    BY <1>1, <1>14 DEF DocRead, stores, TypeOK
  <2>2. QED BY <2>1 DEF Elsewhere
<1>15. QED BY <1>6, <1>7, <1>8, <1>9, <1>10, <1>11, <1>12, <1>13, <1>14 DEF Step

-----------------------------------------------------------------------------
(* Any callers, any failures: the calls an operation has left to make        *)

(* An operation makes at most 8 * (RETRY_COUNT + 1) calls, whatever fails:   *)
(* each call it makes, the failing ones of retries and rollbacks included,   *)
(* leaves fewer for it to make, and no other operation's step changes that.  *)
Ahead == [l \in Labels |->
    CASE l \in Returned -> 0
      [] l \in {"simSave", "undoAdd", "rulesRemove", "undoRemove", "undoSet", "twinSync"} -> 1
      [] l \in {"keysGet", "undoGet", "simRemove"} -> 2
      [] l \in {"tag", "docDelete"} -> 3
      [] l = "docSave" -> 4
      [] l \in {"docFind", "docCheck", "docExists"} -> 5
      [] l \in {"hubTwin", "hubRemove", "statusSet", "docRead"} -> 6
      [] l \in {"hubAdd", "hubGet", "statusGet"} -> 7
      [] l = "validate" -> 8]
CallsLeft(o) ==
    IF pc[o] \in Returned THEN 0 ELSE Ahead[pc[o]] * (RETRY_COUNT + 1) - attempt[o]
CallsCountDown ==
    [][\A o \in Operators : pc[o] \notin Returned =>
         \/ CallsLeft(o)' \in 0 .. CallsLeft(o) - 1
         \/ UNCHANGED <<pc[o], attempt[o], faults[o]>>]_vars

\* where a call leaves its operation: further on, or trying again
MovesTo(o, labels) ==
    \/ pc'[o] \in labels /\ attempt'[o] = 0
    \/ pc'[o] = pc[o] /\ attempt'[o] = attempt[o] + 1

LEMMA AheadIs ==
    /\ \A l \in Labels : Ahead[l] \in 0 .. 8 /\ (l \notin Returned => Ahead[l] >= 1)
    /\ \A l \in Returned : Ahead[l] = 0
    /\ \A l \in {"simSave", "undoAdd", "rulesRemove", "undoRemove", "undoSet", "twinSync"} : Ahead[l] = 1
    /\ \A l \in {"keysGet", "undoGet", "simRemove"} : Ahead[l] = 2
    /\ \A l \in {"tag", "docDelete"} : Ahead[l] = 3
    /\ Ahead["docSave"] = 4
    /\ \A l \in {"docFind", "docCheck", "docExists"} : Ahead[l] = 5
    /\ \A l \in {"hubTwin", "hubRemove", "statusSet", "docRead"} : Ahead[l] = 6
    /\ \A l \in {"hubAdd", "hubGet", "statusGet"} : Ahead[l] = 7
    /\ Ahead["validate"] = 8
BY DEF Ahead, Labels, Returned

LEMMA TimesGrows ==
    ASSUME NEW a \in 0 .. 8, NEW b \in 0 .. 8, a < b, NEW n \in Nat
    PROVE  a * n + n <= b * n
<1>1. PICK c \in 0 .. 8 : b = a + 1 + c
  <2>1. b - a - 1 \in 0 .. 8 /\ b = a + 1 + (b - a - 1)
    OBVIOUS
  <2>2. QED BY <2>1
<1>2. b * n = a * n + n + c * n
  BY <1>1
<1>3. c * n \in Nat /\ a * n \in Nat
  BY <1>1
<1>4. QED BY <1>2, <1>3

LEMMA LeftIs ==
    ASSUME TypeOK, NEW o \in Operators
    PROVE  CallsLeft(o) \in 0 .. 8 * (RETRY_COUNT + 1)
<1> DEFINE n == RETRY_COUNT + 1
<1>1. /\ n \in Nat /\ RETRY_COUNT \in Nat
      /\ attempt[o] \in 0 .. RETRY_COUNT /\ pc[o] \in Labels
  BY ConstantsAssumption DEF TypeOK
<1>2. CASE pc[o] \in Returned
  BY <1>1, <1>2 DEF CallsLeft
<1>3. CASE pc[o] \notin Returned
  <2>1. Ahead[pc[o]] \in 0 .. 8 /\ 0 < Ahead[pc[o]]
    BY <1>1, <1>3, AheadIs
  <2> DEFINE m == Ahead[pc[o]] * n
             t == 8 * n
  <2>2. m \in Nat /\ n <= m
    <3>1. 0 * n + n <= m
      BY <1>1, <2>1, TimesGrows
    <3>2. QED BY <1>1, <2>1, <3>1
  <2>3. m <= t /\ t \in Nat
    <3>1. CASE Ahead[pc[o]] = 8
      BY <1>1, <3>1
    <3>2. CASE Ahead[pc[o]] # 8
      <4>1. m + n <= t
        BY <1>1, <2>1, <3>2, TimesGrows
      <4>2. QED BY <1>1, <2>2, <4>1
    <3>3. QED BY <3>1, <3>2
  <2>4. CallsLeft(o) = m - attempt[o]
    BY <1>3 DEF CallsLeft
  <2> HIDE DEF m, t
  <2>5. m - attempt[o] \in 0 .. t
    BY <1>1, <2>2, <2>3
  <2>6. QED BY <2>4, <2>5 DEF t
<1>4. QED BY <1>2, <1>3

LEMMA CallsLeftPositive ==
    ASSUME TypeOK, NEW o \in Operators, pc[o] \notin Returned
    PROVE  CallsLeft(o) > 0
<1> DEFINE n == RETRY_COUNT + 1
           m == Ahead[pc[o]] * n
<1>1. /\ n \in Nat /\ RETRY_COUNT \in Nat
      /\ attempt[o] \in 0 .. RETRY_COUNT /\ Ahead[pc[o]] \in 1 .. 8
  BY ConstantsAssumption, AheadIs DEF TypeOK
<1>2. m \in Nat /\ n <= m
  <2>1. 0 * n + n <= m
    BY <1>1, TimesGrows
  <2>2. QED BY <1>1, <2>1
<1>3. CallsLeft(o) = m - attempt[o]
  BY DEF CallsLeft
<1> HIDE DEF m
<1>4. QED BY <1>1, <1>2, <1>3

LEMMA FewerLeft ==
    ASSUME TypeOK, TypeOK', NEW o \in Operators, pc[o] \notin Returned, NEW labels,
           MovesTo(o, labels), \A l \in labels : Ahead[l] < Ahead[pc[o]]
    PROVE  CallsLeft(o)' \in 0 .. CallsLeft(o) - 1
<1> DEFINE n == RETRY_COUNT + 1
<1>1. /\ n \in Nat /\ attempt[o] \in 0 .. n - 1 /\ attempt'[o] \in 0 .. n - 1
      /\ pc[o] \in Labels /\ pc'[o] \in Labels
  BY ConstantsAssumption DEF TypeOK
<1>2. CallsLeft(o)' \in Nat /\ CallsLeft(o) \in Nat
  <2>1. CallsLeft(o) \in 0 .. 8 * n
    BY LeftIs
  <2>2. (TypeOK => CallsLeft(o) \in 0 .. 8 * (RETRY_COUNT + 1))'
    BY LeftIs, PTL
  <2>3. QED BY <1>1, <2>1, <2>2
<1>3. CallsLeft(o) = Ahead[pc[o]] * n - attempt[o]
  BY DEF CallsLeft
<1>4. CASE pc'[o] \in labels /\ attempt'[o] = 0
  <2>1. CallsLeft(o)' = Ahead[pc'[o]] * n
    <3>1. Ahead' = Ahead
      BY DEF Ahead
    <3>2. CASE pc'[o] \in Returned
      BY <1>1, <3>2, AheadIs DEF CallsLeft
    <3>3. CASE pc'[o] \notin Returned
      BY <1>1, <1>4, <3>3, AheadIs DEF CallsLeft
    <3>4. QED BY <3>2, <3>3
  <2>2. Ahead[pc'[o]] * n + n <= Ahead[pc[o]] * n
    BY <1>1, <1>4, AheadIs, TimesGrows
  <2> DEFINE left == Ahead[pc'[o]] * n
             had  == Ahead[pc[o]] * n
  <2>3. left \in Nat /\ had \in Nat
    BY <1>1, AheadIs
  <2> HIDE DEF left, had
  <2>4. left < had - attempt[o]
    BY <1>1, <2>2, <2>3 DEF left, had
  <2>5. QED BY <1>2, <1>3, <2>1, <2>4 DEF left, had
<1>5. CASE pc'[o] = pc[o] /\ attempt'[o] = attempt[o] + 1
  <2>1. CallsLeft(o)' = Ahead[pc[o]] * n - (attempt[o] + 1)
    BY <1>5 DEF CallsLeft
  <2> DEFINE had == Ahead[pc[o]] * n
  <2>2. had \in Nat
    BY <1>1, AheadIs
  <2> HIDE DEF had
  <2>3. QED BY <1>1, <1>2, <1>3, <2>1, <2>2 DEF had
<1>6. QED BY <1>4, <1>5 DEF MovesTo

\* where each kind of call goes on
LEMMA HubCallMoves ==
    ASSUME TypeOK, NEW o \in Operators, NEW call, NEW accepts, NEW effect, NEW ok, NEW err,
           HubCall(o, call, accepts, effect, ok, err)
    PROVE  MovesTo(o, {ok, err})
<1>1. Goto(o, ok) \/ Goto(o, err) \/ Retry(o) \/ GotoAfterFault(o, err)
  BY DEF HubCall
<1>2. QED BY <1>1 DEF MovesTo, Goto, GotoAfterFault, Retry, TypeOK

LEMMA TwinCallMoves ==
    ASSUME TypeOK, NEW o \in Operators, NEW call, NEW effect, NEW ok, NEW err,
           TwinCall(o, call, effect, ok, err)
    PROVE  MovesTo(o, {ok, err})
<1>1. Goto(o, ok) \/ Goto(o, err) \/ GotoAfterFault(o, err)
  BY DEF TwinCall
<1>2. QED BY <1>1 DEF MovesTo, Goto, GotoAfterFault, TypeOK

LEMMA DocCallMoves ==
    ASSUME TypeOK, NEW o \in Operators, NEW call, NEW id, NEW value, NEW ok, NEW err,
           DocCall(o, call, id, value, ok, err)
    PROVE  MovesTo(o, {ok, err})
<1>1. Goto(o, ok) \/ GotoAfterFault(o, err)
  BY DEF DocCall
<1>2. QED BY <1>1 DEF MovesTo, Goto, GotoAfterFault, TypeOK

LEMMA SimCallMoves ==
    ASSUME TypeOK, NEW o \in Operators, NEW k, NEW next, SimCall(o, k, next)
    PROVE  MovesTo(o, {next})
<1>1. Goto(o, next) \/ GotoAfterFault(o, next)
  BY DEF SimCall
<1>2. QED BY <1>1 DEF MovesTo, Goto, GotoAfterFault, TypeOK

LEMMA ReadStatusMoves ==
    ASSUME TypeOK, NEW o \in Operators, NEW next, ReadStatus(o, next)
    PROVE  MovesTo(o, {next, "failed"})
<1>1. Goto(o, next) \/ Goto(o, "failed") \/ Retry(o) \/ GotoAfterFault(o, "failed")
  BY DEF ReadStatus, GetFails
<1>2. QED BY <1>1 DEF MovesTo, Goto, GotoAfterFault, Retry, TypeOK

LEMMA GotoMoves ==
    ASSUME TypeOK, NEW o \in Operators, NEW ok, NEW err,
           Goto(o, ok) \/ Goto(o, err) \/ GotoAfterFault(o, err) \/ Retry(o)
    PROVE  MovesTo(o, {ok, err})
BY DEF MovesTo, Goto, GotoAfterFault, Retry, TypeOK

LEMMA CountAdd ==
    ASSUME TypeOK, NEW o \in Operators, NEW bound \in Nat, bound = Ahead[pc[o]],
           Validate(o) \/ HubAdd(o) \/ HubTwin(o) \/ DocCheck(o) \/ DocSave(o) \/ Tag(o)
             \/ SimSave(o) \/ UndoAdd(o)
    PROVE  \E labels : MovesTo(o, labels) /\ \A l \in labels : Ahead[l] < bound
<1> DEFINE Less(labels) == \A l \in labels : Ahead[l] < bound
<1> USE AheadIs
<1>1. CASE Validate(o)
  <2>1. MovesTo(o, {"hubAdd", "failed"})
    BY <1>1, GotoMoves DEF Validate, ReadFails
  <2>2. Less({"hubAdd", "failed"})
    BY <1>1 DEF Validate, At, Returned
  <2>3. QED BY <2>1, <2>2
<1>2. CASE HubAdd(o)
  <2>1. PICK next \in {"hubTwin", "docCheck"} : MovesTo(o, {next, "failed"})
    BY <1>2, HubCallMoves DEF HubAdd
  <2>2. Less({next, "failed"})
    BY <1>2 DEF HubAdd, At, Returned
  <2>3. QED BY <2>1, <2>2
<1>3. CASE HubTwin(o)
  <2>1. MovesTo(o, {"docCheck", "failed"})
    BY <1>3, TwinCallMoves DEF HubTwin
  <2>2. Less({"docCheck", "failed"})
    BY <1>3 DEF HubTwin, At, Returned
  <2>3. QED BY <2>1, <2>2
<1>4. CASE DocCheck(o)
  <2>1. MovesTo(o, {"docSave", "undoAdd"})
    BY <1>4, GotoMoves DEF DocCheck, ReadFails
  <2>2. Less({"docSave", "undoAdd"})
    BY <1>4 DEF DocCheck, At
  <2>3. QED BY <2>1, <2>2
<1>5. CASE DocSave(o)
  <2>1. PICK ok \in {"tag", "twinSync"}, err \in {"undoAdd", "undoGet", "failed"} : MovesTo(o, {ok, err})
    BY <1>5, DocCallMoves DEF DocSave
  <2>2. Less({ok, err})
    BY <1>5 DEF DocSave, At, Returned
  <2>3. QED BY <2>1, <2>2
<1>6. CASE Tag(o)
  <2>1. PICK ok \in {"ok", "simSave", "keysGet", "simRemove"}, err \in {"undoAdd", "undoGet"} :
          MovesTo(o, {ok, err})
    BY <1>6, TwinCallMoves DEF Tag, AfterTag
  <2>2. Less({ok, err})
    BY <1>6 DEF Tag, At, Returned
  <2>3. QED BY <2>1, <2>2
<1>7. CASE SimSave(o)
  <2>1. MovesTo(o, {"ok"}) /\ Less({"ok"})
    BY <1>7, SimCallMoves DEF SimSave, At, Returned
  <2>2. QED BY <2>1
<1>8. CASE UndoAdd(o)
  <2>1. MovesTo(o, {"failed", "failed"}) /\ Less({"failed", "failed"})
    BY <1>8, HubCallMoves DEF UndoAdd, At, Returned
  <2>2. QED BY <2>1
<1>9. QED BY <1>1, <1>2, <1>3, <1>4, <1>5, <1>6, <1>7, <1>8

LEMMA CountRemove ==
    ASSUME TypeOK, NEW o \in Operators, NEW bound \in Nat, bound = Ahead[pc[o]],
           HubGet(o) \/ HubRemove(o) \/ DocFind(o) \/ DocDelete(o) \/ SimRemove(o)
             \/ RulesRemove(o) \/ UndoRemove(o)
    PROVE  \E labels : MovesTo(o, labels) /\ \A l \in labels : Ahead[l] < bound
<1> DEFINE Less(labels) == \A l \in labels : Ahead[l] < bound
<1> USE AheadIs
<1>1. CASE HubGet(o)
  <2>1. MovesTo(o, {"hubRemove", "failed"})
    BY <1>1, GotoMoves DEF HubGet, GetFails
  <2>2. Less({"hubRemove", "failed"})
    BY <1>1 DEF HubGet, At, Returned
  <2>3. QED BY <2>1, <2>2
<1>2. CASE HubRemove(o)
  <2>1. MovesTo(o, {"docFind", "failed"})
    BY <1>2, HubCallMoves DEF HubRemove
  <2>2. Less({"docFind", "failed"})
    BY <1>2 DEF HubRemove, At, Returned
  <2>3. QED BY <2>1, <2>2
<1>3. CASE DocFind(o)
  <2>1. PICK ok \in {"docDelete", "docSave"}, err \in {"undoRemove", "undoGet"} : MovesTo(o, {ok, err})
    BY <1>3, GotoMoves DEF DocFind, ReadFails
  <2>2. Less({ok, err})
    BY <1>3 DEF DocFind, At
  <2>3. QED BY <2>1, <2>2
<1>4. CASE DocDelete(o)
  <2>1. MovesTo(o, {"simRemove", "undoRemove"})
    BY <1>4, DocCallMoves, GotoMoves DEF DocDelete
  <2>2. Less({"simRemove", "undoRemove"})
    BY <1>4 DEF DocDelete, At
  <2>3. QED BY <2>1, <2>2
<1>5. CASE SimRemove(o)
  <2>1. PICK next \in {"rulesRemove", "ok"} : MovesTo(o, {next})
    BY <1>5, SimCallMoves DEF SimRemove
  <2>2. Less({next})
    BY <1>5 DEF SimRemove, At, Returned
  <2>3. QED BY <2>1, <2>2
<1>6. CASE RulesRemove(o)
  <2>1. MovesTo(o, {"ok", "failed"})
    BY <1>6, GotoMoves DEF RulesRemove, RulesRefused
  <2>2. Less({"ok", "failed"})
    BY <1>6 DEF RulesRemove, At, Returned
  <2>3. QED BY <2>1, <2>2
<1>7. CASE UndoRemove(o)
  <2>1. MovesTo(o, {"failed", "failed"}) /\ Less({"failed", "failed"})
    BY <1>7, HubCallMoves DEF UndoRemove, At, Returned
  <2>2. QED BY <2>1
<1>8. QED BY <1>1, <1>2, <1>3, <1>4, <1>5, <1>6, <1>7

LEMMA CountUpdate ==
    ASSUME TypeOK, NEW o \in Operators, NEW bound \in Nat, bound = Ahead[pc[o]],
           StatusGet(o) \/ StatusSet(o) \/ KeysGet(o) \/ UndoGet(o) \/ UndoSet(o)
             \/ DocRead(o) \/ DocExists(o) \/ TwinSync(o)
    PROVE  \E labels : MovesTo(o, labels) /\ \A l \in labels : Ahead[l] < bound
<1> DEFINE Less(labels) == \A l \in labels : Ahead[l] < bound
<1> USE AheadIs
<1>1. CASE StatusGet(o)
  <2>1. MovesTo(o, {"statusSet", "failed"})
    BY <1>1, ReadStatusMoves DEF StatusGet
  <2>2. Less({"statusSet", "failed"})
    BY <1>1 DEF StatusGet, At, Returned
  <2>3. QED BY <2>1, <2>2
<1>2. CASE StatusSet(o)
  <2>1. MovesTo(o, {"docFind", "failed"})
    BY <1>2, HubCallMoves DEF StatusSet, WriteStatus
  <2>2. Less({"docFind", "failed"})
    BY <1>2 DEF StatusSet, At, Returned
  <2>3. QED BY <2>1, <2>2
<1>3. CASE KeysGet(o)
  <2>1. MovesTo(o, {"simSave", "ok"})
    BY <1>3, GotoMoves DEF KeysGet
  <2>2. Less({"simSave", "ok"})
    BY <1>3 DEF KeysGet, At, Returned
  <2>3. QED BY <2>1, <2>2
<1>4. CASE UndoGet(o)
  <2>1. MovesTo(o, {"undoSet", "failed"})
    BY <1>4, ReadStatusMoves DEF UndoGet
  <2>2. Less({"undoSet", "failed"})
    BY <1>4 DEF UndoGet, At, Returned
  <2>3. QED BY <2>1, <2>2
<1>5. CASE UndoSet(o)
  <2>1. MovesTo(o, {"failed", "failed"}) /\ Less({"failed", "failed"})
    BY <1>5, HubCallMoves DEF UndoSet, WriteStatus, At, Returned
  <2>2. QED BY <2>1
<1>6. CASE DocRead(o)
  <2>1. MovesTo(o, {"docExists", "failed"})
    BY <1>6, GotoMoves DEF DocRead, ReadFails
  <2>2. Less({"docExists", "failed"})
    BY <1>6 DEF DocRead, At, Returned
  <2>3. QED BY <2>1, <2>2
<1>7. CASE DocExists(o)
  <2>1. MovesTo(o, {"docSave", "failed"})
    BY <1>7, GotoMoves DEF DocExists, ReadFails
  <2>2. Less({"docSave", "failed"})
    BY <1>7 DEF DocExists, At, Returned
  <2>3. QED BY <2>1, <2>2
<1>8. CASE TwinSync(o)
  <2>1. MovesTo(o, {"ok", "failed"})
    BY <1>8, GotoMoves DEF TwinSync
  <2>2. Less({"ok", "failed"})
    BY <1>8 DEF TwinSync, At, Returned
  <2>3. QED BY <2>1, <2>2
<1>9. QED BY <1>1, <1>2, <1>3, <1>4, <1>5, <1>6, <1>7, <1>8

LEMMA CountStep ==
    ASSUME TypeOK, TypeOK', NEW o \in Operators, Step(o)
    PROVE  CallsLeft(o)' \in 0 .. CallsLeft(o) - 1
<1>1. pc[o] \notin Returned /\ pc[o] \in Labels
  BY StepAtWork DEF TypeOK
<1>2. Ahead[pc[o]] \in Nat
  BY <1>1, AheadIs
<1>3. \E labels : MovesTo(o, labels) /\ \A l \in labels : Ahead[l] < Ahead[pc[o]]
  BY <1>2, CountAdd, CountRemove, CountUpdate DEF Step
<1>4. QED BY <1>1, <1>3, FewerLeft

\* where another operation is, and what it has spent
Untouched(p) == UNCHANGED <<pc[p], attempt[p], faults[p]>>

LEMMA CountOthers ==
    ASSUME TypeOK, NEW o \in Operators, Step(o) \/ Begin(o) \/ Crash(o), NEW p \in Operators, p # o
    PROVE  Untouched(p)
<1>1. ASSUME NEW label, Goto(o, label) \/ GotoAfterFault(o, label) \/ Retry(o) PROVE Untouched(p)
  BY <1>1 DEF Untouched, Goto, GotoAfterFault, Retry, Spend, TypeOK
<1>2. CASE Begin(o)
  BY <1>2 DEF Untouched, Begin, TypeOK
<1>3. CASE Crash(o)
  BY <1>1, <1>3 DEF Crash
<1>4. ASSUME NEW call, NEW accepts, NEW effect, NEW ok, NEW err, HubCall(o, call, accepts, effect, ok, err)
      PROVE  Untouched(p)
  BY <1>1, <1>4 DEF HubCall
<1>5. ASSUME NEW call, NEW effect, NEW ok, NEW err, TwinCall(o, call, effect, ok, err) PROVE Untouched(p)
  BY <1>1, <1>5 DEF TwinCall
<1>6. ASSUME NEW call, NEW id, NEW value, NEW ok, NEW err, DocCall(o, call, id, value, ok, err) PROVE Untouched(p)
  BY <1>1, <1>6 DEF DocCall
<1>7. ASSUME NEW k, NEW next, SimCall(o, k, next) PROVE Untouched(p)
  BY <1>1, <1>7 DEF SimCall
<1>8. ASSUME NEW next, ReadStatus(o, next) PROVE Untouched(p)
  BY <1>1, <1>8 DEF ReadStatus, GetFails
<1>9. CASE Validate(o) \/ DocCheck(o) \/ HubGet(o) \/ DocFind(o) \/ RulesRemove(o) \/ KeysGet(o)
             \/ DocRead(o) \/ DocExists(o) \/ TwinSync(o)
  BY <1>1, <1>9 DEF Validate, DocCheck, HubGet, DocFind, RulesRemove, RulesRefused, KeysGet, DocRead, DocExists,
     TwinSync, ReadFails, GetFails
<1>10. CASE HubAdd(o) \/ UndoAdd(o) \/ HubRemove(o) \/ UndoRemove(o) \/ StatusSet(o) \/ UndoSet(o)
  BY <1>4, <1>10 DEF HubAdd, UndoAdd, HubRemove, UndoRemove, StatusSet, UndoSet, WriteStatus
<1>11. CASE HubTwin(o) \/ Tag(o)
  BY <1>5, <1>11 DEF HubTwin, Tag
<1>12. CASE DocSave(o) \/ DocDelete(o)
  BY <1>1, <1>6, <1>12 DEF DocSave, DocDelete
<1>13. CASE SimSave(o) \/ SimRemove(o)
  BY <1>7, <1>13 DEF SimSave, SimRemove
<1>14. CASE StatusGet(o) \/ UndoGet(o)
  BY <1>8, <1>14 DEF StatusGet, UndoGet
<1>15. QED BY <1>2, <1>3, <1>9, <1>10, <1>11, <1>12, <1>13, <1>14 DEF Step

(* Whatever fails, and for as long as it fails (any Faults, Unlimited or     *)
(* not), every call an operation makes leaves it fewer to make, and nothing  *)
(* else changes how many: retries are bounded and no rollback starts over.   *)
THEOREM CallsCountDownAlways == Spec => CallsCountDown
<1> DEFINE Down(o) == pc[o] \notin Returned =>
                        \/ CallsLeft(o)' \in 0 .. CallsLeft(o) - 1
                        \/ UNCHANGED <<pc[o], attempt[o], faults[o]>>
<1>1. TypeOK /\ [Next]_vars => [\A o \in Operators : Down(o)]_vars
  <2> SUFFICES ASSUME TypeOK, Next, NEW o \in Operators, pc[o] \notin Returned
               PROVE  \/ CallsLeft(o)' \in 0 .. CallsLeft(o) - 1
                      \/ UNCHANGED <<pc[o], attempt[o], faults[o]>>
    OBVIOUS
  <2>1. TypeOK'
    BY NextOK
  <2>2. CASE Step(o)
    BY <2>1, <2>2, CountStep
  <2>3. CASE Crash(o)
    <3>1. CallsLeft(o) \in Nat /\ CallsLeft(o) > 0
      <4>1. CallsLeft(o) \in 0 .. 8 * (RETRY_COUNT + 1)
        BY LeftIs
      <4>2. QED BY <4>1, CallsLeftPositive, ConstantsAssumption
    <3>2. pc'[o] = "crashed"
      BY <2>3 DEF Crash, GotoAfterFault, TypeOK
    <3>3. CallsLeft(o)' = 0
      BY <3>2 DEF CallsLeft, Returned
    <3>4. QED BY <3>1, <3>3
  <2>4. CASE \E p \in Operators \ {o} : Begin(p) \/ Step(p) \/ Crash(p)
    BY <2>4, CountOthers DEF Untouched
  <2>5. ~Begin(o)
    BY DEF Begin
  <2>6. CASE \E d \in Devices : SaveRule(d)
    BY <2>6 DEF SaveRule, control
  <2>7. QED BY <2>2, <2>3, <2>4, <2>5, <2>6 DEF Next
<1>2. QED BY <1>1, TypeCorrect, PTL DEF Spec, CallsCountDown

(* An operation, when it begins, has at most 8 * (RETRY_COUNT + 1) calls to  *)
(* make, and at least one for as long as it is under way.                    *)
THEOREM CallsAreBounded ==
    Spec => []\A o \in Operators :
                /\ CallsLeft(o) \in 0 .. 8 * (RETRY_COUNT + 1)
                /\ CallsLeft(o) = 0 <=> pc[o] \in Returned
<1>1. TypeOK => \A o \in Operators :
                  /\ CallsLeft(o) \in 0 .. 8 * (RETRY_COUNT + 1)
                  /\ CallsLeft(o) = 0 <=> pc[o] \in Returned
  <2> SUFFICES ASSUME TypeOK, NEW o \in Operators
               PROVE  /\ CallsLeft(o) \in 0 .. 8 * (RETRY_COUNT + 1)
                      /\ CallsLeft(o) = 0 <=> pc[o] \in Returned
    OBVIOUS
  <2>1. CallsLeft(o) \in 0 .. 8 * (RETRY_COUNT + 1)
    BY LeftIs
  <2>2. pc[o] \notin Returned => CallsLeft(o) > 0
    BY CallsLeftPositive
  <2>3. pc[o] \in Returned => CallsLeft(o) = 0
    BY DEF CallsLeft
  <2>4. QED BY <2>1, <2>2, <2>3, ConstantsAssumption
<1>2. QED BY <1>1, TypeCorrect, PTL

-----------------------------------------------------------------------------
(* In turn: what an operation has achieved before each of its calls, and so  *)
(* when it returns, while the operations on a device follow one another or   *)
(* only removals of it overlap                                               *)

OneDocument ==
    \A d \in Devices : \A j, k \in Keys : docs[d][j] # Absent /\ docs[d][k] # Absent => j = k
Bare(d) == \A k \in Keys : docs[d][k] = Absent

AddSteps(o) ==
    /\ pc[o] \in Returned \union AddCalls
    /\ pc[o] \in AddCalls => key[o] \in Keys
    /\ pc[o] \in {"hubTwin", "docCheck", "docSave", "tag", "simSave"} => identity[dev[o]].key = key[o]
    /\ pc[o] = "docSave" => Bare(dev[o])
    /\ pc[o] \in {"tag", "simSave"} => docs[dev[o]][key[o]] # Absent
    /\ pc[o] = "simSave" => identity[dev[o]].tag = "Running"

\* whatever other removals of the device do meanwhile
RemoveSteps(o) ==
    /\ pc[o] \in Returned \union RemoveCalls
    /\ pc[o] = "docDelete" => doc[o] \in Keys

WantedEnabled(o) == IF Kind(o, {"enable"}) THEN "on" ELSE "off"
WantedTag(o)     == IF Kind(o, {"disable"}) THEN "Disabled" ELSE "Running"

StatusSteps(o) ==
    /\ pc[o] \in Returned \union StatusCalls
    /\ pc[o] \in {"keysGet", "simSave"} => kind[o] = "enable"
    /\ pc[o] \in {"docFind", "docSave", "tag"} => Present(dev[o])
    /\ pc[o] \in {"docFind", "docSave", "tag", "keysGet", "simSave", "simRemove"}
         => identity[dev[o]].status = Wanted(o)
    /\ pc[o] = "docSave" => doc[o] \in Keys /\ docs[dev[o]][doc[o]] # Absent
    /\ pc[o] \in {"tag", "keysGet", "simSave", "simRemove"} => docs[dev[o]][doc[o]] = WantedEnabled(o)
    /\ pc[o] \in {"keysGet", "simSave", "simRemove"} => identity[dev[o]].tag = WantedTag(o)

SaveSteps(o) ==
    /\ pc[o] \in Returned \union SaveCalls
    /\ pc[o] \in {"docExists", "docSave"} =>
         doc[o] \in Keys /\ docs[dev[o]][doc[o]] = enabled[o] /\ enabled[o] # Absent

Steps(o) ==
    /\ pc[o] \notin Returned => kind[o] \in AllKinds
    /\ kind[o] \in AddKinds    => AddSteps(o)
    /\ kind[o] = "remove"      => RemoveSteps(o)
    /\ kind[o] \in StatusKinds => StatusSteps(o)
    /\ kind[o] \in SaveKinds   => SaveSteps(o)

\* two operations on one device are removals
Apart ==
    \A o, p \in Operators :
      o # p /\ pc[o] \notin Returned /\ pc[p] \notin Returned /\ dev[o] = dev[p]
        => kind[o] = "remove" /\ kind[p] = "remove"

TurnsInv ==
    /\ CallsInv
    /\ OneDocument
    /\ Apart
    /\ \A o \in Operators : Steps(o)

\* a step leaves its own operation where the invariant has it, and an operation
\* other than a removal returns normally only when it is done
Went(o) ==
    /\ OneDocument'
    /\ Steps(o)'
    /\ (pc[o] = "ok" => kind[o] = "remove" \/ Done(o))'

LEMMA TurnsInit == Init => TurnsInv
<1> SUFFICES ASSUME Init PROVE TurnsInv
  OBVIOUS
<1>1. CallsInv
  BY CallsInit
<1>2. OneDocument
  BY DEF Init, OneDocument, Absent
<1>3. \A o \in Operators : pc[o] = "idle" /\ kind[o] = "none"
  BY DEF Init
<1>4. Apart /\ \A o \in Operators : Steps(o)
  BY <1>3 DEF Apart, Steps, Returned, AddKinds, StatusKinds, SaveKinds
<1>5. QED BY <1>1, <1>2, <1>4 DEF TurnsInv

\* what the invariant says of an operation under way
LEMMA TurnsAt ==
    ASSUME TurnsInv, NEW o \in Operators, pc[o] \notin Returned
    PROVE  /\ TypeOK /\ OneDocument /\ dev[o] \in Devices
           /\ \/ kind[o] \in AddKinds /\ AddSteps(o)
              \/ kind[o] = "remove" /\ RemoveSteps(o)
              \/ kind[o] \in StatusKinds /\ StatusSteps(o)
              \/ kind[o] \in SaveKinds /\ SaveSteps(o)
BY DEF TurnsInv, CallsInv, Steps, TypeOK, AllKinds

\* an Add, a removal, ... goes on
LEMMA AddGoesOn ==
    ASSUME NEW o \in Operators, OneDocument', (kind[o] \in AddKinds)', AddSteps(o)',
           (pc[o] = "ok" => Done(o))'
    PROVE  Went(o)
BY KindsApart DEF Steps, Went
LEMMA RemoveGoesOn ==
    ASSUME NEW o \in Operators, OneDocument', (kind[o] = "remove")', RemoveSteps(o)'
    PROVE  Went(o)
BY KindsApart DEF Steps, Went
LEMMA StatusGoesOn ==
    ASSUME NEW o \in Operators, OneDocument', (kind[o] \in StatusKinds)', StatusSteps(o)',
           (pc[o] = "ok" => Done(o))'
    PROVE  Went(o)
BY KindsApart DEF Steps, Went
LEMMA SaveGoesOn ==
    ASSUME NEW o \in Operators, OneDocument', (kind[o] \in SaveKinds)', SaveSteps(o)'
    PROVE  Went(o)
<1>1. Done(o)'
  BY KindsApart DEF Done, Kind, SaveKinds, AddKinds
<1>2. QED BY <1>1, KindsApart DEF Steps, Went

\* twin updates keep everything of the identity but the tag
LEMMA TwinCallEffect ==
    ASSUME TypeOK, NEW o \in Operators, dev[o] \in Devices, NEW call, NEW effect, NEW ok, NEW err,
           TwinCall(o, call, effect, ok, err)
    PROVE  /\ UNCHANGED <<docs, sim, rules, task, memory>>
           /\ \/ identity'[dev[o]] = effect /\ pc'[o] = ok
              \/ pc'[o] = err
<1>1. UNCHANGED <<docs, sim, rules, task, memory>>
  BY DEF TwinCall
<1>2. CASE SetIdentity(dev[o], effect) /\ Goto(o, ok)
  BY <1>1, <1>2 DEF SetIdentity, Goto, TypeOK
<1>3. CASE Goto(o, err) \/ GotoAfterFault(o, err)
  BY <1>1, <1>3 DEF Goto, GotoAfterFault, TypeOK
<1>4. QED BY <1>2, <1>3 DEF TwinCall

LEMMA TurnsAdd ==
    ASSUME TurnsInv, NEW o \in Operators,
           Validate(o) \/ HubAdd(o) \/ HubTwin(o) \/ DocCheck(o) \/ UndoAdd(o)
    PROVE  Went(o)
<1>1. /\ pc[o] \in {"validate", "hubAdd", "hubTwin", "docCheck", "undoAdd"}
      /\ pc[o] \notin Returned
  BY DEF Validate, HubAdd, HubTwin, DocCheck, UndoAdd, At, Returned
<1>2. /\ TypeOK /\ OneDocument /\ dev[o] \in Devices
      /\ kind[o] \in AddKinds /\ AddSteps(o) /\ key[o] \in Keys
  BY <1>1, TurnsAt DEF AddSteps, RemoveSteps, StatusSteps, SaveSteps,
     Returned, AddCalls, RemoveCalls, StatusCalls, SaveCalls
<1>3. UNCHANGED <<docs, task, memory>>
  BY DEF Validate, HubAdd, HubTwin, DocCheck, UndoAdd, HubCall, TwinCall, stores
<1>4. UNCHANGED <<docs, kind, dev, key>>
  BY <1>3 DEF task, memory
<1>5. OneDocument'
  BY <1>2, <1>4 DEF OneDocument
<1>7. ASSUME AddSteps(o)', pc'[o] # "ok" PROVE Went(o)
  BY <1>2, <1>4, <1>5, <1>7, AddGoesOn
<1>8. CASE Validate(o)
  <2>1. PICK label \in {"hubAdd", "failed"} : Goto(o, label) \/ GotoAfterFault(o, label)
    BY <1>8 DEF Validate, ReadFails
  <2>2. pc'[o] = label
    BY <1>2, <2>1 DEF Goto, GotoAfterFault, TypeOK
  <2>3. AddSteps(o)'
    BY <1>2, <1>4, <2>2 DEF AddSteps, AddCalls, Returned
  <2>4. QED BY <1>7, <2>2, <2>3
<1>9. CASE HubAdd(o)
  <2>1. PICK next \in {"hubTwin", "docCheck"} :
          HubCall(o, "hubAdd", ~Present(dev[o]), Identity(key[o], "enabled"), next, "failed")
    BY <1>9 DEF HubAdd
  <2>2. \/ SetIdentity(dev[o], Identity(key[o], "enabled")) /\ pc'[o] = next
        \/ pc'[o] \in {"failed", pc[o]}
    BY <1>2, <2>1, HubCallDoes
  <2>3. pc[o] = "hubAdd"
    BY <1>9 DEF HubAdd, At
  <2>4. pc'[o] = next => identity'[dev[o]].key = key[o]
    BY <1>2, <2>2, <2>3 DEF SetIdentity, Identity, TypeOK
  <2>5. AddSteps(o)' /\ pc'[o] # "ok"
    BY <1>2, <1>4, <2>2, <2>3, <2>4 DEF AddSteps, AddCalls, Returned
  <2>6. QED BY <1>7, <2>5
<1>10. CASE HubTwin(o)
  <2>1. \/ identity'[dev[o]] = identity[dev[o]] /\ pc'[o] = "docCheck"
        \/ pc'[o] = "failed"
    BY <1>2, <1>10, TwinCallEffect DEF HubTwin
  <2>2. identity[dev[o]].key = key[o]
    BY <1>2, <1>10 DEF AddSteps, HubTwin, At
  <2>3. AddSteps(o)' /\ pc'[o] # "ok"
    BY <1>2, <1>4, <2>1, <2>2 DEF AddSteps, AddCalls, Returned
  <2>4. QED BY <1>7, <2>3
<1>11. CASE DocCheck(o)
  <2>1. \/ pc'[o] = "docSave" /\ DocIds(dev[o]) = {}
        \/ pc'[o] = "undoAdd"
    BY <1>2, <1>11 DEF DocCheck, ReadFails, Goto, GotoAfterFault, TypeOK
  <2>2. identity[dev[o]].key = key[o] /\ UNCHANGED identity
    BY <1>2, <1>11 DEF AddSteps, DocCheck, At, stores
  <2>3. pc'[o] = "docSave" => Bare(dev[o])
    BY <2>1 DEF DocIds, Bare
  <2>4. AddSteps(o)' /\ pc'[o] # "ok"
    BY <1>2, <1>4, <2>1, <2>2, <2>3 DEF AddSteps, AddCalls, Returned, Bare
  <2>5. QED BY <1>7, <2>4
<1>12. CASE UndoAdd(o)
  <2>1. pc'[o] \in {"failed", pc[o]} /\ pc[o] = "undoAdd"
    BY <1>2, <1>12, HubCallDoes DEF UndoAdd, At
  <2>2. AddSteps(o)' /\ pc'[o] # "ok"
    BY <1>2, <1>4, <2>1 DEF AddSteps, AddCalls, Returned
  <2>3. QED BY <1>7, <2>2
<1>13. QED BY <1>8, <1>9, <1>10, <1>11, <1>12

LEMMA TurnsDocSave ==
    ASSUME TurnsInv, NEW o \in Operators, DocSave(o)
    PROVE  Went(o)
<1>1. pc[o] = "docSave" /\ pc[o] \notin Returned
  BY DEF DocSave, At, Returned
<1>2. /\ TypeOK /\ OneDocument /\ dev[o] \in Devices
      /\ \/ kind[o] \in AddKinds /\ AddSteps(o)
         \/ kind[o] \in StatusKinds /\ StatusSteps(o)
         \/ kind[o] \in SaveKinds /\ SaveSteps(o)
  BY <1>1, TurnsAt DEF RemoveSteps, RemoveCalls
\* what the call does, and that one document stays one document
<1>3. ASSUME NEW id \in Keys, NEW value, NEW ok, NEW err,
             DocCall(o, "docSave", id, value, ok, err),
             \/ Bare(dev[o])
             \/ docs[dev[o]][id] # Absent
      PROVE  /\ OneDocument'
             /\ UNCHANGED <<identity, kind, dev, key, doc>>
             /\ \/ pc'[o] = ok /\ docs'[dev[o]][id] = value
                \/ pc'[o] = err
  <2>1. DocCallDone(o, "docSave", id, value, ok, err)
    BY <1>2, <1>3, DocCallDoes
  <2>2. UNCHANGED <<identity, kind, dev, key, doc>>
    BY <1>3 DEF DocCall, task, memory
  <2>3. docs' = [docs EXCEPT ![dev[o]][id] = value] \/ UNCHANGED docs
    BY <2>1 DEF DocCallDone
  <2>4. \A k \in Keys : docs[dev[o]][k] # Absent => k = id
    BY <1>2, <1>3 DEF OneDocument, Bare
  <2>5. \A d \in Devices, k \in Keys : docs'[d][k] # docs[d][k] => d = dev[o] /\ k = id
    BY <1>2, <2>3 DEF TypeOK
  <2>6. ASSUME NEW d \in Devices, NEW j \in Keys, NEW k \in Keys,
               docs'[d][j] # Absent, docs'[d][k] # Absent
        PROVE  j = k
    <3>1. CASE d = dev[o]
      BY <2>4, <2>5, <2>6, <3>1
    <3>2. CASE d # dev[o]
      BY <1>2, <2>5, <2>6, <3>2 DEF OneDocument
    <3>3. QED BY <3>1, <3>2
  <2>7. OneDocument'
    BY <2>6 DEF OneDocument
  <2>8. \/ pc'[o] = ok /\ docs'[dev[o]][id] = value
        \/ pc'[o] = err
    BY <1>2, <2>1 DEF DocCallDone, TypeOK
  <2>9. QED BY <2>2, <2>7, <2>8
<1>4. ASSUME Kind(o, AddKinds), NEW value \in NewEnabled,
             DocCall(o, "docSave", key[o], value, "tag", "undoAdd")
      PROVE  Went(o)
  <2>1. kind[o] \in AddKinds /\ AddSteps(o) /\ key[o] \in Keys /\ Bare(dev[o])
    BY <1>1, <1>2, <1>4, KindsApart DEF Kind, AddSteps, AddCalls
  <2>2. /\ OneDocument'
        /\ UNCHANGED <<identity, kind, dev, key, doc>>
        /\ \/ pc'[o] = "tag" /\ docs'[dev[o]][key[o]] = value
           \/ pc'[o] = "undoAdd"
    BY <1>3, <1>4, <2>1
  <2>3. value # Absent
    BY DEF NewEnabled, Absent
  <2>4. AddSteps(o)' /\ pc'[o] # "ok"
    BY <1>1, <2>1, <2>2, <2>3 DEF AddSteps, AddCalls, Returned
  <2>5. QED BY <2>1, <2>2, <2>4, AddGoesOn
<1>5. ASSUME kind[o] \in StatusKinds, DocCall(o, "docSave", doc[o], WantedEnabled(o), "tag", "undoGet")
      PROVE  Went(o)
  <2>1. /\ StatusSteps(o) /\ doc[o] \in Keys /\ docs[dev[o]][doc[o]] # Absent
        /\ identity[dev[o]].status = Wanted(o) /\ Present(dev[o])
    BY <1>1, <1>2, <1>5, KindsApart DEF StatusSteps
  <2>2. /\ OneDocument'
        /\ UNCHANGED <<identity, kind, dev, key, doc>>
        /\ \/ pc'[o] = "tag" /\ docs'[dev[o]][doc[o]] = WantedEnabled(o)
           \/ pc'[o] = "undoGet"
    BY <1>3, <1>5, <2>1
  <2>3. StatusSteps(o)' /\ pc'[o] # "ok"
    BY <1>1, <2>1, <2>2 DEF StatusSteps, StatusCalls, Returned, Wanted, WantedEnabled, WantedTag, Kind, Present
  <2>4. QED BY <1>5, <2>2, <2>3, StatusGoesOn
<1>6. ASSUME kind[o] \in SaveKinds, NEW value, DocCall(o, "docSave", doc[o], value, "twinSync", "failed")
      PROVE  Went(o)
  <2>1. SaveSteps(o) /\ doc[o] \in Keys /\ docs[dev[o]][doc[o]] # Absent
    BY <1>1, <1>2, <1>6, KindsApart DEF SaveSteps
  <2>2. /\ OneDocument'
        /\ UNCHANGED <<identity, kind, dev, key, doc>>
        /\ pc'[o] \in {"twinSync", "failed"}
    BY <1>3, <1>6, <2>1
  <2>3. SaveSteps(o)'
    BY <2>2 DEF SaveSteps, SaveCalls, Returned
  <2>4. QED BY <1>6, <2>2, <2>3, SaveGoesOn
<1>7. CASE Kind(o, {"enable"}) /\ DocCall(o, "docSave", doc[o], "on", "tag", "undoGet")
  BY <1>5, <1>7 DEF Kind, WantedEnabled, StatusKinds
<1>8. CASE Kind(o, {"disable"}) /\ DocCall(o, "docSave", doc[o], "off", "tag", "undoGet")
  BY <1>5, <1>8 DEF Kind, WantedEnabled, StatusKinds
<1>9. CASE Kind(o, {"save"}) /\ DocCall(o, "docSave", doc[o], enabled[o], "twinSync", "failed")
  BY <1>6, <1>9 DEF Kind, SaveKinds
<1>10. CASE Kind(o, {"info"}) /\ DocCall(o, "docSave", doc[o], "on", "twinSync", "failed")
  BY <1>6, <1>10 DEF Kind, SaveKinds
<1>11. QED BY <1>4, <1>7, <1>8, <1>9, <1>10 DEF DocSave

\* before its last calls an operation has done what it stands for
LEMMA AddDone ==
    ASSUME NEW o \in Operators, (dev[o] \in Devices)', OneDocument', (kind[o] \in AddKinds)',
           (key[o] \in Keys)', (docs[dev[o]][key[o]] # Absent)',
           (identity[dev[o]].key = key[o])', (identity[dev[o]].tag = "Running")'
    PROVE  Done(o)'
<1>1. (DocIds(dev[o]) = {key[o]})'
  BY DEF OneDocument, DocIds
<1>2. QED BY <1>1, KindsApart DEF Done, Kind, StatusKinds

LEMMA StatusDone ==
    ASSUME NEW o \in Operators, (kind[o] \in StatusKinds)',
           (docs[dev[o]][doc[o]] = WantedEnabled(o))',
           (identity[dev[o]].status = Wanted(o))', (identity[dev[o]].tag = WantedTag(o))'
    PROVE  Done(o)'
BY KindsApart DEF Done, Kind, StatusKinds, Wanted, WantedEnabled, WantedTag

LEMMA TurnsTag ==
    ASSUME TurnsInv, NEW o \in Operators, Tag(o)
    PROVE  Went(o)
<1> DEFINE effect == [identity[dev[o]] EXCEPT !.tag = WantedTag(o)]
<1>1. pc[o] = "tag" /\ pc[o] \notin Returned
  BY DEF Tag, At, Returned
<1>2. /\ TypeOK /\ OneDocument /\ dev[o] \in Devices
      /\ \/ kind[o] \in AddKinds /\ AddSteps(o)
         \/ kind[o] \in StatusKinds /\ StatusSteps(o)
  BY <1>1, TurnsAt DEF RemoveSteps, RemoveCalls, SaveSteps, SaveCalls, Returned
<1>3. /\ effect.key = identity[dev[o]].key /\ effect.status = identity[dev[o]].status
      /\ effect.tag = WantedTag(o)
  BY <1>2 DEF TypeOK, IdentityRecord
<1>4. TwinCall(o, "tag", effect, AfterTag(o), IF Kind(o, AddKinds) THEN "undoAdd" ELSE "undoGet")
  BY DEF Tag, WantedTag
<1> HIDE DEF effect
<1>5. /\ UNCHANGED <<docs, kind, dev, key, doc>>
      /\ \/ identity'[dev[o]] = effect /\ pc'[o] = AfterTag(o)
         \/ pc'[o] = IF Kind(o, AddKinds) THEN "undoAdd" ELSE "undoGet"
  BY <1>2, <1>4, TwinCallEffect DEF task, memory
<1>6. OneDocument'
  BY <1>2, <1>5 DEF OneDocument
<1>7. CASE kind[o] \in AddKinds
  <2>1. /\ AddSteps(o) /\ key[o] \in Keys /\ docs[dev[o]][key[o]] # Absent
        /\ identity[dev[o]].key = key[o]
    BY <1>1, <1>2, <1>7, KindsApart DEF AddSteps, AddCalls
  <2>2. /\ \/ /\ identity'[dev[o]].key = key[o] /\ identity'[dev[o]].tag = "Running"
              /\ pc'[o] \in {"ok", "simSave"}
           \/ pc'[o] = "undoAdd"
    BY <1>3, <1>5, <1>7, <2>1, KindsApart DEF AfterTag, Kind, WantedTag, StatusKinds
  <2>3. AddSteps(o)'
    BY <1>5, <2>1, <2>2 DEF AddSteps, AddCalls, Returned
  <2>4. (pc[o] = "ok" => Done(o))'
    BY <1>2, <1>5, <1>6, <1>7, <2>1, <2>2, AddDone
  <2>5. QED BY <1>5, <1>6, <1>7, <2>3, <2>4, AddGoesOn
<1>8. CASE kind[o] \in StatusKinds
  <2>1. /\ docs[dev[o]][doc[o]] = WantedEnabled(o) /\ identity[dev[o]].status = Wanted(o)
    BY <1>1, <1>2, <1>8, KindsApart DEF StatusSteps
  <2>2. \/ /\ identity'[dev[o]].status = Wanted(o) /\ identity'[dev[o]].tag = WantedTag(o)
           /\ pc'[o] = "ok" \/ pc'[o] = "simRemove" \/ (pc'[o] = "keysGet" /\ kind[o] = "enable")
        \/ pc'[o] = "undoGet"
    BY <1>3, <1>5, <1>8, <2>1, KindsApart DEF AfterTag, Kind
  <2>3. WantedEnabled(o)' = WantedEnabled(o) /\ WantedTag(o)' = WantedTag(o) /\ Wanted(o)' = Wanted(o)
    BY <1>5 DEF WantedEnabled, WantedTag, Wanted, Kind
  <2>4. StatusSteps(o)'
    BY <1>5, <2>1, <2>2, <2>3 DEF StatusSteps, StatusCalls, Returned
  <2>5. (pc[o] = "ok" => Done(o))'
    BY <1>5, <1>8, <2>1, <2>2, <2>3, StatusDone
  <2>6. QED BY <1>5, <1>6, <1>8, <2>4, <2>5, StatusGoesOn
<1>9. QED BY <1>2, <1>7, <1>8

LEMMA TurnsSim ==
    ASSUME TurnsInv, NEW o \in Operators, SimSave(o) \/ SimRemove(o)
    PROVE  Went(o)
<1>1. pc[o] \in {"simSave", "simRemove"} /\ pc[o] \notin Returned
  BY DEF SimSave, SimRemove, At, Returned
<1>2. /\ TypeOK /\ OneDocument /\ dev[o] \in Devices
      /\ \/ kind[o] \in AddKinds /\ AddSteps(o)
         \/ kind[o] = "remove" /\ RemoveSteps(o)
         \/ kind[o] \in StatusKinds /\ StatusSteps(o)
  BY <1>1, TurnsAt DEF SaveSteps, SaveCalls, Returned
<1>3. UNCHANGED <<identity, docs, kind, dev, key, doc>>
  BY DEF SimSave, SimRemove, SimCall, task, memory
<1>4. OneDocument'
  BY <1>2, <1>3 DEF OneDocument
<1>5. pc'[o] = IF pc[o] = "simRemove" /\ kind[o] = "remove" THEN "rulesRemove" ELSE "ok"
  <2>1. CASE SimSave(o)
    BY <1>2, <2>1, SimCallDoes DEF SimSave, At
  <2>2. CASE SimRemove(o)
    BY <1>2, <2>2, SimCallDoes DEF SimRemove, At, Kind
  <2>3. QED BY <2>1, <2>2
<1>6. CASE kind[o] \in AddKinds
  <2>1. /\ pc[o] = "simSave" /\ key[o] \in Keys /\ docs[dev[o]][key[o]] # Absent
        /\ identity[dev[o]].key = key[o] /\ identity[dev[o]].tag = "Running"
    BY <1>1, <1>2, <1>6, KindsApart DEF AddSteps, AddCalls, Returned
  <2>2. Done(o)'
    BY <1>2, <1>3, <1>4, <1>6, <2>1, AddDone
  <2>3. AddSteps(o)'
    BY <1>5, <2>1 DEF AddSteps, AddCalls, Returned
  <2>4. QED BY <1>3, <1>4, <1>6, <2>2, <2>3, AddGoesOn
<1>7. CASE kind[o] = "remove"
  <2>1. pc'[o] = "rulesRemove"
    BY <1>1, <1>2, <1>5, <1>7, KindsApart DEF RemoveSteps, RemoveCalls, Returned
  <2>2. RemoveSteps(o)'
    BY <2>1 DEF RemoveSteps, RemoveCalls
  <2>3. QED BY <1>3, <1>4, <1>7, <2>2, RemoveGoesOn
<1>8. CASE kind[o] \in StatusKinds
  <2>1. /\ docs[dev[o]][doc[o]] = WantedEnabled(o)
        /\ identity[dev[o]].status = Wanted(o) /\ identity[dev[o]].tag = WantedTag(o)
    BY <1>1, <1>2, <1>8, KindsApart DEF StatusSteps
  <2>2. WantedEnabled(o)' = WantedEnabled(o) /\ WantedTag(o)' = WantedTag(o) /\ Wanted(o)' = Wanted(o)
    BY <1>3 DEF WantedEnabled, WantedTag, Wanted, Kind
  <2>3. Done(o)'
    BY <1>3, <1>8, <2>1, <2>2, StatusDone
  <2>4. StatusSteps(o)'
    BY <1>5, <1>8, KindsApart DEF StatusSteps, Returned
  <2>5. QED BY <1>3, <1>4, <1>8, <2>3, <2>4, StatusGoesOn
<1>9. QED BY <1>2, <1>6, <1>7, <1>8

LEMMA TurnsStatus ==
    ASSUME TurnsInv, NEW o \in Operators,
           StatusGet(o) \/ StatusSet(o) \/ UndoGet(o) \/ UndoSet(o) \/ KeysGet(o)
    PROVE  Went(o)
<1>1. pc[o] \in {"statusGet", "statusSet", "undoGet", "undoSet", "keysGet"} /\ pc[o] \notin Returned
  BY DEF StatusGet, StatusSet, UndoGet, UndoSet, KeysGet, At, Returned
<1>2. TypeOK /\ OneDocument /\ dev[o] \in Devices /\ kind[o] \in StatusKinds /\ StatusSteps(o)
  BY <1>1, TurnsAt DEF AddSteps, AddCalls, RemoveSteps, RemoveCalls, SaveSteps, SaveCalls, Returned
<1>3. UNCHANGED <<docs, kind, dev, doc>>
  BY DEF StatusGet, StatusSet, UndoGet, UndoSet, KeysGet, WriteStatus, HubCall, task, memory, stores
<1>4. OneDocument'
  BY <1>2, <1>3 DEF OneDocument
<1>5. WantedEnabled(o)' = WantedEnabled(o) /\ WantedTag(o)' = WantedTag(o) /\ Wanted(o)' = Wanted(o)
  BY <1>3 DEF WantedEnabled, WantedTag, Wanted, Kind
<1>6. ASSUME pc'[o] \in {"statusGet", "statusSet", "undoGet", "undoSet", "failed"} PROVE Went(o)
  <2>1. StatusSteps(o)' /\ pc'[o] # "ok"
    BY <1>6 DEF StatusSteps, StatusCalls, Returned
  <2>2. QED BY <1>2, <1>3, <1>4, <2>1, StatusGoesOn
<1>7. CASE StatusGet(o)
  <2>1. pc'[o] \in {"statusSet", "failed", "statusGet"}
    BY <1>2, <1>7, ReadStatusDoes DEF StatusGet, At, memory
  <2>2. QED BY <1>6, <2>1
<1>8. CASE StatusSet(o)
  <2> DEFINE accepts == Present(dev[o]) /\ o \in identity[dev[o]].readers
             effect  == [identity[dev[o]] EXCEPT !.status = Wanted(o), !.readers = {}]
  <2>1. HubCall(o, "hubUpdate", accepts, effect, "docFind", "failed") /\ pc[o] = "statusSet"
    BY <1>8 DEF StatusSet, WriteStatus, At
  <2>2. effect.status = Wanted(o) /\ effect.key = identity[dev[o]].key
    BY <1>2 DEF TypeOK, IdentityRecord
  <2> HIDE DEF accepts, effect
  <2>3. \/ SetIdentity(dev[o], effect) /\ accepts /\ pc'[o] = "docFind"
        \/ pc'[o] \in {"failed", "statusSet"}
    <3>1. \/ SetIdentity(dev[o], effect) /\ accepts /\ Goto(o, "docFind")
          \/ Goto(o, "failed") \/ Retry(o) \/ GotoAfterFault(o, "failed")
      BY <2>1 DEF HubCall
    <3>2. QED BY <1>2, <2>1, <3>1 DEF Goto, Retry, GotoAfterFault, TypeOK
  <2>4. CASE SetIdentity(dev[o], effect) /\ accepts /\ pc'[o] = "docFind"
    <3>1. identity'[dev[o]].status = Wanted(o) /\ identity'[dev[o]].key # NoKey
      BY <1>2, <2>2, <2>4 DEF SetIdentity, TypeOK, Present, accepts
    <3>2. StatusSteps(o)' /\ pc'[o] # "ok"
      BY <1>3, <1>5, <2>4, <3>1 DEF StatusSteps, StatusCalls, Returned, Present
    <3>3. QED BY <1>2, <1>3, <1>4, <3>2, StatusGoesOn
  <2>5. QED BY <1>6, <2>3, <2>4
<1>9. CASE UndoGet(o)
  <2>1. pc'[o] \in {"undoSet", "failed", "undoGet"}
    BY <1>2, <1>9, ReadStatusDoes DEF UndoGet, At, memory
  <2>2. QED BY <1>6, <2>1
<1>10. CASE UndoSet(o)
  <2>1. pc'[o] \in {"failed", "undoSet"}
    BY <1>2, <1>10, WriteStatusDoes DEF UndoSet, At
  <2>2. QED BY <1>6, <2>1
<1>11. CASE KeysGet(o)
  <2>1. pc'[o] \in {"simSave", "ok"} /\ UNCHANGED identity
    BY <1>2, <1>11 DEF KeysGet, Goto, GotoAfterFault, TypeOK, stores
  <2>2. /\ docs[dev[o]][doc[o]] = WantedEnabled(o) /\ kind[o] = "enable"
        /\ identity[dev[o]].status = Wanted(o) /\ identity[dev[o]].tag = WantedTag(o)
    BY <1>2, <1>11 DEF StatusSteps, KeysGet, At
  <2>3. StatusSteps(o)'
    BY <1>3, <1>5, <2>1, <2>2 DEF StatusSteps, StatusCalls, Returned
  <2>4. Done(o)'
    BY <1>2, <1>3, <1>5, <2>1, <2>2, StatusDone
  <2>5. QED BY <1>2, <1>3, <1>4, <2>3, <2>4, StatusGoesOn
<1>12. QED BY <1>7, <1>8, <1>9, <1>10, <1>11

LEMMA TurnsRemove ==
    ASSUME TurnsInv, NEW o \in Operators,
           HubGet(o) \/ HubRemove(o) \/ DocDelete(o) \/ RulesRemove(o) \/ UndoRemove(o)
    PROVE  Went(o)
<1>1. CallsInv /\ TypeOK /\ OneDocument
  BY DEF TurnsInv, CallsInv
<1>2. Own(o) /\ CallsOK(o)' /\ kind[o] = "remove"
  BY <1>1, OwnRemove
<1>3. pc[o] \notin Returned /\ dev[o] \in Devices /\ RemoveSteps(o)
  <2>1. pc[o] \notin Returned
    BY DEF HubGet, HubRemove, DocDelete, RulesRemove, UndoRemove, At, Returned
  <2>2. QED BY <1>2, <2>1, TurnsAt, KindsApart
<1>4. kind'[o] = "remove" /\ pc'[o] \in Returned \union RemoveCalls
  BY <1>2, KindsApart DEF Own, CallsOK
<1>5. pc'[o] # "docDelete"
  <2>1. CASE HubGet(o)
    BY <1>1, <2>1 DEF HubGet, GetFails, Goto, GotoAfterFault, Retry, TypeOK, At
  <2>2. CASE HubRemove(o)
    BY <1>1, <2>2, HubCallOwn DEF HubRemove, At
  <2>3. CASE DocDelete(o)
    <3>1. \/ DocCall(o, "docDelete", doc[o], Absent, "simRemove", "undoRemove")
          \/ Goto(o, "undoRemove")
      BY <2>3 DEF DocDelete
    <3>2. QED BY <1>1, <3>1 DEF DocCall, Goto, GotoAfterFault, TypeOK
  <2>4. CASE RulesRemove(o)
    BY <1>1, <2>4 DEF RulesRemove, RulesRefused, Goto, GotoAfterFault, TypeOK
  <2>5. CASE UndoRemove(o)
    BY <1>1, <2>5, HubCallOwn DEF UndoRemove, At
  <2>6. QED BY <2>1, <2>2, <2>3, <2>4, <2>5
<1>6. OneDocument'
  <2>1. CASE DocDelete(o)
    <3>1. docs' = [docs EXCEPT ![dev[o]][doc[o]] = Absent] \/ UNCHANGED docs
      BY <2>1 DEF DocDelete, DocCall, stores
    <3>2. \A d \in Devices, k \in Keys : docs'[d][k] # Absent => docs[d][k] # Absent
      BY <1>1, <1>3, <3>1 DEF TypeOK
    <3>3. QED BY <1>1, <3>2 DEF OneDocument
  <2>2. CASE ~DocDelete(o)
    <3>1. UNCHANGED docs
      BY <2>2 DEF HubGet, HubRemove, RulesRemove, UndoRemove, HubCall, stores
    <3>2. QED BY <1>1, <3>1 DEF OneDocument
  <2>3. QED BY <2>1, <2>2
<1>7. QED BY <1>4, <1>5, <1>6, RemoveGoesOn DEF RemoveSteps

LEMMA TurnsRead ==
    ASSUME TurnsInv, NEW o \in Operators,
           DocFind(o) \/ DocRead(o) \/ DocExists(o) \/ TwinSync(o)
    PROVE  Went(o)
<1>1. /\ pc[o] \in {"docFind", "docRead", "docExists", "twinSync"}
      /\ pc[o] \notin Returned
  BY DEF DocFind, DocRead, DocExists, TwinSync, At, Returned
<1>2. /\ TypeOK /\ OneDocument /\ dev[o] \in Devices
      /\ \/ kind[o] = "remove" /\ RemoveSteps(o)
         \/ kind[o] \in StatusKinds /\ StatusSteps(o)
         \/ kind[o] \in SaveKinds /\ SaveSteps(o)
  BY <1>1, TurnsAt DEF AddSteps, AddCalls, Returned
<1>3. UNCHANGED <<identity, docs, kind, dev>>
  BY DEF DocFind, DocRead, DocExists, TwinSync, stores, task
<1>4. OneDocument'
  BY <1>2, <1>3 DEF OneDocument
<1>5. CASE DocFind(o) /\ kind[o] = "remove"
  <2>1. /\ \/ pc'[o] = "docDelete" /\ doc'[o] \in DocIds(dev[o])
           \/ pc'[o] = "undoRemove"
    BY <1>2, <1>5 DEF DocFind, Kind, ReadFails, Goto, GotoAfterFault, TypeOK
  <2>2. RemoveSteps(o)'
    BY <2>1 DEF RemoveSteps, RemoveCalls, DocIds
  <2>3. QED BY <1>3, <1>4, <1>5, <2>2, RemoveGoesOn
<1>6. CASE DocFind(o) /\ kind[o] \in StatusKinds
  <2>1. /\ \/ pc'[o] = "docSave" /\ doc'[o] \in DocIds(dev[o])
           \/ pc'[o] = "undoGet"
    BY <1>2, <1>6, KindsApart DEF DocFind, Kind, ReadFails, Goto, GotoAfterFault, TypeOK
  <2>2. identity[dev[o]].status = Wanted(o) /\ Present(dev[o])
    BY <1>2, <1>6, KindsApart DEF StatusSteps, DocFind, At
  <2>3. Wanted(o)' = Wanted(o)
    BY <1>3 DEF Wanted, Kind
  <2>4. StatusSteps(o)' /\ pc'[o] # "ok"
    BY <1>3, <2>1, <2>2, <2>3 DEF StatusSteps, StatusCalls, Returned, DocIds, Present
  <2>5. QED BY <1>3, <1>4, <1>6, <2>4, StatusGoesOn
<1>7. CASE ~DocFind(o)
  <2>1. kind[o] \in SaveKinds /\ SaveSteps(o)
    BY <1>2, <1>7 DEF DocRead, DocExists, TwinSync, At, RemoveSteps, RemoveCalls, StatusSteps, StatusCalls, Returned
  <2>2. \/ /\ pc'[o] = "docExists" /\ doc'[o] \in DocIds(dev[o])
           /\ enabled'[o] = docs[dev[o]][doc'[o]]
        \/ pc'[o] = "docSave" /\ pc[o] = "docExists" /\ doc'[o] = doc[o] /\ enabled'[o] = enabled[o]
        \/ pc'[o] \in {"ok", "failed"}
    BY <1>2, <1>7 DEF DocRead, DocExists, TwinSync, At, ReadFails, Goto, GotoAfterFault, TypeOK, memory
  <2>3. SaveSteps(o)'
    BY <1>3, <2>1, <2>2 DEF SaveSteps, SaveCalls, Returned, DocIds
  <2>4. QED BY <1>3, <1>4, <2>1, <2>3, SaveGoesOn
<1>8. DocFind(o) => kind[o] = "remove" \/ kind[o] \in StatusKinds
  BY <1>2 DEF DocFind, At, SaveSteps, SaveCalls, Returned
<1>9. QED BY <1>5, <1>6, <1>7, <1>8

LEMMA TurnsWent == ASSUME TurnsInv, NEW o \in Operators, Step(o) PROVE Went(o)
BY TurnsAdd, TurnsDocSave, TurnsTag, TurnsSim, TurnsStatus, TurnsRemove, TurnsRead DEF Step

\* a step changes what the invariant says of no other operation
LEMMA TurnsStep ==
    ASSUME TurnsInv, NEW o \in Operators, Step(o)
    PROVE  TurnsInv'
<1>1. CallsInv /\ TypeOK /\ Apart /\ CallsInv' /\ TypeOK' /\ Went(o) /\ Own(o) /\ Elsewhere(o)
  BY CallsNext, TurnsWent, StepIsOwn, StepElsewhere DEF TurnsInv, CallsInv, Next
<1>2. pc[o] \notin Returned
  BY StepAtWork
<1>3. Apart'
  <2>1. \A p \in Operators : pc'[p] \notin Returned => pc[p] \notin Returned
    BY <1>1, <1>2 DEF Own
  <2>2. QED BY <1>1, <2>1 DEF Apart, Own
<1>4. ASSUME NEW p \in Operators PROVE Steps(p)'
  <2>1. CASE p = o
    BY <1>1, <2>1 DEF Went
  <2>2. CASE p # o /\ pc[p] \in Returned
    BY <1>1, <2>2 DEF Own, Steps, AddSteps, RemoveSteps, StatusSteps, SaveSteps, Returned,
       AddCalls, RemoveCalls, StatusCalls, SaveCalls
  <2>3. CASE p # o /\ pc[p] \notin Returned /\ dev[p] = dev[o]
    <3>1. kind[p] = "remove" /\ RemoveSteps(p)
      BY <1>1, <1>2, <2>3 DEF Apart, TurnsInv, Steps
    <3>2. QED BY <1>1, <2>3, <3>1, KindsApart DEF Own, Steps, RemoveSteps
  <2>4. CASE p # o /\ pc[p] \notin Returned /\ dev[p] # dev[o]
    <3>1. dev[p] \in Devices /\ dev'[p] = dev[p] /\ Steps(p)
      BY <1>1, <2>4 DEF TypeOK, Own, TurnsInv
    <3>2. /\ identity'[dev[p]] = identity[dev[p]] /\ docs'[dev[p]] = docs[dev[p]]
          /\ pc'[p] = pc[p] /\ key'[p] = key[p] /\ doc'[p] = doc[p] /\ kind'[p] = kind[p]
          /\ enabled'[p] = enabled[p]
      BY <1>1, <2>4, <3>1 DEF Own, Elsewhere
    <3>3. QED BY <3>1, <3>2 DEF Steps, AddSteps, RemoveSteps, StatusSteps, SaveSteps, Bare, Present,
          Wanted, WantedEnabled, WantedTag, Kind
  <2>5. QED BY <2>1, <2>2, <2>3, <2>4
<1>5. QED BY <1>1, <1>3, <1>4 DEF TurnsInv, Went

LEMMA TurnsBegin ==
    ASSUME TurnsInv, NEW o \in Operators, Begin(o), RemovalsOverlap
    PROVE  TurnsInv'
<1>1. CallsInv /\ TypeOK /\ Apart /\ CallsInv' /\ OneDocument
  BY CallsNext DEF TurnsInv, CallsInv, Next
<1>2. PICK k \in Kinds, d \in Devices :
        /\ kind' = [kind EXCEPT ![o] = k]
        /\ dev' = [dev EXCEPT ![o] = d]
        /\ pc' = [pc EXCEPT ![o] = Entry[k]]
        /\ key' = [key EXCEPT ![o] = IF k \in AddKinds THEN started + 1 ELSE NoKey]
  BY DEF Begin
<1>3. kind'[o] = k /\ k \in AllKinds /\ pc'[o] = Entry[k] /\ dev'[o] = d
  BY <1>1, <1>2, ConstantsAssumption DEF TypeOK
<1>4. k \in AddKinds => key'[o] \in Keys
  <2>1. started \in Nat /\ started < MaxOps /\ MaxOps \in Nat
    BY <1>1, ConstantsAssumption DEF Begin, TypeOK
  <2>2. started + 1 \in Keys
    BY <2>1 DEF Keys
  <2>3. QED BY <1>1, <1>2, <2>2 DEF TypeOK
<1>5. OneDocument' /\ UNCHANGED <<identity, docs>>
  BY <1>1 DEF Begin, OneDocument, stores
<1>6. Steps(o)' /\ Entry[k] \notin Returned
  <2>1. CASE k \in AddKinds
    <3>1. pc'[o] \in {"validate", "hubAdd"}
      BY <1>3, <2>1 DEF Entry, AddKinds, StatusKinds, SaveKinds
    <3>2. AddSteps(o)'
      BY <1>4, <2>1, <3>1 DEF AddSteps, AddCalls, Returned
    <3>3. QED BY <1>3, <2>1, <3>1, <3>2, KindsApart DEF Steps, Returned
  <2>2. CASE k = "remove"
    <3>1. pc'[o] = "hubGet"
      BY <1>3, <2>2 DEF Entry, StatusKinds, SaveKinds
    <3>2. QED BY <1>3, <2>2, <3>1, KindsApart DEF Steps, RemoveSteps, RemoveCalls, Returned
  <2>3. CASE k \in StatusKinds
    <3>1. pc'[o] = "statusGet"
      BY <1>3, <2>3 DEF Entry, StatusKinds, SaveKinds
    <3>2. QED BY <1>3, <2>3, <3>1, KindsApart DEF Steps, StatusSteps, StatusCalls, Returned
  <2>4. CASE k \in SaveKinds
    <3>1. pc'[o] = "docRead"
      BY <1>3, <2>4 DEF Entry, StatusKinds, SaveKinds
    <3>2. QED BY <1>3, <2>4, <3>1, KindsApart DEF Steps, SaveSteps, SaveCalls, Returned
  <2>5. QED BY <1>3, <2>1, <2>2, <2>3, <2>4 DEF AllKinds
<1>7. \A p \in Operators \ {o} :
        /\ pc'[p] = pc[p] /\ kind'[p] = kind[p] /\ dev'[p] = dev[p] /\ key'[p] = key[p]
        /\ doc'[p] = doc[p] /\ enabled'[p] = enabled[p]
  BY <1>1, <1>2 DEF Begin, TypeOK
<1>8. ASSUME NEW p \in Operators \ {o} PROVE Steps(p)'
  <2>1. Steps(p)
    BY DEF TurnsInv
  <2>2. QED BY <1>5, <1>7, <2>1 DEF Steps, AddSteps, RemoveSteps, StatusSteps, SaveSteps, Bare, Present,
        Wanted, WantedEnabled, WantedTag, Kind
<1>9. Apart'
  <2>1. Begins(o)
    BY <1>3, <1>6 DEF Begin, Begins
  <2>2. \A p \in Operators \ {o} : Working(p, dev'[o]) => kind'[o] = "remove" /\ kind[p] = "remove"
    BY <2>1 DEF RemovalsOverlap
  <2>3. QED BY <1>1, <1>7, <2>2 DEF Apart, Working
<1>10. \A p \in Operators : Steps(p)'
  BY <1>6, <1>8
<1>11. QED BY <1>1, <1>5, <1>9, <1>10 DEF TurnsInv

\* what changes neither the hub nor the registry, and lets an operation stop at most
LEMMA TurnsStill ==
    ASSUME TurnsInv, CallsInv', UNCHANGED <<identity, docs, kind, dev, key, doc, enabled>>,
           \A p \in Operators : pc'[p] = pc[p] \/ pc'[p] \in Returned
    PROVE  TurnsInv'
<1>1. OneDocument'
  BY DEF TurnsInv, OneDocument
<1>2. Apart'
  BY DEF TurnsInv, Apart
<1>3. ASSUME NEW p \in Operators PROVE Steps(p)'
  <2>1. Steps(p)
    BY DEF TurnsInv
  <2>2. QED BY <2>1 DEF Steps, AddSteps, RemoveSteps, StatusSteps, SaveSteps, Bare, Present,
        Wanted, WantedEnabled, WantedTag, Kind, Returned, AddCalls, RemoveCalls, StatusCalls, SaveCalls
<1>4. QED BY <1>1, <1>2, <1>3 DEF TurnsInv

LEMMA TurnsNext == TurnsInv /\ [Next /\ RemovalsOverlap]_vars => TurnsInv'
<1> SUFFICES ASSUME TurnsInv, [Next /\ RemovalsOverlap]_vars PROVE TurnsInv'
  OBVIOUS
<1>1. CallsInv' /\ TypeOK
  BY CallsNext DEF TurnsInv, CallsInv
<1>2. ASSUME NEW o \in Operators, Crash(o) PROVE TurnsInv'
  <2>1. /\ UNCHANGED <<identity, docs, kind, dev, key, doc, enabled>>
        /\ pc' = [pc EXCEPT ![o] = "crashed"]
    BY <1>2 DEF Crash, GotoAfterFault, stores, task, memory
  <2>2. \A p \in Operators : pc'[p] = pc[p] \/ pc'[p] \in Returned
    BY <1>1, <2>1 DEF TypeOK, Returned
  <2>3. QED BY <1>1, <2>1, <2>2, TurnsStill
<1>3. CASE (\E d \in Devices : SaveRule(d)) \/ UNCHANGED vars
  <2>1. UNCHANGED <<identity, docs, kind, dev, key, doc, enabled, pc>>
    BY <1>3 DEF SaveRule, vars, stores, task, memory, control
  <2>2. QED BY <1>1, <2>1, TurnsStill
<1>4. QED BY <1>2, <1>3, TurnsStep, TurnsBegin DEF Next

LEMMA TurnsAlways == RemovalsOverlapSpec => []TurnsInv
BY TurnsInit, TurnsNext, PTL DEF RemovalsOverlapSpec

\* a removal that is alone with its device
RemoveAlone(o) ==
    kind[o] = "remove" =>
      /\ pc[o] \in {"docFind", "docDelete", "simRemove", "rulesRemove"} => ~Present(dev[o])
      /\ pc[o] = "docDelete" => docs[dev[o]][doc[o]] # Absent
      /\ pc[o] \in {"simRemove", "rulesRemove"} => Bare(dev[o])

OneEach == \A o, p \in Operators : pc[o] \notin Returned /\ Working(p, dev[o]) => o = p

InTurnInv ==
    /\ TurnsInv
    /\ OneEach
    /\ \A o \in Operators : RemoveAlone(o)

LEMMA InTurnInit == Init => InTurnInv
BY TurnsInit DEF Init, InTurnInv, OneEach, RemoveAlone, Returned

LEMMA InTurnOverlaps == [Next /\ DevicesInTurn]_vars => [Next /\ RemovalsOverlap]_vars
BY DEF DevicesInTurn, RemovalsOverlap

\* an operation that returns normally with this step is done
Settled(o) ==
    /\ (pc[o] = "ok" => Done(o))'
    /\ pc'[o] = "ok" => RulesGone(o)

LEMMA RemovalGoesOn ==
    ASSUME InTurnInv, NEW o \in Operators, kind[o] = "remove", Step(o)
    PROVE  RemoveAlone(o)' /\ Settled(o)
<1>1. TurnsInv /\ CallsInv /\ TypeOK /\ OneDocument /\ RemoveAlone(o) /\ Own(o)
  BY StepIsOwn DEF InTurnInv, TurnsInv, CallsInv
<1>2. kind'[o] = "remove" /\ dev'[o] = dev[o]
  BY <1>1 DEF Own
<1>3. \/ HubGet(o) \/ HubRemove(o) \/ DocFind(o) \/ DocDelete(o)
      \/ SimRemove(o) \/ RulesRemove(o) \/ UndoRemove(o)
  <2>1. pc[o] \in Returned \union RemoveCalls
    BY <1>1 DEF CallsInv, CallsOK
  <2>2. QED BY <2>1 DEF Step, Validate, HubAdd, HubTwin, DocCheck, DocSave, Tag, SimSave, UndoAdd,
        StatusGet, StatusSet, KeysGet, UndoGet, UndoSet, DocRead, DocExists, TwinSync, At, Returned, RemoveCalls
<1>4. pc[o] \notin Returned /\ dev[o] \in Devices
  <2>1. pc[o] \notin Returned
    BY <1>3 DEF HubGet, HubRemove, DocFind, DocDelete, SimRemove, RulesRemove, UndoRemove, At, Returned
  <2>2. QED BY <1>1, <2>1 DEF TypeOK
<1>5. ASSUME pc'[o] \in {"hubGet", "hubRemove", "undoRemove", "failed"}
      PROVE  RemoveAlone(o)' /\ Settled(o)
  BY <1>5 DEF RemoveAlone, Settled
<1>6. CASE HubGet(o)
  BY <1>1, <1>5, <1>6 DEF HubGet, GetFails, Goto, GotoAfterFault, Retry, TypeOK, At
<1>7. CASE HubRemove(o)
  <2>1. \/ SetIdentity(dev[o], NoIdentity) /\ pc'[o] = "docFind"
        \/ pc'[o] \in {"failed", "hubRemove"}
    BY <1>1, <1>4, <1>7, HubCallDoes DEF HubRemove, At
  <2>2. pc'[o] = "docFind" => ~Present(dev[o])'
    BY <1>1, <1>2, <1>4, <2>1 DEF SetIdentity, NoIdentity, Identity, Present, TypeOK
  <2>3. QED BY <2>1, <2>2 DEF RemoveAlone, Settled
<1>8. CASE DocFind(o)
  <2>1. \/ pc'[o] = "docDelete" /\ doc'[o] \in DocIds(dev[o])
        \/ pc'[o] = "undoRemove"
    BY <1>1, <1>8 DEF DocFind, Kind, ReadFails, Goto, GotoAfterFault, TypeOK
  <2>2. UNCHANGED <<identity, docs>> /\ ~Present(dev[o])
    BY <1>1, <1>8 DEF DocFind, stores, RemoveAlone, At
  <2>3. QED BY <1>2, <2>1, <2>2 DEF RemoveAlone, Settled, Present, DocIds
<1>9. CASE DocDelete(o)
  <2>1. pc[o] = "docDelete" /\ doc[o] \in Keys /\ docs[dev[o]][doc[o]] # Absent /\ ~Present(dev[o])
    BY <1>1, <1>9, KindsApart DEF TurnsInv, Steps, RemoveSteps, RemoveAlone, DocDelete, At
  <2>2. DocCallDone(o, "docDelete", doc[o], Absent, "simRemove", "undoRemove")
    BY <1>1, <1>9, <2>1, DocCallDoes DEF DocDelete
  <2>3. /\ UNCHANGED identity
        /\ \/ docs' = [docs EXCEPT ![dev[o]][doc[o]] = Absent] /\ pc'[o] = "simRemove"
           \/ pc'[o] = "undoRemove"
    BY <2>2 DEF DocCallDone
  <2>4. ASSUME pc'[o] = "simRemove" PROVE Bare(dev[o])'
    <3>1. docs' = [docs EXCEPT ![dev[o]][doc[o]] = Absent]
      BY <2>3, <2>4
    <3>2. ASSUME NEW k \in Keys PROVE docs'[dev[o]][k] = Absent
      <4>1. k # doc[o] => docs[dev[o]][k] = Absent
        BY <1>1, <1>4, <2>1 DEF OneDocument
      <4>2. QED BY <1>1, <1>4, <2>1, <3>1, <4>1 DEF TypeOK
    <3>3. QED BY <1>2, <3>2 DEF Bare
  <2>5. QED BY <1>2, <2>1, <2>3, <2>4 DEF RemoveAlone, Settled, Present
<1>10. CASE SimRemove(o)
  <2>1. pc'[o] = "rulesRemove" /\ UNCHANGED <<identity, docs>>
    BY <1>1, <1>4, <1>10, SimCallDoes DEF SimRemove, SimCall, Kind
  <2>2. ~Present(dev[o]) /\ Bare(dev[o])
    BY <1>1, <1>10 DEF RemoveAlone, SimRemove, At
  <2>3. QED BY <1>2, <2>1, <2>2 DEF RemoveAlone, Settled, Present, Bare
<1>11. CASE RulesRemove(o)
  <2>1. ~Present(dev[o]) /\ Bare(dev[o])
    BY <1>1, <1>11 DEF RemoveAlone, RulesRemove, At
  <2>2. /\ UNCHANGED <<identity, docs>>
        /\ pc'[o] \in {"ok", "failed"}
    BY <1>1, <1>11 DEF RulesRemove, RulesRefused, Goto, GotoAfterFault, TypeOK
  <2>3. ~Present(dev[o])' /\ (DocIds(dev[o]) = {})'
    BY <1>2, <2>1, <2>2 DEF Present, Bare, DocIds
  <2>4. pc'[o] = "ok" => Done(o)'
    BY <1>2, <2>2, <2>3, KindsApart DEF Done, Kind, StatusKinds
  <2>5. pc'[o] = "ok" => RulesGone(o)
    BY <1>1, <1>11 DEF RulesGone, RulesRemove, Goto, GotoAfterFault, TypeOK
  <2>6. QED BY <2>2, <2>4, <2>5 DEF RemoveAlone, Settled
<1>12. CASE UndoRemove(o)
  BY <1>1, <1>5, <1>12, HubCallOwn DEF UndoRemove, At
<1>13. QED BY <1>3, <1>6, <1>7, <1>8, <1>9, <1>10, <1>11, <1>12

\* an operation that returns normally is done, when the operations on a device
\* follow one another
LEMMA InTurnDone ==
    ASSUME InTurnInv, NEW o \in Operators, Step(o)
    PROVE  Settled(o)
<1>1. Went(o) /\ Own(o)
  BY TurnsWent, StepIsOwn DEF InTurnInv, TurnsInv
<1>2. CASE kind[o] = "remove"
  BY <1>2, RemovalGoesOn
<1>3. CASE kind[o] # "remove"
  BY <1>1, <1>3 DEF Went, Own, Settled, RulesGone, Kind
<1>4. QED BY <1>2, <1>3

LEMMA InTurnStep ==
    ASSUME InTurnInv, NEW o \in Operators, Step(o)
    PROVE  InTurnInv'
<1>1. TurnsInv /\ CallsInv /\ TypeOK /\ OneEach /\ TurnsInv' /\ Own(o) /\ Elsewhere(o) /\ pc[o] \notin Returned
  BY TurnsStep, StepIsOwn, StepElsewhere, StepAtWork DEF InTurnInv, TurnsInv, CallsInv
<1>2. OneEach'
  BY <1>1 DEF OneEach, Own, Working
<1>3. ASSUME NEW p \in Operators PROVE RemoveAlone(p)'
  <2>1. CASE p = o /\ kind[o] = "remove"
    BY <2>1, RemovalGoesOn
  <2>2. CASE p = o /\ kind[o] # "remove"
    BY <1>1, <2>2 DEF Own, RemoveAlone
  <2>3. CASE p # o /\ pc[p] \in Returned
    BY <1>1, <2>3 DEF Own, RemoveAlone, Returned
  <2>4. CASE p # o /\ pc[p] \notin Returned
    <3>1. dev[p] \in Devices \ {dev[o]}
      BY <1>1, <2>4 DEF OneEach, Working, TypeOK
    <3>2. /\ identity'[dev[p]] = identity[dev[p]] /\ docs'[dev[p]] = docs[dev[p]] /\ dev'[p] = dev[p]
          /\ pc'[p] = pc[p] /\ doc'[p] = doc[p] /\ kind'[p] = kind[p] /\ RemoveAlone(p)
      BY <1>1, <2>4, <3>1 DEF Own, Elsewhere, InTurnInv
    <3>3. QED BY <3>2 DEF RemoveAlone, Present, Bare
  <2>5. QED BY <2>1, <2>2, <2>3, <2>4
<1>4. QED BY <1>1, <1>2, <1>3 DEF InTurnInv

LEMMA InTurnNext == InTurnInv /\ [Next /\ DevicesInTurn]_vars => InTurnInv'
<1> SUFFICES ASSUME InTurnInv, [Next /\ DevicesInTurn]_vars PROVE InTurnInv'
  OBVIOUS
<1>1. TurnsInv' /\ TypeOK
  BY TurnsNext, InTurnOverlaps DEF InTurnInv, TurnsInv, CallsInv
<1>2. ASSUME UNCHANGED <<identity, docs, kind, dev, doc>>,
             \A p \in Operators : pc'[p] = pc[p] \/ pc'[p] \in Returned
      PROVE  InTurnInv'
  <2>1. OneEach'
    BY <1>2 DEF InTurnInv, OneEach, Working
  <2>2. ASSUME NEW p \in Operators PROVE RemoveAlone(p)'
    BY <1>2 DEF InTurnInv, RemoveAlone, Present, Bare, Returned
  <2>3. QED BY <1>1, <2>1, <2>2 DEF InTurnInv
<1>3. ASSUME NEW o \in Operators, Crash(o) PROVE InTurnInv'
  <2>1. UNCHANGED <<identity, docs, kind, dev, doc>> /\ pc' = [pc EXCEPT ![o] = "crashed"]
    BY <1>3 DEF Crash, GotoAfterFault, stores, task, memory
  <2>2. QED BY <1>1, <1>2, <2>1 DEF TypeOK, Returned
<1>4. CASE (\E d \in Devices : SaveRule(d)) \/ UNCHANGED vars
  BY <1>2, <1>4 DEF SaveRule, vars, stores, task, memory, control
<1>5. ASSUME NEW o \in Operators, Begin(o), DevicesInTurn PROVE InTurnInv'
  <2>1. PICK k \in Kinds, d \in Devices :
          /\ kind' = [kind EXCEPT ![o] = k]
          /\ dev' = [dev EXCEPT ![o] = d]
          /\ pc' = [pc EXCEPT ![o] = Entry[k]]
    BY <1>5 DEF Begin
  <2>2. kind'[o] = k /\ k \in AllKinds /\ pc'[o] = Entry[k] /\ dev'[o] = d /\ pc[o] \in Returned
    BY <1>1, <1>5, <2>1, ConstantsAssumption DEF TypeOK, Begin
  <2>3. Entry[k] \notin Returned /\ Entry[k] \notin {"docFind", "docDelete", "simRemove", "rulesRemove"}
    BY <2>2 DEF Entry, AllKinds, AddKinds, StatusKinds, SaveKinds, Returned
  <2>4. /\ UNCHANGED <<identity, docs>>
        /\ \A p \in Operators \ {o} :
             pc'[p] = pc[p] /\ kind'[p] = kind[p] /\ dev'[p] = dev[p] /\ doc'[p] = doc[p]
    BY <1>1, <1>5, <2>1 DEF Begin, TypeOK, stores
  <2>5. \A p \in Operators \ {o} : ~Working(p, dev'[o])
    BY <1>5, <2>2, <2>3 DEF DevicesInTurn, Begins
  <2>6. OneEach'
    BY <2>4, <2>5 DEF InTurnInv, OneEach, Working
  <2>7. ASSUME NEW p \in Operators PROVE RemoveAlone(p)'
    <3>1. CASE p = o
      BY <2>2, <2>3, <3>1 DEF RemoveAlone
    <3>2. CASE p # o
      BY <2>4, <3>2 DEF InTurnInv, RemoveAlone, Present, Bare
    <3>3. QED BY <3>1, <3>2
  <2>8. QED BY <1>1, <2>6, <2>7 DEF InTurnInv
<1>6. QED BY <1>3, <1>4, <1>5, InTurnStep DEF Next

(* As long as the operations on a device follow one another, while any       *)
(* number of callers work on other devices, whatever fails, is retried, is   *)
(* lost or stops, and whatever state earlier operations left behind: an      *)
(* operation that returns normally did all it stands for, but for the rules   *)
(* of a removed device whose deletion was refused.                            *)
THEOREM OkMeansDoneAlways == InTurnSpec => OkMeansDone
<1>1. InTurnSpec => []InTurnInv
  BY InTurnInit, InTurnNext, PTL DEF InTurnSpec
<1>2. InTurnInv /\ [Next /\ DevicesInTurn]_vars
        => [\A o \in Operators : Returns(o, "ok") => Done(o)' /\ RulesGone(o)]_vars
  <2> SUFFICES ASSUME InTurnInv, Next, DevicesInTurn, NEW o \in Operators, Returns(o, "ok")
               PROVE  Done(o)' /\ RulesGone(o)
    OBVIOUS
  <2>1. TypeOK
    BY DEF InTurnInv, TurnsInv, CallsInv
  <2>2. ASSUME NEW p \in Operators, Step(p) PROVE Done(o)' /\ RulesGone(o)
    <3>1. p = o
      BY <2>2, StepIsOwn DEF InTurnInv, TurnsInv, Own, Returns, Returned
    <3>2. QED BY <2>2, <3>1, InTurnDone DEF Returns, Settled
  <2>3. ASSUME NEW p \in Operators, Begin(p) PROVE FALSE
    <3>1. PICK k \in AllKinds : pc' = [pc EXCEPT ![p] = Entry[k]]
      BY <2>3, ConstantsAssumption DEF Begin
    <3>2. Entry[k] # "ok"
      BY DEF Entry, AllKinds, AddKinds, StatusKinds, SaveKinds
    <3>3. QED BY <2>1, <3>1, <3>2 DEF Returns, TypeOK, Returned
  <2>4. ASSUME NEW p \in Operators, Crash(p) PROVE FALSE
    <3>1. pc' = [pc EXCEPT ![p] = "crashed"]
      BY <2>4 DEF Crash, GotoAfterFault
    <3>2. QED BY <2>1, <3>1 DEF Returns, TypeOK, Returned
  <2>5. ASSUME NEW d \in Devices, SaveRule(d) PROVE FALSE
    BY <2>5 DEF SaveRule, control, Returns, Returned
  <2>6. QED BY <2>2, <2>3, <2>4, <2>5 DEF Next
<1>3. QED BY <1>1, <1>2, PTL DEF InTurnSpec, OkMeansDone

(* With one caller the operations on a device do follow one another.        *)
THEOREM OneCallerInTurn ==
    ASSUME \A o, p \in Operators : o = p PROVE Spec => InTurnSpec
<1>1. DevicesInTurn
  BY DEF DevicesInTurn
<1>2. [Next]_vars => [Next /\ DevicesInTurn]_vars
  BY <1>1
<1>3. QED BY <1>2, PTL DEF Spec, InTurnSpec

-----------------------------------------------------------------------------
(* The registry as its callers see it                                       *)

\* no registry write is done but reported failed, and none is left behind by a
\* twin update that fails after it
WritesReported == Faults \intersect HalfDone = {}

LEMMA EmptyEntry == ASSUME NEW d \in Devices, Bare(d) PROVE Registered[d] = {}
BY DEF Registered, DocIds, Bare

LEMMA EmptyEntryNext == ASSUME NEW d \in Devices, Bare(d)' PROVE Registered'[d] = {}
BY DEF Registered, DocIds, Bare

LEMMA OneEntry ==
    ASSUME OneDocument, NEW d \in Devices, NEW k \in Keys, docs[d][k] # Absent
    PROVE  Registered[d] = {docs[d][k]}
<1>1. DocIds(d) = {k}
  BY DEF OneDocument, DocIds
<1>2. QED BY <1>1 DEF Registered

LEMMA OneEntryNext ==
    ASSUME OneDocument', NEW d \in Devices, NEW k \in Keys, docs'[d][k] # Absent
    PROVE  Registered'[d] = {docs'[d][k]}
<1>1. DocIds(d)' = {k}
  BY DEF OneDocument, DocIds
<1>2. QED BY <1>1 DEF Registered

LEMMA AtomicInit == Init => Registry!Init
<1> SUFFICES ASSUME Init PROVE Registry!Init
  OBVIOUS
<1>1. OneDocument /\ 0 \in Keys
  BY ConstantsAssumption DEF Init, OneDocument, Absent, Keys
<1>2. ASSUME NEW d \in Devices PROVE Registered[d] = IF d \in Initially THEN {"null"} ELSE {}
  <2>1. CASE d \in Initially
    <3>1. docs[d][0] = "null" /\ docs[d][0] # Absent
      BY <1>1, <2>1 DEF Init, Absent
    <3>2. QED BY <1>1, <2>1, <3>1, OneEntry
  <2>2. CASE d \notin Initially
    <3>1. Bare(d)
      BY <2>2 DEF Init, Bare
    <3>2. QED BY <2>2, <3>1, EmptyEntry
  <2>3. QED BY <2>1, <2>2
<1>3. Registered = [d \in Devices |-> IF d \in Initially THEN {"null"} ELSE {}]
  BY <1>2 DEF Registered
<1>4. Call = [o \in Operators |-> [kind |-> "none", dev |-> NoDevice, at |-> "idle"]]
  BY DEF Init, Call, Progress, Returned, AfterWrite
<1>5. QED BY <1>3, <1>4 DEF Registry!Init

\* what a step of operator o is to the abstract registry
Stutters(o) == UNCHANGED docs /\ Progress(o)' = Progress(o)
Ends(o) ==
    /\ UNCHANGED docs
    /\ \/ Progress(o) = "applied" /\ Progress(o)' = "ok"
       \/ Progress(o) = "open" /\ Progress(o)' = "failed"
       \/ Progress(o) = "applied" /\ kind[o] \in {"remove", "save", "info"} /\ Progress(o)' = "failed"
Applies(o) ==
    /\ Progress(o) = "open" /\ Progress(o)' = "applied"
    /\ Registry!Change(kind[o], Registered[dev[o]], Registered'[dev[o]])
Lifts(o) == Stutters(o) \/ Ends(o) \/ Applies(o)

BeforeWrite == Labels \ (Returned \union AfterWrite)

LEMMA StillOpen ==
    ASSUME NEW o \in Operators, UNCHANGED docs, pc[o] \in BeforeWrite,
           pc'[o] \in BeforeWrite \union {"failed"}
    PROVE  Lifts(o)
<1>1. Progress(o) = "open"
  BY DEF Progress, BeforeWrite
<1>2. CASE pc'[o] \in BeforeWrite
  <2>1. Progress(o)' = "open"
    BY <1>2 DEF Progress, BeforeWrite
  <2>2. QED BY <1>1, <2>1 DEF Lifts, Stutters
<1>3. CASE pc'[o] = "failed"
  <2>1. Progress(o)' = "failed"
    BY <1>3 DEF Progress, Returned, AfterWrite
  <2>2. QED BY <1>1, <2>1 DEF Lifts, Ends
<1>4. QED BY <1>2, <1>3

LEMMA AlreadyApplied ==
    ASSUME NEW o \in Operators, UNCHANGED docs, pc[o] \in AfterWrite,
           \/ pc'[o] \in AfterWrite \union {"ok"}
           \/ pc'[o] = "failed" /\ kind[o] \in {"remove", "save", "info"}
    PROVE  Lifts(o)
<1>1. Progress(o) = "applied"
  BY DEF Progress, AfterWrite, Returned
<1>2. CASE pc'[o] \in AfterWrite
  <2>1. Progress(o)' = "applied"
    BY <1>2 DEF Progress, AfterWrite, Returned
  <2>2. QED BY <1>1, <2>1 DEF Lifts, Stutters
<1>3. CASE pc'[o] \in {"ok", "failed"}
  <2>1. Progress(o)' = pc'[o]
    BY <1>3 DEF Progress, Returned, AfterWrite
  <2>2. pc'[o] \notin AfterWrite
    BY <1>3 DEF AfterWrite
  <2>3. QED BY <1>1, <1>3, <2>1, <2>2 DEF Lifts, Ends
<1>4. QED BY <1>2, <1>3

\* the calls before the registry's write, and those of the rollbacks
LEMMA LiftsBefore ==
    ASSUME TurnsInv, NEW o \in Operators,
           \/ Validate(o) \/ HubAdd(o) \/ HubTwin(o) \/ DocCheck(o) \/ UndoAdd(o)
           \/ HubGet(o) \/ HubRemove(o) \/ DocFind(o) \/ UndoRemove(o)
           \/ StatusGet(o) \/ StatusSet(o) \/ UndoGet(o) \/ UndoSet(o)
           \/ DocRead(o) \/ DocExists(o)
    PROVE  Lifts(o)
<1>1. TypeOK
  BY DEF TurnsInv, CallsInv
<1>2. UNCHANGED docs
  BY DEF Validate, HubAdd, HubTwin, DocCheck, UndoAdd, HubGet, HubRemove, DocFind, UndoRemove, StatusGet,
     StatusSet, UndoGet, UndoSet, DocRead, DocExists, HubCall, TwinCall, WriteStatus, stores
<1>3. pc[o] \in BeforeWrite
  BY DEF Validate, HubAdd, HubTwin, DocCheck, UndoAdd, HubGet, HubRemove, DocFind, UndoRemove, StatusGet,
     StatusSet, UndoGet, UndoSet, DocRead, DocExists, At, BeforeWrite, Labels, Returned, AfterWrite
<1>4. {"hubAdd", "hubTwin", "docCheck", "docSave", "undoAdd", "hubGet", "hubRemove", "docFind", "docDelete",
       "undoRemove", "statusGet", "statusSet", "undoGet", "undoSet", "docExists"} \subseteq BeforeWrite
  BY DEF BeforeWrite, Labels, Returned, AfterWrite
<1>5. ASSUME NEW label \in BeforeWrite \union {"failed"}, NEW err \in BeforeWrite \union {"failed"},
             Goto(o, label) \/ Goto(o, err) \/ Retry(o) \/ GotoAfterFault(o, err)
      PROVE  Lifts(o)
  BY <1>1, <1>2, <1>3, <1>5, StillOpen DEF Goto, Retry, GotoAfterFault, TypeOK
<1>6. ASSUME NEW call, NEW accepts, NEW effect, NEW ok \in BeforeWrite \union {"failed"},
             NEW err \in BeforeWrite \union {"failed"}, HubCall(o, call, accepts, effect, ok, err)
      PROVE  Lifts(o)
  BY <1>5, <1>6 DEF HubCall
<1>7. CASE Validate(o)
  <2>1. Goto(o, "hubAdd") \/ Goto(o, "failed") \/ GotoAfterFault(o, "failed")
    BY <1>7 DEF Validate, ReadFails
  <2>2. QED BY <1>4, <1>5, <2>1
<1>8. CASE HubAdd(o)
  <2>1. PICK next \in {"hubTwin", "docCheck"} :
          HubCall(o, "hubAdd", ~Present(dev[o]), Identity(key[o], "enabled"), next, "failed")
    BY <1>8 DEF HubAdd
  <2>2. QED BY <1>4, <1>6, <2>1
<1>9. CASE HubTwin(o)
  <2>1. Goto(o, "docCheck") \/ Goto(o, "failed") \/ GotoAfterFault(o, "failed")
    BY <1>9 DEF HubTwin, TwinCall
  <2>2. QED BY <1>4, <1>5, <2>1
<1>10. CASE DocCheck(o)
  <2>1. Goto(o, "docSave") \/ Goto(o, "undoAdd") \/ GotoAfterFault(o, "undoAdd")
    BY <1>10 DEF DocCheck, ReadFails
  <2>2. QED BY <1>4, <1>5, <2>1
<1>11. CASE UndoAdd(o) \/ UndoRemove(o)
  BY <1>6, <1>11 DEF UndoAdd, UndoRemove
<1>12. CASE HubGet(o)
  <2>1. Goto(o, "hubRemove") \/ Goto(o, "failed") \/ Retry(o) \/ GotoAfterFault(o, "failed")
    BY <1>12 DEF HubGet, GetFails
  <2>2. QED BY <1>4, <1>5, <2>1
<1>13. CASE HubRemove(o)
  BY <1>4, <1>6, <1>13 DEF HubRemove
<1>14. CASE DocFind(o)
  <2> DEFINE found    == IF Kind(o, {"remove"}) THEN "docDelete" ELSE "docSave"
             notFound == IF Kind(o, {"remove"}) THEN "undoRemove" ELSE "undoGet"
  <2>1. Goto(o, found) \/ Goto(o, notFound) \/ GotoAfterFault(o, notFound)
    BY <1>14 DEF DocFind, ReadFails
  <2>2. found \in BeforeWrite /\ notFound \in BeforeWrite
    BY <1>4
  <2> HIDE DEF found, notFound
  <2>3. QED BY <1>5, <2>1, <2>2
<1>15. CASE StatusGet(o)
  <2>1. Goto(o, "statusSet") \/ Goto(o, "failed") \/ Retry(o) \/ GotoAfterFault(o, "failed")
    BY <1>15 DEF StatusGet, ReadStatus, GetFails
  <2>2. QED BY <1>4, <1>5, <2>1
<1>16. CASE UndoGet(o)
  <2>1. Goto(o, "undoSet") \/ Goto(o, "failed") \/ Retry(o) \/ GotoAfterFault(o, "failed")
    BY <1>16 DEF UndoGet, ReadStatus, GetFails
  <2>2. QED BY <1>4, <1>5, <2>1
<1>17. CASE StatusSet(o) \/ UndoSet(o)
  BY <1>4, <1>6, <1>17 DEF StatusSet, UndoSet, WriteStatus
<1>18. CASE DocRead(o)
  <2>1. Goto(o, "docExists") \/ Goto(o, "failed") \/ GotoAfterFault(o, "failed")
    BY <1>18 DEF DocRead, ReadFails
  <2>2. QED BY <1>4, <1>5, <2>1
<1>19. CASE DocExists(o)
  <2>1. Goto(o, "docSave") \/ Goto(o, "failed") \/ GotoAfterFault(o, "failed")
    BY <1>19 DEF DocExists, ReadFails
  <2>2. QED BY <1>4, <1>5, <2>1
<1>20. QED BY <1>7, <1>8, <1>9, <1>10, <1>11, <1>12, <1>13, <1>14, <1>15, <1>16, <1>17, <1>18, <1>19

\* the calls after it
LEMMA LiftsAfter ==
    ASSUME TurnsInv, WritesReported, NEW o \in Operators,
           \/ Tag(o) \/ SimSave(o) \/ KeysGet(o) \/ SimRemove(o) \/ RulesRemove(o) \/ TwinSync(o)
    PROVE  Lifts(o)
<1>1. TypeOK /\ CallsOK(o)
  BY DEF TurnsInv, CallsInv
<1>2. UNCHANGED docs
  BY DEF Tag, SimSave, KeysGet, SimRemove, RulesRemove, TwinSync, TwinCall, SimCall, stores
<1>3. pc[o] \in AfterWrite
  BY DEF Tag, SimSave, KeysGet, SimRemove, RulesRemove, TwinSync, At, AfterWrite
<1>4. ASSUME NEW label \in AfterWrite \union {"ok"}, Goto(o, label) \/ GotoAfterFault(o, label)
      PROVE  Lifts(o)
  BY <1>1, <1>2, <1>3, <1>4, AlreadyApplied DEF Goto, GotoAfterFault, TypeOK
<1>5. {"simSave", "keysGet", "simRemove", "rulesRemove"} \subseteq AfterWrite
  BY DEF AfterWrite
<1>6. CASE Tag(o)
  <2>1. pc[o] = "tag" /\ pc[o] \notin Returned
    BY <1>6 DEF Tag, At, Returned
  <2>2. Present(dev[o])
    <3>1. CASE kind[o] \in AddKinds
      <4>1. AddSteps(o)
        BY <2>1, <3>1, TurnsAt, KindsApart
      <4>2. identity[dev[o]].key \in Keys
        BY <2>1, <4>1 DEF AddSteps, AddCalls
      <4>3. QED BY <4>2 DEF Present, Keys, NoKey
    <3>2. CASE kind[o] \in StatusKinds
      <4>1. StatusSteps(o)
        BY <2>1, <3>2, TurnsAt, KindsApart
      <4>2. QED BY <2>1, <4>1 DEF StatusSteps
    <3>3. kind[o] \in AddKinds \union StatusKinds
      BY <2>1, TurnsAt DEF RemoveSteps, RemoveCalls, SaveSteps, SaveCalls, Returned
    <3>4. QED BY <3>1, <3>2, <3>3
  <2>3. Goto(o, AfterTag(o))
    <3>1. \A f \in {"permanent", "lost"} : ~MayFail(o, "tag", f)
      BY DEF WritesReported, HalfDone, MayFail
    <3>2. QED BY <1>6, <2>2, <3>1 DEF Tag, TwinCall
  <2>4. AfterTag(o) \in AfterWrite \union {"ok"}
    BY <1>5 DEF AfterTag
  <2>5. QED BY <1>4, <2>3, <2>4
<1>7. CASE SimSave(o)
  BY <1>4, <1>7 DEF SimSave, SimCall
<1>8. CASE KeysGet(o)
  <2>1. Goto(o, "simSave") \/ Goto(o, "ok") \/ GotoAfterFault(o, "ok")
    BY <1>8 DEF KeysGet
  <2>2. QED BY <1>4, <1>5, <2>1
<1>9. CASE SimRemove(o)
  <2> DEFINE next == IF Kind(o, {"remove"}) THEN "rulesRemove" ELSE "ok"
  <2>1. Goto(o, next) \/ GotoAfterFault(o, next)
    BY <1>9 DEF SimRemove, SimCall
  <2>2. next \in AfterWrite \union {"ok"}
    BY <1>5
  <2> HIDE DEF next
  <2>3. QED BY <1>4, <2>1, <2>2
<1>10. CASE RulesRemove(o)
  <2>1. kind[o] = "remove"
    BY <1>1, <1>10, CallsAt DEF TurnsInv, RulesRemove, At, Returned, AddCalls, StatusCalls, SaveCalls
  <2>2. pc'[o] \in {"ok", "failed"}
    BY <1>1, <1>10 DEF RulesRemove, RulesRefused, Goto, GotoAfterFault, TypeOK
  <2>3. QED BY <1>2, <1>3, <2>1, <2>2, AlreadyApplied
<1>11. CASE TwinSync(o)
  <2>1. kind[o] \in {"save", "info"}
    BY <1>1, <1>11, CallsAt DEF TurnsInv, TwinSync, At, Returned, AddCalls, StatusCalls, RemoveCalls, SaveKinds
  <2>2. pc'[o] \in {"ok", "failed"}
    BY <1>1, <1>11 DEF TwinSync, Goto, TypeOK
  <2>3. QED BY <1>2, <1>3, <2>1, <2>2, AlreadyApplied
<1>12. QED BY <1>6, <1>7, <1>8, <1>9, <1>10, <1>11

\* the write itself
LEMMA LiftsSave ==
    ASSUME TurnsInv, WritesReported, NEW o \in Operators, DocSave(o)
    PROVE  Lifts(o)
<1>1. /\ TypeOK /\ OneDocument /\ OneDocument' /\ dev[o] \in Devices
      /\ pc[o] = "docSave" /\ pc[o] \in BeforeWrite
  BY TurnsWent, TurnsAt DEF TurnsInv, CallsInv, Went, DocSave, At, Step, BeforeWrite, Labels, Returned, AfterWrite
\* a call that is refused has not written, one that is not has
<1>2. ASSUME NEW id \in Keys, NEW value, value # Absent, NEW ok \in {"tag", "twinSync"},
             NEW err \in {"undoAdd", "undoGet", "failed"},
             DocCall(o, "docSave", id, value, ok, err),
             Registry!Change(kind[o], Registered[dev[o]], {value})
      PROVE  Lifts(o)
  <2>1. ~MayFail(o, "docSave", "lost")
    BY DEF WritesReported, HalfDone, MayFail
  <2>2. CASE docs' = [docs EXCEPT ![dev[o]][id] = value] /\ Goto(o, ok)
    <3>1. docs'[dev[o]][id] = value /\ pc'[o] = ok
      BY <1>1, <2>2 DEF TypeOK, Goto
    <3>2. Registered'[dev[o]] = {value}
      BY <1>1, <1>2, <3>1, OneEntryNext
    <3>3. Progress(o) = "open" /\ Progress(o)' = "applied"
      BY <1>1, <3>1 DEF Progress, AfterWrite, Returned, BeforeWrite
    <3>4. QED BY <1>2, <3>2, <3>3 DEF Lifts, Applies
  <2>3. CASE GotoAfterFault(o, err) /\ UNCHANGED docs
    <3>1. pc'[o] = err
      BY <1>1, <2>3 DEF TypeOK, GotoAfterFault
    <3>2. err \in BeforeWrite \union {"failed"}
      BY DEF BeforeWrite, Labels, Returned, AfterWrite
    <3>3. QED BY <1>1, <2>3, <3>1, <3>2, StillOpen
  <2>4. QED BY <1>2, <2>1, <2>2, <2>3 DEF DocCall
<1>3. Kind(o, AddKinds) => Kind(o, AddKinds) /\ key[o] \in Keys /\ Registered[dev[o]] = {}
  <2> SUFFICES ASSUME kind[o] \in AddKinds PROVE key[o] \in Keys /\ Registered[dev[o]] = {}
    BY DEF Kind
  <2>1. AddSteps(o)
    BY <1>1, TurnsAt, KindsApart DEF Returned
  <2>2. key[o] \in Keys /\ Bare(dev[o])
    BY <1>1, <2>1 DEF AddSteps, AddCalls
  <2>3. QED BY <1>1, <2>2, EmptyEntry
<1>4. ~Kind(o, AddKinds) => doc[o] \in Keys /\ docs[dev[o]][doc[o]] # Absent
  <2>1. StatusSteps(o) \/ SaveSteps(o) \/ RemoveSteps(o) \/ kind[o] \in AddKinds
    BY <1>1, TurnsAt DEF Returned
  <2>2. QED BY <1>1, <2>1 DEF Kind, StatusSteps, SaveSteps, RemoveSteps, RemoveCalls, Returned
<1>5. ~Kind(o, AddKinds) => Registered[dev[o]] = {docs[dev[o]][doc[o]]}
  BY <1>1, <1>4, OneEntry
<1>6. Kind(o, {"save"}) => docs[dev[o]][doc[o]] = enabled[o]
  <2> SUFFICES ASSUME kind[o] = "save" PROVE docs[dev[o]][doc[o]] = enabled[o]
    BY DEF Kind
  <2>1. SaveSteps(o)
    BY <1>1, TurnsAt, KindsApart DEF Returned, SaveKinds
  <2>2. QED BY <1>1, <2>1 DEF SaveSteps
<1>7. ASSUME Kind(o, AddKinds), NEW value \in NewEnabled, DocCall(o, "docSave", key[o], value, "tag", "undoAdd")
      PROVE  Lifts(o)
  <2>1. value # Absent
    BY DEF NewEnabled, Absent
  <2>2. Registry!Change(kind[o], Registered[dev[o]], {value})
    BY <1>3, <1>7 DEF Registry!Change, Kind
  <2>3. QED BY <1>2, <1>3, <1>7, <2>1, <2>2
<1>8. ASSUME NEW v, \/ kind[o] \in {"enable", "info"} /\ v = "on"
                    \/ kind[o] = "disable" /\ v = "off"
                    \/ kind[o] = "save" /\ v = enabled[o]
      PROVE  Registry!Change(kind[o], Registered[dev[o]], {v})
  <2>1. ~Kind(o, AddKinds)
    BY <1>8 DEF Kind, AddKinds
  <2>2. Registered[dev[o]] = {docs[dev[o]][doc[o]]}
    BY <1>5, <2>1
  <2>3. kind[o] = "save" => Registered[dev[o]] = {enabled[o]}
    BY <1>6, <2>2 DEF Kind
  <2>4. QED BY <1>8, <2>2, <2>3 DEF Registry!Change
<1>9. "on" # Absent /\ "off" # Absent
  BY DEF Absent
<1>10. CASE Kind(o, {"enable"}) /\ DocCall(o, "docSave", doc[o], "on", "tag", "undoGet")
  <2>1. kind[o] = "enable" /\ ~Kind(o, AddKinds)
    BY <1>10 DEF Kind, AddKinds
  <2>2. Registry!Change(kind[o], Registered[dev[o]], {"on"})
    BY <1>8, <2>1
  <2>3. QED BY <1>2, <1>4, <1>9, <1>10, <2>1, <2>2
<1>11. CASE Kind(o, {"disable"}) /\ DocCall(o, "docSave", doc[o], "off", "tag", "undoGet")
  <2>1. kind[o] = "disable" /\ ~Kind(o, AddKinds)
    BY <1>11 DEF Kind, AddKinds
  <2>2. Registry!Change(kind[o], Registered[dev[o]], {"off"})
    BY <1>8, <2>1
  <2>3. QED BY <1>2, <1>4, <1>9, <1>11, <2>1, <2>2
<1>12. CASE Kind(o, {"save"}) /\ DocCall(o, "docSave", doc[o], enabled[o], "twinSync", "failed")
  <2>1. kind[o] = "save" /\ ~Kind(o, AddKinds)
    BY <1>12 DEF Kind, AddKinds
  <2>2. enabled[o] # Absent
    BY <1>4, <1>6, <1>12, <2>1
  <2>3. Registry!Change(kind[o], Registered[dev[o]], {enabled[o]})
    BY <1>8, <2>1
  <2>4. QED BY <1>2, <1>4, <1>12, <2>1, <2>2, <2>3
<1>13. CASE Kind(o, {"info"}) /\ DocCall(o, "docSave", doc[o], "on", "twinSync", "failed")
  <2>1. kind[o] = "info" /\ ~Kind(o, AddKinds)
    BY <1>13 DEF Kind, AddKinds
  <2>2. Registry!Change(kind[o], Registered[dev[o]], {"on"})
    BY <1>8, <2>1
  <2>3. QED BY <1>2, <1>4, <1>9, <1>13, <2>1, <2>2
<1>14. QED BY <1>7, <1>10, <1>11, <1>12, <1>13 DEF DocSave

LEMMA LiftsDelete ==
    ASSUME TurnsInv, WritesReported, NEW o \in Operators, DocDelete(o)
    PROVE  Lifts(o)
<1>1. /\ TypeOK /\ OneDocument /\ dev[o] \in Devices /\ Own(o) /\ kind[o] = "remove" /\ doc[o] \in Keys
      /\ pc[o] = "docDelete" /\ pc[o] \in BeforeWrite
  <2>1. TypeOK /\ OneDocument /\ Own(o) /\ kind[o] = "remove" /\ pc[o] = "docDelete" /\ pc[o] \in BeforeWrite
    BY OwnRemove DEF TurnsInv, CallsInv, DocDelete, At, BeforeWrite, Labels, Returned, AfterWrite
  <2>2. RemoveSteps(o) /\ dev[o] \in Devices
    BY <2>1, TurnsAt, KindsApart DEF Returned
  <2>3. QED BY <2>1, <2>2 DEF RemoveSteps
<1>2. "undoRemove" \in BeforeWrite
  BY DEF BeforeWrite, Labels, Returned, AfterWrite
<1>3. CASE Goto(o, "undoRemove") /\ UNCHANGED docs
  BY <1>1, <1>2, <1>3, StillOpen DEF Goto, TypeOK
<1>4. CASE GotoAfterFault(o, "undoRemove") /\ UNCHANGED docs
  BY <1>1, <1>2, <1>4, StillOpen DEF GotoAfterFault, TypeOK
<1>5. CASE /\ docs[dev[o]][doc[o]] # Absent
           /\ docs' = [docs EXCEPT ![dev[o]][doc[o]] = Absent] /\ Goto(o, "simRemove")
  <2>1. Registered[dev[o]] = {docs[dev[o]][doc[o]]}
    BY <1>1, <1>5, OneEntry
  <2>2. ASSUME NEW k \in Keys PROVE docs'[dev[o]][k] = Absent
    <3>1. k # doc[o] => docs[dev[o]][k] = Absent
      BY <1>1, <1>5 DEF OneDocument
    <3>2. QED BY <1>1, <1>5, <3>1 DEF TypeOK
  <2>3. dev'[o] = dev[o] /\ Bare(dev[o])'
    BY <1>1, <2>2 DEF Own, Bare
  <2>4. Registered'[dev[o]] = {}
    BY <1>1, <2>2 DEF Registered, DocIds
  <2>5. Progress(o) = "open" /\ Progress(o)' = "applied"
    BY <1>1, <1>5 DEF Progress, AfterWrite, Returned, BeforeWrite, Goto, TypeOK
  <2>6. QED BY <1>1, <2>1, <2>4, <2>5 DEF Lifts, Applies, Registry!Change
<1>6. ~MayFail(o, "docDelete", "lost")
  BY DEF WritesReported, HalfDone, MayFail
<1>7. QED BY <1>3, <1>4, <1>5, <1>6 DEF DocDelete, DocCall, stores

\* a step of operator o moves its call and touches no entry but its device's
LEMMA CallMoves ==
    ASSUME TypeOK, NEW o \in Operators, Own(o)
    PROVE  Call' = [Call EXCEPT ![o].at = Progress(o)']
<1>1. \A p \in Operators \ {o} : Progress(p)' = Progress(p)
  BY DEF Own, Progress
<1>2. QED BY <1>1 DEF Own, Call

LEMMA EntriesStay ==
    ASSUME NEW o \in Operators, Elsewhere(o), dev[o] \in Devices
    PROVE  Registered' = [Registered EXCEPT ![dev[o]] = Registered'[dev[o]]]
<1>1. ASSUME NEW d \in Devices \ {dev[o]} PROVE Registered'[d] = Registered[d]
  BY DEF Elsewhere, Registered, DocIds
<1>2. /\ Registered = [d \in Devices |-> Registered[d]]
      /\ Registered' = [d \in Devices |-> Registered'[d]]
  BY DEF Registered
<1>3. QED BY <1>1, <1>2

LEMMA StepIsAtomic ==
    ASSUME TurnsInv, WritesReported, NEW o \in Operators, Step(o)
    PROVE  [Registry!Next]_<<Registered, Call>>
<1>1. /\ TypeOK /\ TypeOK' /\ Own(o) /\ Elsewhere(o) /\ pc[o] \notin Returned /\ dev[o] \in Devices
  BY CallsNext, StepIsOwn, StepElsewhere, StepAtWork, TurnsAt DEF TurnsInv, CallsInv, Next
<1>2. Lifts(o)
  BY LiftsBefore, LiftsAfter, LiftsSave, LiftsDelete, WritesReported DEF Step
<1>3. Call' = [Call EXCEPT ![o].at = Progress(o)']
  BY <1>1, CallMoves
<1>4. Call[o].kind = kind[o] /\ Call[o].dev = dev[o] /\ Call[o].at = Progress(o)
  BY DEF Call
<1>5. UNCHANGED docs => UNCHANGED Registered
  BY DEF Registered, DocIds
<1>6. Call'[o].at = Progress(o)'
  BY DEF Call
<1>7. CASE Stutters(o)
  <2>1. UNCHANGED Call
    BY <1>3, <1>7 DEF Stutters, Call
  <2>2. QED BY <1>5, <1>7, <2>1 DEF Stutters
<1>8. CASE Ends(o)
  BY <1>3, <1>4, <1>5, <1>6, <1>8 DEF Ends, Registry!Next, Registry!Return, Registry!Move
<1>9. CASE Applies(o)
  <2>1. Registered' = [Registered EXCEPT ![dev[o]] = Registered'[dev[o]]]
    BY <1>1, EntriesStay
  <2>2. Registered'[dev[o]] \in SUBSET Enabled
    BY <1>1 DEF Registered, DocIds, TypeOK
  <2>3. Registry!Apply(o)
    BY <1>3, <1>4, <1>9, <2>1, <2>2 DEF Applies, Registry!Apply, Registry!Move
  <2>4. QED BY <1>4, <1>6, <1>9, <2>3 DEF Applies, Registry!Next
<1>10. QED BY <1>2, <1>7, <1>8, <1>9 DEF Lifts

LEMMA NextIsAtomic ==
    WritesReported /\ TurnsInv /\ [Next]_vars => [Registry!Next]_<<Registered, Call>>
<1> SUFFICES ASSUME WritesReported, TurnsInv, [Next]_vars PROVE [Registry!Next]_<<Registered, Call>>
  OBVIOUS
<1>1. TypeOK
  BY DEF TurnsInv, CallsInv
<1>2. UNCHANGED docs => UNCHANGED Registered
  BY DEF Registered, DocIds
<1>3. ASSUME NEW o \in Operators, Begin(o) PROVE Registry!Start(o) /\ Call'[o].at # Call[o].at
  <2>1. PICK k \in Kinds, d \in Devices :
          /\ kind' = [kind EXCEPT ![o] = k]
          /\ dev' = [dev EXCEPT ![o] = d]
          /\ pc' = [pc EXCEPT ![o] = Entry[k]]
    BY <1>3 DEF Begin
  <2>2. k \in AllKinds /\ pc[o] \in Returned /\ UNCHANGED docs
    BY <1>3, ConstantsAssumption DEF Begin, stores
  <2>3. Entry[k] \notin Returned /\ Entry[k] \notin AfterWrite
    BY <2>2 DEF Entry, AllKinds, AddKinds, StatusKinds, SaveKinds, Returned, AfterWrite
  <2>4. Progress(o)' = "open"
    BY <1>1, <2>1, <2>3 DEF Progress, TypeOK
  <2>5. \A p \in Operators \ {o} : Progress(p)' = Progress(p) /\ kind'[p] = kind[p] /\ dev'[p] = dev[p]
    BY <1>1, <2>1 DEF Progress, TypeOK
  <2>6. kind'[o] = k /\ dev'[o] = d
    BY <1>1, <2>1 DEF TypeOK
  <2>7. Call' = [Call EXCEPT ![o] = [kind |-> k, dev |-> d, at |-> "open"]]
    BY <2>4, <2>5, <2>6 DEF Call
  <2>8. Call[o].at \notin {"open", "applied"}
    BY <2>2 DEF Call, Progress, Returned, AfterWrite
  <2>9. Call'[o].at = "open"
    BY <2>4 DEF Call
  <2>10. QED BY <1>2, <2>2, <2>7, <2>8, <2>9 DEF Registry!Start
<1>4. ASSUME NEW o \in Operators, Crash(o) PROVE Registry!Stop(o) /\ Call'[o].at # Call[o].at
  <2>1. pc' = [pc EXCEPT ![o] = "crashed"] /\ UNCHANGED <<docs, kind, dev>> /\ pc[o] \notin Returned
    BY <1>4 DEF Crash, GotoAfterFault, stores, task
  <2>2. Progress(o)' = "crashed" /\ Progress(o) \in {"open", "applied"}
    BY <1>1, <2>1 DEF Progress, TypeOK, Returned, AfterWrite
  <2>3. \A p \in Operators \ {o} : Progress(p)' = Progress(p)
    BY <1>1, <2>1 DEF Progress, TypeOK
  <2>4. Call' = [Call EXCEPT ![o].at = "crashed"] /\ Call[o].at = Progress(o)
    BY <2>1, <2>2, <2>3 DEF Call
  <2>5. Call'[o].at = "crashed"
    BY <2>2 DEF Call
  <2>6. QED BY <1>2, <2>1, <2>2, <2>4, <2>5 DEF Registry!Stop, Registry!Move
<1>5. CASE (\E d \in Devices : SaveRule(d)) \/ UNCHANGED vars
  <2>1. UNCHANGED <<docs, pc, kind, dev>>
    BY <1>5 DEF SaveRule, vars, stores, task, control
  <2>2. UNCHANGED Call
    BY <2>1 DEF Call, Progress
  <2>3. QED BY <1>2, <2>1, <2>2
<1>6. QED BY <1>3, <1>4, <1>5, StepIsAtomic DEF Next, Registry!Next

(* While only removals of a device overlap, and no write to the registry is  *)
(* reported wrongly or left behind by a twin update that fails after it,     *)
(* DeviceLogic over the registry implements AtomicDevices, whatever else     *)
(* fails or stops, for any number of devices and callers.                    *)
THEOREM DevicesAreAtomicAlways ==
    ASSUME WritesReported PROVE RemovalsOverlapSpec => DevicesAreAtomic
<1>1. TurnsInv /\ [Next /\ RemovalsOverlap]_vars => [Registry!Next]_<<Registered, Call>>
  BY NextIsAtomic, WritesReported
<1>2. QED BY <1>1, AtomicInit, TurnsAlways, PTL DEF RemovalsOverlapSpec, DevicesAreAtomic, Registry!Spec

-----------------------------------------------------------------------------
(* Rollbacks: one failure per operation, removals that overlap              *)

\* a call may be refused, once per operation, and twin updates are not
RefusedOnce ==
    /\ ~Unlimited /\ MaxFaults = 1
    /\ \A f \in Faults : f[1] \notin {"hubTwin", "tag"} /\ f[2] \in {"transient", "permanent"}

Agreed(d) == Present(d) <=> ~Bare(d)

\* operation o has changed the hub or the registry and still has to change
\* the other, or to roll back
Owes(o) ==
    \/ kind[o] \in AddKinds /\ pc[o] \in {"hubTwin", "docCheck", "docSave", "undoAdd"}
    \/ kind[o] = "remove" /\ pc[o] \in {"docFind", "docDelete", "undoRemove"}

\* what it found, or left, in both
AddHolds(o) ==
    kind[o] \in AddKinds =>
      /\ pc[o] \in AddCalls => key[o] \in Keys
      /\ pc[o] \in {"hubTwin", "docCheck", "docSave", "undoAdd"} => Present(dev[o]) /\ Bare(dev[o])
      /\ pc[o] = "tag" => Present(dev[o])
      /\ pc[o] = "undoAdd" => faults[o] = MaxFaults

RemoveHolds(o) ==
    kind[o] = "remove" =>
      /\ pc[o] \in {"hubRemove", "docFind", "docDelete", "undoRemove"} => key[o] \in Keys
      /\ pc[o] \in {"docFind", "docDelete", "undoRemove"} => ~Present(dev[o]) /\ ~Bare(dev[o])
      /\ pc[o] = "docDelete" => doc[o] \in Keys /\ docs[dev[o]][doc[o]] # Absent
      /\ pc[o] = "undoRemove" => faults[o] = MaxFaults
      /\ pc[o] \in {"simRemove", "rulesRemove"} => ~Present(dev[o]) /\ Bare(dev[o])

OtherHolds(o) ==
    kind[o] \in StatusKinds \union SaveKinds /\ pc[o] \in {"docExists", "docSave"} =>
      doc[o] \in Keys /\ docs[dev[o]][doc[o]] # Absent

Holds(o) == AddHolds(o) /\ RemoveHolds(o) /\ OtherHolds(o)

OneOwner == \A o, p \in Operators : Owes(o) /\ Owes(p) /\ dev[o] = dev[p] => o = p

AgreeInv ==
    /\ CallsInv
    /\ OneDocument
    /\ Apart
    /\ OneOwner
    /\ \A d \in Devices : Agreed(d) \/ \E o \in Operators : Owes(o) /\ dev[o] = d
    /\ \A o \in Operators : Holds(o)

LEMMA AgreeImplies == AgreeInv => Agreement
<1> SUFFICES ASSUME AgreeInv, NEW d \in Devices, Quiet(d) PROVE Agreed(d)
  BY DEF Agreement, Agreed, DocIds, Bare
<1>1. \A o \in Operators : ~(Owes(o) /\ dev[o] = d)
  BY DEF Quiet, Working, Returned, Owes
<1>2. QED BY <1>1 DEF AgreeInv

LEMMA AgreeInit == Init => AgreeInv
<1> SUFFICES ASSUME Init PROVE AgreeInv
  OBVIOUS
<1>1. CallsInv
  BY CallsInit
<1>2. OneDocument
  BY DEF Init, OneDocument, Absent
<1>3. \A o \in Operators : pc[o] = "idle" /\ kind[o] = "none"
  BY DEF Init
<1>4. Apart /\ OneOwner
  BY <1>3 DEF Apart, OneOwner, Owes, Returned
<1>5. \A o \in Operators : Holds(o)
  BY <1>3 DEF Holds, AddHolds, RemoveHolds, OtherHolds, AddCalls
<1>6. ASSUME NEW d \in Devices PROVE Agreed(d)
  <2>1. 0 \in Keys /\ NoKey # 0
    BY ConstantsAssumption DEF Keys, NoKey
  <2>2. Present(d) <=> d \in Initially
    BY <2>1 DEF Init, Present, NoIdentity, Identity
  <2>3. \A k \in Keys : docs[d][k] = IF d \in Initially /\ k = 0 THEN "null" ELSE Absent
    BY DEF Init
  <2>4. QED BY <2>1, <2>2, <2>3 DEF Agreed, Bare, Absent
<1>7. QED BY <1>1, <1>2, <1>4, <1>5, <1>6 DEF AgreeInv

\* what the others hold survives a step that keeps what they hold it of
LEMMA HoldsKept ==
    ASSUME NEW p \in Operators, Holds(p),
           pc'[p] = pc[p], kind'[p] = kind[p], dev'[p] = dev[p], key'[p] = key[p],
           doc'[p] = doc[p], faults'[p] = faults[p],
           Present(dev[p])' = Present(dev[p]),
           \A k \in Keys : docs'[dev[p]][k] = Absent <=> docs[dev[p]][k] = Absent
    PROVE  Holds(p)'
BY DEF Holds, AddHolds, RemoveHolds, OtherHolds, Present, Bare

\* operation o changes whether its device is in the hub or the registry
LEMMA AgreeChange ==
    ASSUME AgreeInv, CallsInv', OneDocument', NEW o \in Operators, pc[o] \notin Returned,
           Own(o), Holds(o)',
           \A d \in Devices \ {dev[o]} : identity'[d] = identity[d] /\ docs'[d] = docs[d],
           \A p \in Operators \ {o} :
             kind[p] = "remove" /\ dev[p] = dev[o] => pc[p] \in Returned \union {"hubGet", "hubRemove"},
           Owes(o)' \/ Agreed(dev[o])'
    PROVE  AgreeInv'
<1>1. TypeOK /\ CallsInv /\ dev[o] \in Devices
  BY DEF AgreeInv, CallsInv, TypeOK
<1>2. ASSUME NEW p \in Operators, p # o PROVE Holds(p)'
  <2>1. CASE pc[p] \in Returned
    BY <1>2, <2>1 DEF Own, Holds, AddHolds, RemoveHolds, OtherHolds, Returned, AddCalls
  <2>2. CASE pc[p] \notin Returned
    <3>1. dev[p] \in Devices
      BY <1>1, <2>2 DEF TypeOK
    <3>2. CASE dev[p] = dev[o]
      <4>1. kind[p] = "remove"
        BY <1>2, <2>2, <3>2 DEF AgreeInv, Apart
      <4>2. pc[p] \in {"hubGet", "hubRemove"}
        BY <1>2, <2>2, <3>2, <4>1
      <4>3. QED BY <1>2, <4>1, <4>2, KindsApart
                DEF AgreeInv, Own, Holds, AddHolds, RemoveHolds, OtherHolds
    <3>3. CASE dev[p] # dev[o]
      <4>1. identity'[dev[p]] = identity[dev[p]] /\ docs'[dev[p]] = docs[dev[p]]
        BY <3>1, <3>3
      <4>2. dev'[p] = dev[p] /\ Present(dev[p])' = Present(dev[p])
        BY <4>1 DEF Own, Present
      <4>3. QED BY <1>2, <4>1, <4>2, HoldsKept DEF AgreeInv, Own
    <3>4. QED BY <3>2, <3>3
  <2>3. QED BY <2>1, <2>2
<1>3. \A p \in Operators \ {o} : Owes(p)' <=> Owes(p)
  BY DEF Own, Owes
<1>4. \A p \in Operators \ {o} : Owes(p) => dev[p] # dev[o]
  <2> SUFFICES ASSUME NEW p \in Operators, p # o, Owes(p), dev[p] = dev[o] PROVE FALSE
    OBVIOUS
  <2>1. pc[p] \notin Returned
    BY DEF Owes, Returned
  <2>2. kind[p] = "remove"
    BY <2>1 DEF AgreeInv, Apart
  <2>3. QED BY <2>1, <2>2, KindsApart DEF Owes
<1>5. OneOwner'
  BY <1>3, <1>4 DEF AgreeInv, OneOwner, Own
<1>6. Apart'
  BY DEF AgreeInv, Apart, Own
<1>7. ASSUME NEW d \in Devices PROVE Agreed(d)' \/ \E p \in Operators : Owes(p)' /\ dev'[p] = d
  <2>1. CASE d = dev[o]
    BY <2>1 DEF Own
  <2>2. CASE d # dev[o]
    <3>1. Agreed(d)' <=> Agreed(d)
      BY <2>2 DEF Agreed, Present, Bare
    <3>2. QED BY <1>3, <2>2, <3>1 DEF AgreeInv, Own
  <2>3. QED BY <2>1, <2>2
<1>8. \A d \in Devices : (Agreed(d) \/ \E p \in Operators : Owes(p) /\ dev[p] = d)'
  BY <1>7
<1>9. \A p \in Operators : Holds(p)'
  BY <1>2
<1>10. QED BY <1>5, <1>6, <1>8, <1>9 DEF AgreeInv

\* or it does not
LEMMA AgreeKept ==
    ASSUME AgreeInv, CallsInv', NEW o \in Operators, pc[o] \notin Returned,
           Own(o), SameRegistry, Holds(o)', Owes(o)' <=> Owes(o)
    PROVE  AgreeInv'
<1>1. TypeOK /\ \A p \in Operators : pc[p] \notin Returned => dev[p] \in Devices
  BY DEF AgreeInv, CallsInv, TypeOK
<1>2. OneDocument'
  BY DEF AgreeInv, OneDocument, SameRegistry
<1>3. ASSUME NEW p \in Operators, p # o PROVE Holds(p)'
  <2>1. CASE pc[p] \in Returned
    BY <1>3, <2>1 DEF Own, Holds, AddHolds, RemoveHolds, OtherHolds, Returned, AddCalls
  <2>2. CASE pc[p] \notin Returned
    <3>1. dev[p] \in Devices /\ dev'[p] = dev[p]
      BY <1>1, <2>2 DEF Own
    <3>2. Present(dev[p])' = Present(dev[p])
      BY <3>1 DEF Present, SameRegistry
    <3>3. QED BY <1>3, <3>1, <3>2, HoldsKept DEF AgreeInv, Own, SameRegistry
  <2>3. QED BY <2>1, <2>2
<1>4. \A p \in Operators : Owes(p)' <=> Owes(p)
  BY DEF Own, Owes
<1>5. OneOwner' /\ Apart'
  BY <1>4 DEF AgreeInv, OneOwner, Apart, Own
<1>6. \A d \in Devices : Agreed(d)' <=> Agreed(d)
  BY DEF SameRegistry, Agreed, Present, Bare
<1>7. \A d \in Devices : (Agreed(d) \/ \E p \in Operators : Owes(p) /\ dev[p] = d)'
  BY <1>4, <1>6 DEF AgreeInv, Own
<1>8. \A p \in Operators : Holds(p)'
  BY <1>3
<1>9. QED BY <1>2, <1>5, <1>7, <1>8 DEF AgreeInv

\* what a step must keep for RemovedIsGone
KeepsGone(o) ==
    /\ \A d \in Devices :
         Gone(d) => Gone(d)' \/ (kind[o] \in AddKinds /\ dev[o] = d /\ pc'[o] # pc[o])
    /\ kind[o] = "remove" /\ pc'[o] = "ok" => Gone(dev[o])'

LEMMA GoneBare == ASSUME NEW d \in Devices PROVE Gone(d) <=> ~Present(d) /\ Bare(d)
BY DEF Gone, DocIds, Bare
LEMMA GoneBareNext == ASSUME NEW d \in Devices PROVE Gone(d)' <=> ~Present(d)' /\ Bare(d)'
BY DEF Gone, DocIds, Bare

LEMMA SameGone ==
    ASSUME NEW o \in Operators, SameRegistry, kind[o] = "remove" => pc'[o] # "ok"
    PROVE  KeepsGone(o)
<1>1. \A d \in Devices : Gone(d) => Gone(d)'
  BY GoneBare, GoneBareNext DEF SameRegistry, Bare, Present
<1>2. QED BY <1>1 DEF KeepsGone

LEMMA AddKeepsGone ==
    ASSUME NEW o \in Operators, kind[o] \in AddKinds, pc'[o] # pc[o],
           \A d \in Devices \ {dev[o]} : identity'[d] = identity[d] /\ docs'[d] = docs[d]
    PROVE  KeepsGone(o)
<1>1. \A d \in Devices \ {dev[o]} : Gone(d)' <=> Gone(d)
  BY DEF Gone, Present, DocIds
<1>2. QED BY <1>1, KindsApart DEF KeepsGone

LEMMA UnchangedSame == UNCHANGED <<identity, docs>> => SameRegistry
BY DEF SameRegistry

LEMMA AgreeAt ==
    ASSUME AgreeInv, NEW o \in Operators, pc[o] \notin Returned
    PROVE  TypeOK /\ CallsInv /\ OneDocument /\ dev[o] \in Devices /\ Holds(o) /\ CallsOK(o)
BY DEF AgreeInv, CallsInv, TypeOK

\* the only failure of an operation
LEMMA FaultSpent ==
    ASSUME RefusedOnce, TypeOK, NEW o \in Operators, Budget(o)
    PROVE  /\ faults[o] # MaxFaults
           /\ Spend(o) => faults'[o] = MaxFaults
BY DEF RefusedOnce, TypeOK, Budget, Spend

LEMMA HubCallRefuses ==
    ASSUME RefusedOnce, TypeOK, NEW o \in Operators, NEW call, NEW accepts, NEW effect,
           NEW ok, NEW err, HubCall(o, call, accepts, effect, ok, err)
    PROVE  /\ UNCHANGED docs
           /\ \/ accepts /\ SetIdentity(dev[o], effect) /\ pc'[o] = ok
              \/ ~accepts /\ UNCHANGED identity /\ pc'[o] = err
              \/ UNCHANGED identity /\ pc'[o] \in {err, pc[o]} /\ faults[o] # MaxFaults
<1>1. UNCHANGED docs
  BY DEF HubCall
<1>2. CASE accepts /\ SetIdentity(dev[o], effect) /\ Goto(o, ok)
  BY <1>1, <1>2 DEF Goto, TypeOK
<1>3. CASE ~accepts /\ Goto(o, err) /\ UNCHANGED identity
  BY <1>1, <1>3 DEF Goto, TypeOK
<1>4. ASSUME NEW f \in {"transient", "permanent", "lost"}, MayFail(o, call, f),
             IF f = "lost" /\ accepts THEN SetIdentity(dev[o], effect) ELSE UNCHANGED identity,
             Retry(o) \/ GotoAfterFault(o, err)
      PROVE  UNCHANGED identity /\ pc'[o] \in {err, pc[o]} /\ faults[o] # MaxFaults
  <2>1. f # "lost"
    BY <1>4 DEF MayFail, RefusedOnce
  <2>2. QED BY <1>4, <2>1, MovesOwn, FaultSpent DEF MayFail
<1>5. QED BY <1>1, <1>2, <1>3, <1>4 DEF HubCall

LEMMA DocCallRefuses ==
    ASSUME RefusedOnce, TypeOK, NEW o \in Operators, NEW call, NEW id, NEW value, NEW ok, NEW err,
           DocCall(o, call, id, value, ok, err)
    PROVE  /\ UNCHANGED identity
           /\ \/ docs' = [docs EXCEPT ![dev[o]][id] = value] /\ pc'[o] = ok
              \/ UNCHANGED docs /\ pc'[o] = err /\ faults'[o] = MaxFaults
<1>1. UNCHANGED identity
  BY DEF DocCall
<1>2. CASE docs' = [docs EXCEPT ![dev[o]][id] = value] /\ Goto(o, ok)
  BY <1>1, <1>2 DEF Goto, TypeOK
<1>3. CASE MayFail(o, call, "permanent") /\ GotoAfterFault(o, err) /\ UNCHANGED docs
  BY <1>1, <1>3, FaultSpent DEF MayFail, GotoAfterFault, TypeOK
<1>4. ~MayFail(o, call, "lost")
  BY DEF MayFail, RefusedOnce
<1>5. QED BY <1>1, <1>2, <1>3, <1>4 DEF DocCall

LEMMA TwinCallAnswers ==
    ASSUME RefusedOnce, TypeOK, NEW o \in Operators, dev[o] \in Devices, NEW call \in {"hubTwin", "tag"},
           NEW effect, effect.key = identity[dev[o]].key, NEW ok, NEW err,
           TwinCall(o, call, effect, ok, err)
    PROVE  /\ SameRegistry /\ UNCHANGED docs
           /\ pc'[o] = ok \/ (~Present(dev[o]) /\ pc'[o] = err)
<1>1. UNCHANGED docs
  BY DEF TwinCall
<1>2. SetIdentity(dev[o], effect) \/ UNCHANGED identity
  BY DEF TwinCall
<1>3. SameRegistry
  BY <1>1, <1>2 DEF TypeOK, SameRegistry, SetIdentity
<1>4. \A f : ~MayFail(o, call, f)
  BY DEF MayFail, RefusedOnce
<1>5. Goto(o, ok) \/ (~Present(dev[o]) /\ Goto(o, err))
  BY <1>4 DEF TwinCall
<1>6. QED BY <1>1, <1>3, <1>5 DEF Goto, TypeOK

\* nobody else is about to touch the device that an operation works on
LEMMA OthersWait ==
    ASSUME AgreeInv, NEW o \in Operators, pc[o] \notin Returned,
           kind[o] # "remove" \/ Owes(o) \/ Present(dev[o])
    PROVE  \A p \in Operators \ {o} :
             kind[p] = "remove" /\ dev[p] = dev[o] => pc[p] \in Returned \union {"hubGet", "hubRemove"}
<1> SUFFICES ASSUME NEW p \in Operators, p # o, kind[p] = "remove", dev[p] = dev[o],
                    pc[p] \notin Returned
             PROVE  pc[p] \in {"hubGet", "hubRemove"}
  OBVIOUS
<1>1. kind[o] = "remove"
  BY DEF AgreeInv, Apart
<1>2. pc[p] \in RemoveCalls /\ Holds(p) /\ Holds(o)
  BY DEF AgreeInv, CallsInv, CallsOK
<1>3. pc[p] \in {"docFind", "docDelete", "undoRemove"} => Owes(p) /\ ~Present(dev[o])
  BY <1>2 DEF Owes, Holds, RemoveHolds
<1>4. pc[p] \in {"simRemove", "rulesRemove"} => ~Present(dev[o]) /\ Bare(dev[o])
  BY <1>2 DEF Holds, RemoveHolds
<1>5. Owes(o) => ~Bare(dev[o])
  BY <1>1, <1>2, KindsApart DEF Owes, Holds, RemoveHolds
<1>6. Owes(o) => ~Owes(p)
  BY DEF AgreeInv, OneOwner
<1>7. QED BY <1>1, <1>2, <1>3, <1>4, <1>5, <1>6 DEF RemoveCalls

\* a device nobody changes is in both or in neither
LEMMA AgreedNow ==
    ASSUME AgreeInv, NEW o \in Operators, pc[o] \notin Returned, ~Owes(o),
           kind[o] # "remove" \/ Present(dev[o])
    PROVE  Agreed(dev[o])
<1>1. dev[o] \in Devices
  BY AgreeAt
<1>2. ASSUME NEW p \in Operators, Owes(p), dev[p] = dev[o] PROVE FALSE
  <2>1. p # o /\ pc[p] \notin Returned
    BY <1>2 DEF Owes, Returned
  <2>2. kind[p] = "remove"
    BY <1>2, <2>1 DEF AgreeInv, Apart
  <2>3. pc[p] \in {"hubGet", "hubRemove"}
    BY <1>2, <2>1, <2>2, OthersWait
  <2>4. QED BY <1>2, <2>2, <2>3, KindsApart DEF Owes
<1>3. QED BY <1>1, <1>2 DEF AgreeInv

LEMMA AgreeAdd ==
    ASSUME RefusedOnce, AgreeInv, CallsInv', NEW o \in Operators,
           Validate(o) \/ HubAdd(o) \/ HubTwin(o) \/ DocCheck(o) \/ UndoAdd(o)
    PROVE  AgreeInv' /\ KeepsGone(o)
<1>1. /\ pc[o] \in {"validate", "hubAdd", "hubTwin", "docCheck", "undoAdd"}
      /\ pc[o] \notin Returned
  BY DEF Validate, HubAdd, HubTwin, DocCheck, UndoAdd, At, Returned
<1>2. TypeOK /\ CallsInv /\ OneDocument /\ dev[o] \in Devices /\ Holds(o)
  BY <1>1, AgreeAt
<1>3. Own(o) /\ kind[o] \in AddKinds /\ kind'[o] = kind[o] /\ dev'[o] = dev[o]
  BY <1>2, OwnAdd DEF Own
<1>4. key[o] \in Keys /\ kind[o] # "remove" /\ kind[o] \notin StatusKinds \union SaveKinds
  BY <1>1, <1>2, <1>3, KindsApart DEF Holds, AddHolds, AddCalls
<1>5. UNCHANGED <<docs, memory>>
  BY DEF Validate, HubAdd, HubTwin, DocCheck, UndoAdd, HubCall, TwinCall, stores
<1>6. OneDocument' /\ key'[o] = key[o]
  BY <1>2, <1>5 DEF OneDocument, memory
\* what holds of an Add is all there is to show
<1>7. AddHolds(o)' => Holds(o)'
  BY <1>3, <1>4 DEF Holds, RemoveHolds, OtherHolds
<1>8. ASSUME SameRegistry, AddHolds(o)', Owes(o)' <=> Owes(o) PROVE AgreeInv' /\ KeepsGone(o)
  BY <1>1, <1>3, <1>4, <1>7, <1>8, AgreeKept, SameGone
<1>9. CASE Validate(o)
  <2>1. pc'[o] \in {"hubAdd", "failed"} /\ SameRegistry /\ pc[o] = "validate"
    BY <1>2, <1>9, UnchangedSame
       DEF Validate, At, ReadFails, Goto, GotoAfterFault, TypeOK, stores
  <2>2. AddHolds(o)' /\ (Owes(o)' <=> Owes(o))
    BY <1>3, <1>4, <1>6, <2>1 DEF AddHolds, AddCalls, Owes
  <2>3. QED BY <1>8, <2>1, <2>2
<1>10. CASE HubAdd(o)
  <2>1. pc[o] = "hubAdd" /\ ~Owes(o)
    BY <1>4, <1>10, KindsApart DEF HubAdd, At, Owes
  <2>2. PICK next \in {"hubTwin", "docCheck"} :
          HubCall(o, "hubAdd", ~Present(dev[o]), Identity(key[o], "enabled"), next, "failed")
    BY <1>10 DEF HubAdd
  <2>3. \/ /\ ~Present(dev[o]) /\ SetIdentity(dev[o], Identity(key[o], "enabled"))
           /\ pc'[o] = next
        \/ UNCHANGED identity /\ pc'[o] \in {"failed", "hubAdd"}
    BY <1>2, <2>1, <2>2, HubCallRefuses
  <2>4. CASE /\ ~Present(dev[o]) /\ SetIdentity(dev[o], Identity(key[o], "enabled"))
             /\ pc'[o] = next
    <3>1. Bare(dev[o])
      BY <1>1, <1>4, <2>1, <2>4, AgreedNow DEF Agreed
    <3>2. identity'[dev[o]].key = key[o] /\ \A d \in Devices \ {dev[o]} : identity'[d] = identity[d]
      BY <1>2, <2>4 DEF SetIdentity, Identity, TypeOK
    <3>3. Present(dev[o])' /\ Bare(dev[o])'
      BY <1>3, <1>4, <1>5, <3>1, <3>2, ConstantsAssumption DEF Present, Bare, Keys, NoKey
    <3>4. AddHolds(o)' /\ Owes(o)'
      BY <1>3, <1>4, <1>6, <2>4, <3>3 DEF AddHolds, AddCalls, Owes
    <3>5. AgreeInv'
      BY <1>1, <1>2, <1>3, <1>4, <1>5, <1>6, <1>7, <3>2, <3>4, OthersWait, AgreeChange
    <3>6. KeepsGone(o)
      BY <1>3, <1>5, <2>1, <2>4, <3>2, AddKeepsGone
    <3>7. QED BY <3>5, <3>6
  <2>5. CASE UNCHANGED identity /\ pc'[o] \in {"failed", "hubAdd"}
    <3>1. AddHolds(o)' /\ ~Owes(o)'
      BY <1>3, <1>4, <1>6, <2>5 DEF AddHolds, AddCalls, Owes
    <3>2. QED BY <1>5, <1>8, <2>1, <2>5, <3>1, UnchangedSame
  <2>6. QED BY <2>3, <2>4, <2>5
<1>11. CASE HubTwin(o)
  <2>1. pc[o] = "hubTwin" /\ Present(dev[o]) /\ Bare(dev[o])
    BY <1>2, <1>3, <1>11 DEF HubTwin, At, Holds, AddHolds
  <2>2. TwinCall(o, "hubTwin", identity[dev[o]], "docCheck", "failed")
    BY <1>11 DEF HubTwin
  <2>3. SameRegistry /\ pc'[o] = "docCheck"
    BY <1>2, <2>1, <2>2, TwinCallAnswers
  <2>4. Present(dev[o])' /\ Bare(dev[o])'
    BY <1>2, <1>3, <1>5, <2>1, <2>3 DEF SameRegistry, Present, Bare
  <2>5. AddHolds(o)' /\ Owes(o)' /\ Owes(o)
    BY <1>3, <1>4, <1>6, <2>1, <2>3, <2>4 DEF AddHolds, AddCalls, Owes
  <2>6. QED BY <1>8, <2>3, <2>5
<1>12. CASE DocCheck(o)
  <2>1. pc[o] = "docCheck" /\ Present(dev[o]) /\ Bare(dev[o])
    BY <1>2, <1>3, <1>12 DEF DocCheck, At, Holds, AddHolds
  <2>2. UNCHANGED <<identity, docs>> /\ DocIds(dev[o]) = {}
    BY <1>12, <2>1 DEF DocCheck, stores, DocIds, Bare
  <2>3. Goto(o, "docSave") \/ ReadFails(o, "undoAdd")
    BY <1>12, <2>2 DEF DocCheck
  <2>4. pc'[o] = "docSave" \/ (pc'[o] = "undoAdd" /\ faults'[o] = MaxFaults)
    BY <1>2, <2>3, FaultSpent DEF ReadFails, MayFail, Goto, GotoAfterFault, TypeOK
  <2>5. Present(dev[o])' /\ Bare(dev[o])'
    BY <1>3, <2>1, <2>2 DEF Present, Bare
  <2>6. AddHolds(o)' /\ Owes(o)' /\ Owes(o)
    BY <1>3, <1>4, <1>6, <2>1, <2>4, <2>5 DEF AddHolds, AddCalls, Owes
  <2>7. QED BY <1>8, <2>2, <2>6, UnchangedSame
<1>13. CASE UndoAdd(o)
  <2>1. pc[o] = "undoAdd" /\ Present(dev[o]) /\ Bare(dev[o]) /\ faults[o] = MaxFaults
    BY <1>2, <1>3, <1>13 DEF UndoAdd, At, Holds, AddHolds
  <2>2. HubCall(o, "hubRemove", Present(dev[o]), NoIdentity, "failed", "failed")
    BY <1>13 DEF UndoAdd
  <2>3. SetIdentity(dev[o], NoIdentity) /\ pc'[o] = "failed"
    BY <1>2, <2>1, <2>2, HubCallRefuses
  <2>4. /\ ~Present(dev[o])'
        /\ \A d \in Devices \ {dev[o]} : identity'[d] = identity[d]
    BY <1>2, <1>3, <2>3 DEF SetIdentity, NoIdentity, Identity, Present, TypeOK
  <2>5. Agreed(dev[o])'
    BY <1>3, <1>5, <2>1, <2>4 DEF Agreed, Bare
  <2>6. AddHolds(o)'
    BY <2>3 DEF AddHolds, AddCalls
  <2>7. AgreeInv'
    BY <1>1, <1>2, <1>3, <1>4, <1>5, <1>6, <1>7, <2>4, <2>5, <2>6, OthersWait, AgreeChange
  <2>8. KeepsGone(o)
    BY <1>3, <1>5, <2>1, <2>3, <2>4, AddKeepsGone
  <2>9. QED BY <2>7, <2>8
<1>14. QED BY <1>9, <1>10, <1>11, <1>12, <1>13

LEMMA AgreeDocSave ==
    ASSUME RefusedOnce, AgreeInv, CallsInv', NEW o \in Operators, DocSave(o)
    PROVE  AgreeInv' /\ KeepsGone(o)
<1>1. pc[o] = "docSave" /\ pc[o] \notin Returned
  BY DEF DocSave, At, Returned
<1>2. TypeOK /\ CallsInv /\ OneDocument /\ dev[o] \in Devices /\ Holds(o)
  BY <1>1, AgreeAt
<1>3. Own(o) /\ kind[o] # "remove" /\ kind'[o] = kind[o] /\ dev'[o] = dev[o]
  BY <1>2, OwnDocSave DEF Own
<1>4. ASSUME kind[o] \in AddKinds, NEW value \in NewEnabled,
             DocCall(o, "docSave", key[o], value, "tag", "undoAdd")
      PROVE  AgreeInv' /\ KeepsGone(o)
  <2>1. key[o] \in Keys /\ Present(dev[o]) /\ Bare(dev[o]) /\ value # Absent
    BY <1>1, <1>2, <1>4 DEF Holds, AddHolds, AddCalls, NewEnabled, Absent
  <2>2. UNCHANGED memory
    BY <1>4 DEF DocCall
  <2>3. key'[o] = key[o] /\ kind[o] \notin StatusKinds \union SaveKinds
    BY <1>4, <2>2, KindsApart DEF memory
  <2>4. /\ UNCHANGED identity
        /\ \/ docs' = [docs EXCEPT ![dev[o]][key[o]] = value] /\ pc'[o] = "tag"
           \/ UNCHANGED docs /\ pc'[o] = "undoAdd" /\ faults'[o] = MaxFaults
    BY <1>2, <1>4, DocCallRefuses
  <2>5. Present(dev[o])'
    BY <1>3, <2>1, <2>4 DEF Present
  <2>6. CASE docs' = [docs EXCEPT ![dev[o]][key[o]] = value] /\ pc'[o] = "tag"
    <3>1. /\ docs'[dev[o]][key[o]] # Absent
          /\ \A d \in Devices \ {dev[o]} : docs'[d] = docs[d]
          /\ \A k \in Keys \ {key[o]} : docs'[dev[o]][k] = Absent
      BY <1>2, <2>1, <2>6 DEF TypeOK, Bare
    <3>2. OneDocument'
      <4> SUFFICES ASSUME NEW d \in Devices, NEW j \in Keys, NEW k \in Keys,
                          docs'[d][j] # Absent, docs'[d][k] # Absent
                   PROVE  j = k
        BY DEF OneDocument
      <4>1. CASE d = dev[o]
        BY <3>1, <4>1
      <4>2. CASE d # dev[o]
        BY <1>2, <3>1, <4>2 DEF OneDocument
      <4>3. QED BY <4>1, <4>2
    <3>3. ~Bare(dev[o])'
      BY <1>3, <2>1, <3>1 DEF Bare
    <3>4. Holds(o)'
      BY <1>3, <2>1, <2>3, <2>5, <2>6 DEF Holds, AddHolds, RemoveHolds, OtherHolds
    <3>5. AgreeInv'
      BY <1>1, <1>2, <1>3, <2>4, <2>5, <3>1, <3>2, <3>3, <3>4, OthersWait, AgreeChange DEF Agreed
    <3>6. KeepsGone(o)
      BY <1>1, <1>4, <2>4, <2>6, <3>1, AddKeepsGone
    <3>7. QED BY <3>5, <3>6
  <2>7. CASE UNCHANGED docs /\ pc'[o] = "undoAdd" /\ faults'[o] = MaxFaults
    <3>1. Bare(dev[o])'
      BY <1>3, <2>1, <2>7 DEF Bare
    <3>2. Holds(o)'
      BY <1>3, <2>1, <2>3, <2>5, <2>7, <3>1 DEF Holds, AddHolds, RemoveHolds, OtherHolds
    <3>3. Owes(o) /\ Owes(o)'
      BY <1>1, <1>3, <1>4, <2>7 DEF Owes
    <3>4. QED BY <1>1, <1>3, <2>4, <2>7, <3>2, <3>3, UnchangedSame, AgreeKept, SameGone
  <2>8. QED BY <2>4, <2>6, <2>7
<1>5. ASSUME kind[o] \in StatusKinds \union SaveKinds, NEW value \in Enabled, NEW ok, NEW err,
             ok \in {"tag", "twinSync"}, err \in {"undoGet", "failed"},
             DocCall(o, "docSave", doc[o], value, ok, err)
      PROVE  AgreeInv' /\ KeepsGone(o)
  <2>1. /\ doc[o] \in Keys /\ docs[dev[o]][doc[o]] # Absent /\ value # Absent
        /\ kind[o] \notin AddKinds
    BY <1>1, <1>2, <1>5, KindsApart DEF Holds, OtherHolds, Enabled, Absent
  <2>2. /\ UNCHANGED identity /\ pc'[o] \in {ok, err}
        /\ docs' = [docs EXCEPT ![dev[o]][doc[o]] = value] \/ UNCHANGED docs
    <3>1. TypeOK /\ DocCall(o, "docSave", doc[o], value, ok, err)
      BY <1>2, <1>5
    <3>2. /\ UNCHANGED identity
          /\ \/ docs' = [docs EXCEPT ![dev[o]][doc[o]] = value] /\ pc'[o] = ok
             \/ UNCHANGED docs /\ pc'[o] = err /\ faults'[o] = MaxFaults
      BY <3>1, DocCallRefuses
    <3>3. QED BY <3>2
  <2>3. SameRegistry
    BY <1>2, <2>1, <2>2 DEF SameRegistry, TypeOK
  <2>4. Holds(o)' /\ ~Owes(o)' /\ ~Owes(o)
    BY <1>3, <1>5, <2>1, <2>2 DEF Holds, AddHolds, RemoveHolds, OtherHolds, Owes
  <2>5. QED BY <1>1, <1>3, <2>3, <2>4, AgreeKept, SameGone
<1>6. /\ {"enable", "disable", "save", "info"} \subseteq StatusKinds \union SaveKinds
      /\ {"on", "off", enabled[o]} \subseteq Enabled
  BY <1>2 DEF StatusKinds, SaveKinds, Enabled, TypeOK
<1>7. CASE Kind(o, {"enable"}) /\ DocCall(o, "docSave", doc[o], "on", "tag", "undoGet")
  BY <1>5, <1>6, <1>7 DEF Kind
<1>8. CASE Kind(o, {"disable"}) /\ DocCall(o, "docSave", doc[o], "off", "tag", "undoGet")
  BY <1>5, <1>6, <1>8 DEF Kind
<1>9. CASE Kind(o, {"save"}) /\ DocCall(o, "docSave", doc[o], enabled[o], "twinSync", "failed")
  BY <1>5, <1>6, <1>9 DEF Kind
<1>10. CASE Kind(o, {"info"}) /\ DocCall(o, "docSave", doc[o], "on", "twinSync", "failed")
  BY <1>5, <1>6, <1>10 DEF Kind
<1>11. QED BY <1>4, <1>7, <1>8, <1>9, <1>10 DEF DocSave, Kind

LEMMA AgreeRemove ==
    ASSUME RefusedOnce, AgreeInv, CallsInv', NEW o \in Operators,
           HubGet(o) \/ HubRemove(o) \/ DocDelete(o) \/ RulesRemove(o) \/ UndoRemove(o)
    PROVE  AgreeInv' /\ KeepsGone(o)
<1>1. /\ pc[o] \in {"hubGet", "hubRemove", "docDelete", "rulesRemove", "undoRemove"}
      /\ pc[o] \notin Returned
  BY DEF HubGet, HubRemove, DocDelete, RulesRemove, UndoRemove, At, Returned
<1>2. TypeOK /\ CallsInv /\ OneDocument /\ dev[o] \in Devices /\ Holds(o)
  BY <1>1, AgreeAt
<1>3. Own(o) /\ kind[o] = "remove" /\ kind'[o] = "remove" /\ dev'[o] = dev[o]
  BY <1>2, OwnRemove DEF Own
<1>4. kind[o] \notin AddKinds /\ kind[o] \notin StatusKinds \union SaveKinds
  BY <1>3, KindsApart
<1>5. RemoveHolds(o)' => Holds(o)'
  BY <1>3, <1>4 DEF Holds, AddHolds, OtherHolds
<1>6. ASSUME SameRegistry, RemoveHolds(o)', Owes(o)' <=> Owes(o), pc'[o] # "ok"
      PROVE  AgreeInv' /\ KeepsGone(o)
  BY <1>1, <1>3, <1>5, <1>6, AgreeKept, SameGone
<1>7. CASE HubGet(o)
  <2>1. SameRegistry /\ pc[o] = "hubGet"
    BY <1>7, UnchangedSame DEF HubGet, At, stores
  <2>2. \/ pc'[o] = "hubRemove" /\ key'[o] \in Keys
        \/ pc'[o] \in {"failed", "hubGet"}
    BY <1>2, <1>7 DEF HubGet, At, Present, GetFails, Goto, GotoAfterFault, Retry, TypeOK, IdentityRecord
  <2>3. RemoveHolds(o)' /\ ~Owes(o)' /\ ~Owes(o)
    BY <1>3, <1>4, <2>1, <2>2 DEF RemoveHolds, Owes
  <2>4. QED BY <1>6, <2>1, <2>2, <2>3
<1>8. CASE HubRemove(o)
  <2>1. pc[o] = "hubRemove" /\ key[o] \in Keys /\ UNCHANGED memory /\ ~Owes(o)
    BY <1>2, <1>3, <1>4, <1>8 DEF HubRemove, At, HubCall, Holds, RemoveHolds, Owes
  <2>2. key'[o] = key[o]
    BY <2>1 DEF memory
  <2>3. HubCall(o, "hubRemove", Present(dev[o]), NoIdentity, "docFind", "failed")
    BY <1>8 DEF HubRemove
  <2>4. /\ UNCHANGED docs
        /\ \/ Present(dev[o]) /\ SetIdentity(dev[o], NoIdentity) /\ pc'[o] = "docFind"
           \/ UNCHANGED identity /\ pc'[o] \in {"failed", "hubRemove"}
    BY <1>2, <2>1, <2>3, HubCallRefuses
  <2>5. CASE Present(dev[o]) /\ SetIdentity(dev[o], NoIdentity) /\ pc'[o] = "docFind"
    <3>1. ~Bare(dev[o])
      BY <1>1, <2>1, <2>5, AgreedNow DEF Agreed
    <3>2. /\ ~Present(dev[o])' /\ ~Bare(dev[o])'
          /\ \A d \in Devices \ {dev[o]} : identity'[d] = identity[d]
      BY <1>2, <1>3, <2>4, <2>5, <3>1 DEF SetIdentity, NoIdentity, Identity, Present, Bare, TypeOK
    <3>3. RemoveHolds(o)' /\ Owes(o)'
      BY <1>3, <2>1, <2>2, <2>5, <3>2 DEF RemoveHolds, Owes
    <3>4. OneDocument'
      BY <1>2, <2>4 DEF OneDocument
    <3>5. AgreeInv'
      BY <1>1, <1>3, <1>5, <2>4, <2>5, <3>2, <3>3, <3>4, OthersWait, AgreeChange
    <3>6. KeepsGone(o)
      <4>1. ~Gone(dev[o])
        BY <1>2, <3>1, GoneBare
      <4>2. \A d \in Devices \ {dev[o]} : Gone(d) => Gone(d)'
        BY <2>4, <3>2, GoneBare, GoneBareNext DEF Present, Bare
      <4>3. QED BY <2>5, <4>1, <4>2 DEF KeepsGone
    <3>7. QED BY <3>5, <3>6
  <2>6. CASE UNCHANGED identity /\ pc'[o] \in {"failed", "hubRemove"}
    <3>1. RemoveHolds(o)' /\ ~Owes(o)'
      BY <1>3, <1>4, <2>1, <2>2, <2>6 DEF RemoveHolds, Owes
    <3>2. QED BY <1>6, <2>1, <2>4, <2>6, <3>1, UnchangedSame
  <2>7. QED BY <2>4, <2>5, <2>6
<1>9. CASE DocDelete(o)
  <2>1. /\ pc[o] = "docDelete" /\ doc[o] \in Keys /\ docs[dev[o]][doc[o]] # Absent
        /\ ~Present(dev[o]) /\ ~Bare(dev[o]) /\ key[o] \in Keys
    BY <1>2, <1>3, <1>9 DEF DocDelete, At, Holds, RemoveHolds
  <2>2. DocCall(o, "docDelete", doc[o], Absent, "simRemove", "undoRemove")
    BY <1>9, <2>1 DEF DocDelete
  <2>3. /\ UNCHANGED identity
        /\ \/ docs' = [docs EXCEPT ![dev[o]][doc[o]] = Absent] /\ pc'[o] = "simRemove"
           \/ UNCHANGED docs /\ pc'[o] = "undoRemove" /\ faults'[o] = MaxFaults
    BY <1>2, <2>2, DocCallRefuses
  <2>4. Owes(o) /\ key'[o] = key[o] /\ ~Present(dev[o])'
    BY <1>3, <2>1, <2>2, <2>3 DEF Owes, DocCall, memory, Present
  <2>5. CASE docs' = [docs EXCEPT ![dev[o]][doc[o]] = Absent] /\ pc'[o] = "simRemove"
    <3>1. /\ \A d \in Devices \ {dev[o]} : docs'[d] = docs[d]
          /\ \A d \in Devices, k \in Keys : docs'[d][k] # Absent => docs[d][k] # Absent
      BY <1>2, <2>1, <2>5 DEF TypeOK
    <3>2. OneDocument'
      BY <1>2, <3>1 DEF OneDocument
    <3>3. ASSUME NEW k \in Keys PROVE docs'[dev[o]][k] = Absent
      <4>1. k # doc[o] => docs[dev[o]][k] = Absent
        BY <1>2, <2>1 DEF OneDocument
      <4>2. QED BY <1>2, <2>1, <2>5, <4>1 DEF TypeOK
    <3>4. Bare(dev[o])'
      BY <1>3, <3>3 DEF Bare
    <3>5. RemoveHolds(o)' /\ Agreed(dev[o])'
      BY <1>3, <2>4, <2>5, <3>4 DEF RemoveHolds, Agreed
    <3>6. AgreeInv'
      BY <1>1, <1>3, <1>5, <2>3, <2>4, <3>1, <3>2, <3>5, OthersWait, AgreeChange
    <3>7. KeepsGone(o)
      <4>1. \A d \in Devices : Gone(d) => Gone(d)'
        BY <2>3, <3>1, GoneBare, GoneBareNext DEF Present, Bare
      <4>2. QED BY <2>5, <4>1 DEF KeepsGone
    <3>8. QED BY <3>6, <3>7
  <2>6. CASE UNCHANGED docs /\ pc'[o] = "undoRemove" /\ faults'[o] = MaxFaults
    <3>1. ~Bare(dev[o])'
      BY <1>3, <2>1, <2>6 DEF Bare
    <3>2. RemoveHolds(o)' /\ Owes(o)'
      BY <1>3, <2>1, <2>4, <2>6, <3>1 DEF RemoveHolds, Owes
    <3>3. QED BY <1>6, <2>3, <2>4, <2>6, <3>2, UnchangedSame
  <2>7. QED BY <2>3, <2>5, <2>6
<1>10. CASE RulesRemove(o)
  <2>1. pc[o] = "rulesRemove" /\ ~Present(dev[o]) /\ Bare(dev[o])
    BY <1>2, <1>3, <1>10 DEF RulesRemove, At, Holds, RemoveHolds
  <2>2. pc'[o] \in {"ok", "failed"} /\ UNCHANGED <<identity, docs>>
    BY <1>2, <1>10 DEF RulesRemove, RulesRefused, Goto, GotoAfterFault, TypeOK
  <2>3. RemoveHolds(o)' /\ ~Owes(o)' /\ ~Owes(o)
    BY <1>3, <1>4, <2>1, <2>2 DEF RemoveHolds, Owes
  <2>4. AgreeInv'
    BY <1>1, <1>3, <1>5, <2>2, <2>3, UnchangedSame, AgreeKept
  <2>5. ~Present(dev[o])' /\ Bare(dev[o])'
    BY <1>3, <2>1, <2>2 DEF Present, Bare
  <2>6. Gone(dev[o])'
    BY <2>5 DEF Gone, DocIds, Bare
  <2>7. \A d \in Devices : Gone(d) => Gone(d)'
    BY <2>2 DEF Gone, DocIds, Present
  <2>8. QED BY <2>4, <2>6, <2>7 DEF KeepsGone
<1>11. CASE UndoRemove(o)
  <2>1. /\ pc[o] = "undoRemove" /\ ~Present(dev[o]) /\ ~Bare(dev[o])
        /\ key[o] \in Keys /\ faults[o] = MaxFaults
    BY <1>2, <1>3, <1>11 DEF UndoRemove, At, Holds, RemoveHolds
  <2>2. HubCall(o, "hubAdd", ~Present(dev[o]), Identity(key[o], status[o]), "failed", "failed")
    BY <1>11 DEF UndoRemove
  <2>3. UNCHANGED docs /\ SetIdentity(dev[o], Identity(key[o], status[o])) /\ pc'[o] = "failed"
    BY <1>2, <2>1, <2>2, HubCallRefuses
  <2>4. /\ identity'[dev[o]].key = key[o]
        /\ \A d \in Devices \ {dev[o]} : identity'[d] = identity[d]
    BY <1>2, <2>3 DEF SetIdentity, Identity, TypeOK
  <2>5. Present(dev[o])' /\ ~Bare(dev[o])'
    BY <1>3, <2>1, <2>3, <2>4, ConstantsAssumption DEF Present, Bare, Keys, NoKey
  <2>6. RemoveHolds(o)' /\ Agreed(dev[o])' /\ Owes(o)
    BY <1>3, <2>1, <2>3, <2>5 DEF RemoveHolds, Agreed, Owes
  <2>7. OneDocument'
    BY <1>2, <2>3 DEF OneDocument
  <2>8. AgreeInv'
    BY <1>1, <1>3, <1>5, <2>3, <2>4, <2>6, <2>7, OthersWait, AgreeChange
  <2>9. KeepsGone(o)
    <3>1. ~Gone(dev[o])
      BY <1>2, <2>1, GoneBare
    <3>2. \A d \in Devices \ {dev[o]} : Gone(d) => Gone(d)'
      BY <2>3, <2>4, GoneBare, GoneBareNext DEF Present, Bare
    <3>3. QED BY <2>3, <3>1, <3>2 DEF KeepsGone
  <2>10. QED BY <2>8, <2>9
<1>12. QED BY <1>7, <1>8, <1>9, <1>10, <1>11

LEMMA AgreeStatus ==
    ASSUME RefusedOnce, AgreeInv, CallsInv', NEW o \in Operators,
           StatusGet(o) \/ StatusSet(o) \/ UndoGet(o) \/ UndoSet(o) \/ KeysGet(o)
    PROVE  AgreeInv' /\ KeepsGone(o)
<1>1. /\ pc[o] \in {"statusGet", "statusSet", "undoGet", "undoSet", "keysGet"}
      /\ pc[o] \notin Returned
  BY DEF StatusGet, StatusSet, UndoGet, UndoSet, KeysGet, At, Returned
<1>2. TypeOK /\ CallsInv /\ dev[o] \in Devices
  BY <1>1, AgreeAt
<1>3. Own(o) /\ kind[o] \in StatusKinds /\ kind'[o] = kind[o]
  BY <1>2, OwnStatus DEF Own
<1>4. kind[o] \notin AddKinds /\ kind[o] # "remove"
  BY <1>3, KindsApart
<1>5. /\ SameRegistry
      /\ pc'[o] \in {"statusGet", "statusSet", "undoGet", "undoSet", "docFind", "failed", "simSave", "ok"}
  <2>1. CASE StatusGet(o)
    BY <1>2, <2>1, ReadStatusDoes DEF StatusGet, At, memory
  <2>2. CASE StatusSet(o)
    BY <1>2, <2>2, WriteStatusDoes DEF StatusSet, At
  <2>3. CASE UndoGet(o)
    BY <1>2, <2>3, ReadStatusDoes DEF UndoGet, At, memory
  <2>4. CASE UndoSet(o)
    BY <1>2, <2>4, WriteStatusDoes DEF UndoSet, At
  <2>5. CASE KeysGet(o)
    BY <1>2, <2>5, UnchangedSame DEF KeysGet, Goto, GotoAfterFault, TypeOK, stores
  <2>6. QED BY <2>1, <2>2, <2>3, <2>4, <2>5
<1>6. Holds(o)' /\ ~Owes(o)' /\ ~Owes(o)
  BY <1>3, <1>4, <1>5 DEF Holds, AddHolds, RemoveHolds, OtherHolds, Owes
<1>7. QED BY <1>1, <1>3, <1>4, <1>5, <1>6, AgreeKept, SameGone

LEMMA AgreeTagSim ==
    ASSUME RefusedOnce, AgreeInv, CallsInv', NEW o \in Operators, Tag(o) \/ SimSave(o) \/ SimRemove(o)
    PROVE  AgreeInv' /\ KeepsGone(o)
<1>1. pc[o] \in {"tag", "simSave", "simRemove"} /\ pc[o] \notin Returned
  BY DEF Tag, SimSave, SimRemove, At, Returned
<1>2. TypeOK /\ CallsInv /\ dev[o] \in Devices /\ Holds(o) /\ CallsOK(o)
  BY <1>1, AgreeAt
<1>3. Own(o) /\ kind'[o] = kind[o] /\ dev'[o] = dev[o]
  BY <1>2, OwnTagSim DEF Own
<1>4. UNCHANGED memory
  BY DEF Tag, SimSave, SimRemove, TwinCall, SimCall
<1>5. key'[o] = key[o] /\ ~Owes(o)
  BY <1>1, <1>4 DEF memory, Owes
<1>6. CASE Tag(o)
  <2> DEFINE effect == [identity[dev[o]] EXCEPT !.tag =
                          IF Kind(o, {"disable"}) THEN "Disabled" ELSE "Running"]
             err    == IF Kind(o, AddKinds) THEN "undoAdd" ELSE "undoGet"
  <2>1. pc[o] = "tag" /\ kind[o] # "remove"
    BY <1>2, <1>6 DEF Tag, At, CallsOK, RemoveCalls, Returned
  <2>2. effect.key = identity[dev[o]].key
    BY <1>2 DEF TypeOK, IdentityRecord
  <2>3. TwinCall(o, "tag", effect, AfterTag(o), err)
    BY <1>6 DEF Tag
  <2> HIDE DEF effect, err
  <2>4. SameRegistry /\ (pc'[o] = AfterTag(o) \/ (~Present(dev[o]) /\ pc'[o] = err))
    BY <1>2, <2>2, <2>3, TwinCallAnswers
  <2>5. kind[o] \in AddKinds => key[o] \in Keys /\ Present(dev[o])
    BY <1>2, <2>1 DEF Holds, AddHolds, AddCalls
  <2>6. /\ kind[o] \in AddKinds => pc'[o] \in {"ok", "simSave"}
        /\ pc'[o] \in {"ok", "simSave", "keysGet", "simRemove", "undoAdd", "undoGet"}
    BY <2>4, <2>5, KindsApart DEF AfterTag, Kind, StatusKinds, err
  <2>7. Holds(o)' /\ ~Owes(o)'
    BY <1>3, <1>5, <2>1, <2>5, <2>6 DEF Holds, AddHolds, RemoveHolds, OtherHolds, Owes
  <2>8. QED BY <1>1, <1>3, <1>5, <2>1, <2>4, <2>7, AgreeKept, SameGone
<1>7. ASSUME ~Tag(o) PROVE AgreeInv' /\ KeepsGone(o)
  <2>1. /\ UNCHANGED <<identity, docs>>
        /\ pc'[o] = IF pc[o] = "simRemove" /\ kind[o] = "remove" THEN "rulesRemove" ELSE "ok"
    <3>1. CASE SimSave(o)
      BY <1>2, <3>1, SimCallDoes DEF SimSave, At
    <3>2. CASE SimRemove(o)
      BY <1>2, <3>2, SimCallDoes DEF SimRemove, At, Kind
    <3>3. QED BY <1>7, <3>1, <3>2
  <2>2. kind[o] = "remove" => pc[o] = "simRemove"
    BY <1>1, <1>2, <1>7 DEF SimSave, SimRemove, At, CallsOK, RemoveCalls, Returned
  <2>3. kind[o] = "remove" => ~Present(dev[o])' /\ Bare(dev[o])'
    BY <1>2, <1>3, <2>1, <2>2 DEF Holds, RemoveHolds, Present, Bare
  <2>4. Holds(o)' /\ ~Owes(o)'
    BY <1>3, <1>5, <2>1, <2>3, KindsApart DEF Holds, AddHolds, RemoveHolds, OtherHolds, Owes, AddCalls
  <2>5. QED BY <1>1, <1>3, <1>5, <2>1, <2>2, <2>4, UnchangedSame, AgreeKept, SameGone
<1>8. QED BY <1>6, <1>7

LEMMA AgreeRead ==
    ASSUME RefusedOnce, AgreeInv, CallsInv', NEW o \in Operators,
           DocFind(o) \/ DocRead(o) \/ DocExists(o) \/ TwinSync(o)
    PROVE  AgreeInv' /\ KeepsGone(o)
<1>1. /\ pc[o] \in {"docFind", "docRead", "docExists", "twinSync"} /\ pc[o] \notin Returned
  BY DEF DocFind, DocRead, DocExists, TwinSync, At, Returned
<1>2. TypeOK /\ CallsInv /\ dev[o] \in Devices /\ Holds(o) /\ CallsOK(o)
  BY <1>1, AgreeAt
<1>3. Own(o) /\ kind'[o] = kind[o] /\ dev'[o] = dev[o]
  BY <1>2, OwnRead DEF Own
<1>4. /\ UNCHANGED <<identity, docs, key>> /\ SameRegistry
  BY UnchangedSame DEF DocFind, DocRead, DocExists, TwinSync, stores, memory
<1>5. CASE DocFind(o) /\ kind[o] = "remove"
  <2>1. /\ pc[o] = "docFind" /\ ~Present(dev[o]) /\ ~Bare(dev[o]) /\ key[o] \in Keys
        /\ kind[o] \notin AddKinds /\ kind[o] \notin StatusKinds \union SaveKinds
    BY <1>2, <1>5, KindsApart DEF DocFind, At, Holds, RemoveHolds
  <2>2. DocIds(dev[o]) # {}
    BY <2>1 DEF Bare, DocIds
  <2>3. \/ Goto(o, "docDelete") /\ doc'[o] \in DocIds(dev[o])
        \/ ReadFails(o, "undoRemove")
    BY <1>2, <1>5, <2>2 DEF DocFind, Kind, TypeOK
  <2>4. \/ pc'[o] = "docDelete" /\ doc'[o] \in DocIds(dev[o])
        \/ pc'[o] = "undoRemove" /\ faults'[o] = MaxFaults
    BY <1>2, <2>3, FaultSpent DEF ReadFails, MayFail, Goto, GotoAfterFault, TypeOK
  <2>5. ~Present(dev[o])' /\ ~Bare(dev[o])' /\ key'[o] \in Keys
    BY <1>3, <1>4, <2>1 DEF Present, Bare
  <2>6. Holds(o)' /\ Owes(o)' /\ Owes(o) /\ pc'[o] # "ok"
    BY <1>3, <1>4, <1>5, <2>1, <2>4, <2>5 DEF Holds, AddHolds, RemoveHolds, OtherHolds, Owes, DocIds
  <2>7. QED BY <1>1, <1>3, <1>4, <2>6, AgreeKept, SameGone
<1>6. CASE ~(DocFind(o) /\ kind[o] = "remove")
  <2>1. kind[o] \in StatusKinds \union SaveKinds /\ kind[o] \notin AddKinds /\ kind[o] # "remove"
    BY <1>1, <1>2, <1>6, CallsAt, KindsApart
       DEF AddCalls, RemoveCalls, DocRead, DocExists, TwinSync, At
  <2>2. \/ pc'[o] \in {"docExists", "docSave"} /\ doc'[o] \in DocIds(dev[o])
        \/ pc'[o] = "docSave" /\ pc[o] = "docExists" /\ doc'[o] = doc[o]
        \/ pc'[o] \in {"ok", "failed", "undoGet"}
    BY <1>2, <1>6, <2>1 DEF DocFind, DocRead, DocExists, TwinSync, At, Kind, ReadFails,
       Goto, GotoAfterFault, TypeOK, memory
  <2>3. OtherHolds(o)'
    BY <1>2, <1>3, <1>4, <2>1, <2>2 DEF Holds, OtherHolds, DocIds
  <2>4. Holds(o)' /\ ~Owes(o)' /\ ~Owes(o)
    BY <1>3, <2>1, <2>3 DEF Holds, AddHolds, RemoveHolds, Owes
  <2>5. QED BY <1>1, <1>3, <1>4, <2>1, <2>4, AgreeKept, SameGone
<1>7. QED BY <1>5, <1>6

LEMMA AgreeStep ==
    ASSUME RefusedOnce, AgreeInv, CallsInv', NEW o \in Operators, Step(o)
    PROVE  AgreeInv' /\ KeepsGone(o)
BY AgreeAdd, AgreeRemove, AgreeDocSave, AgreeStatus, AgreeTagSim, AgreeRead DEF Step

LEMMA AgreeBegin ==
    ASSUME AgreeInv, CallsInv', NEW o \in Operators, Begin(o), RemovalsOverlap
    PROVE  AgreeInv' /\ UNCHANGED <<identity, docs>> /\ pc'[o] # "ok"
<1>1. TypeOK /\ CallsInv /\ OneDocument
  BY DEF AgreeInv, CallsInv
<1>2. PICK k \in Kinds, d \in Devices :
        /\ kind' = [kind EXCEPT ![o] = k]
        /\ dev' = [dev EXCEPT ![o] = d]
        /\ pc' = [pc EXCEPT ![o] = Entry[k]]
        /\ key' = [key EXCEPT ![o] = IF k \in AddKinds THEN started + 1 ELSE NoKey]
  BY DEF Begin
<1>3. /\ kind'[o] = k /\ k \in AllKinds /\ pc'[o] = Entry[k]
      /\ UNCHANGED <<identity, docs>> /\ pc[o] \in Returned
  BY <1>1, <1>2, ConstantsAssumption DEF TypeOK, Begin, stores
<1>4. /\ k \in AddKinds => pc'[o] \in {"validate", "hubAdd"}
      /\ k = "remove" => pc'[o] = "hubGet"
      /\ k \in StatusKinds => pc'[o] = "statusGet"
      /\ k \in SaveKinds => pc'[o] = "docRead"
  BY <1>3 DEF Entry, AddKinds, StatusKinds, SaveKinds
<1>5. pc'[o] \in {"validate", "hubAdd", "hubGet", "statusGet", "docRead"}
  BY <1>3, <1>4 DEF AllKinds
<1>6. k \in AddKinds => key'[o] \in Keys
  <2>1. started \in Nat /\ started < MaxOps /\ MaxOps \in Nat
    BY <1>1, ConstantsAssumption DEF Begin, TypeOK
  <2>2. started + 1 \in Keys
    BY <2>1 DEF Keys
  <2>3. QED BY <1>1, <1>2, <2>2 DEF TypeOK
<1>7. \A p \in Operators \ {o} :
        /\ pc'[p] = pc[p] /\ kind'[p] = kind[p] /\ dev'[p] = dev[p]
        /\ key'[p] = key[p] /\ doc'[p] = doc[p] /\ faults'[p] = faults[p]
  BY <1>1, <1>2 DEF TypeOK, Begin
<1>8. ~Owes(o) /\ ~Owes(o)' /\ \A p \in Operators \ {o} : Owes(p)' <=> Owes(p)
  BY <1>3, <1>5, <1>7 DEF Owes, Returned
<1>9. OneDocument' /\ OneOwner'
  BY <1>1, <1>3, <1>7, <1>8 DEF OneDocument, OneOwner, AgreeInv
<1>10. Apart'
  <2>1. Begins(o)
    BY <1>3, <1>5 DEF Begins, Returned
  <2>2. \A p \in Operators \ {o} :
          pc[p] \notin Returned /\ dev[p] = dev'[o] => kind'[o] = "remove" /\ kind[p] = "remove"
    BY <2>1 DEF RemovalsOverlap, Working
  <2>3. QED BY <1>7, <2>2 DEF AgreeInv, Apart
<1>11. \A e \in Devices : (Agreed(e) \/ \E p \in Operators : Owes(p) /\ dev[p] = e)'
  <2>1. \A e \in Devices : Agreed(e)' <=> Agreed(e)
    BY <1>3 DEF Agreed, Present, Bare
  <2>2. QED BY <1>7, <1>8, <2>1 DEF AgreeInv
<1>12. Holds(o)'
  BY <1>3, <1>4, <1>5, <1>6 DEF Holds, AddHolds, RemoveHolds, OtherHolds
<1>13. ASSUME NEW p \in Operators, p # o PROVE Holds(p)'
  <2>1. Present(dev[p])' = Present(dev[p])
    BY <1>3, <1>7, <1>13 DEF Present
  <2>2. QED BY <1>3, <1>7, <1>13, <2>1, HoldsKept DEF AgreeInv
<1>14. \A p \in Operators : Holds(p)'
  BY <1>12, <1>13
<1>15. QED BY <1>3, <1>5, <1>9, <1>10, <1>11, <1>14 DEF AgreeInv

LEMMA AgreeStill ==
    ASSUME AgreeInv, CallsInv', UNCHANGED <<identity, docs, task, memory, control>>
    PROVE  AgreeInv'
<1>1. UNCHANGED <<identity, docs, kind, dev, pc, key, doc, faults>>
  BY DEF task, memory, control
<1>2. OneDocument' /\ Apart' /\ OneOwner'
  BY <1>1 DEF AgreeInv, OneDocument, Apart, OneOwner, Owes
<1>3. \A d \in Devices : (Agreed(d) \/ \E p \in Operators : Owes(p) /\ dev[p] = d)'
  BY <1>1 DEF AgreeInv, Agreed, Present, Bare, Owes
<1>4. \A p \in Operators : Holds(p)'
  BY <1>1 DEF AgreeInv, Holds, AddHolds, RemoveHolds, OtherHolds, Present, Bare
<1>5. QED BY <1>2, <1>3, <1>4 DEF AgreeInv

LEMMA NoCrash == ASSUME RefusedOnce, NEW o \in Operators PROVE ~Crash(o)
BY DEF RefusedOnce, Crash, MayFail

LEMMA AgreeNext == RefusedOnce /\ AgreeInv /\ [Next /\ RemovalsOverlap]_vars => AgreeInv'
<1> SUFFICES ASSUME RefusedOnce, AgreeInv, [Next /\ RemovalsOverlap]_vars PROVE AgreeInv'
  OBVIOUS
<1>1. CallsInv'
  BY CallsNext DEF AgreeInv
<1>2. CASE UNCHANGED vars
  BY <1>1, <1>2, AgreeStill DEF vars, stores
<1>3. ASSUME NEW d \in Devices, SaveRule(d) PROVE AgreeInv'
  BY <1>1, <1>3, AgreeStill DEF SaveRule
<1>4. QED BY <1>1, <1>2, <1>3, AgreeStep, AgreeBegin, NoCrash DEF Next

(* Hub and registry agree on every device that no operation is working on:   *)
(* with at most one refused call per operation, the rollbacks of adds,       *)
(* removals and status changes make up for it, for any number of operators   *)
(* and devices, whatever runs on other devices, as long as the operations on *)
(* a device follow one another or are removals.                              *)
THEOREM AgreementAlways == ASSUME RefusedOnce PROVE RemovalsOverlapSpec => []Agreement
BY RefusedOnce, AgreeInit, AgreeNext, AgreeImplies, PTL DEF RemovalsOverlapSpec

\* an operation has a device
Assigned == TypeOK /\ \A o \in Operators : kind[o] # "none" => dev[o] \in Devices

LEMMA AssignedNext == CallsInv /\ Assigned /\ [Next]_vars => Assigned'
<1> SUFFICES ASSUME CallsInv, Assigned, [Next]_vars PROVE Assigned'
  OBVIOUS
<1>1. TypeOK /\ TypeOK'
  BY NextOK DEF Assigned
<1>2. ASSUME UNCHANGED <<kind, dev>> PROVE Assigned'
  BY <1>1, <1>2 DEF Assigned
<1>3. ASSUME NEW o \in Operators, Begin(o) PROVE Assigned'
  <2>1. PICK k \in Kinds, d \in Devices : kind' = [kind EXCEPT ![o] = k] /\ dev' = [dev EXCEPT ![o] = d]
    BY <1>3 DEF Begin
  <2>2. QED BY <1>1, <2>1 DEF Assigned, TypeOK
<1>4. ASSUME NEW o \in Operators, Step(o) \/ Crash(o) PROVE Assigned'
  BY <1>2, <1>4, StepIsOwn DEF Own, Crash, task
<1>5. (\E d \in Devices : SaveRule(d)) \/ UNCHANGED vars => UNCHANGED <<kind, dev>>
  BY DEF SaveRule, vars, task
<1>6. QED BY <1>2, <1>3, <1>4, <1>5 DEF Next

(* Under the same conditions a device whose removal succeeded is gone until  *)
(* an Add of that device: no rollback of an overlapping removal brings it    *)
(* back, and nothing done to another device does.                            *)
THEOREM RemovedIsGoneAlways == ASSUME RefusedOnce PROVE RemovalsOverlapSpec => RemovedIsGone
<1> DEFINE Stays(o) ==
      (Kind(o, {"remove"}) /\ At(o, "ok"))' =>
         \/ Gone(dev[o])'
         \/ At(o, "ok") /\ ~Gone(dev[o])
         \/ \E p \in Operators : Kind(p, AddKinds) /\ dev[p] = dev[o] /\ Moves(p)
<1>1. AgreeInv /\ Assigned /\ [Next /\ RemovalsOverlap]_vars => [\A o \in Operators : Stays(o)]_vars
  <2> SUFFICES ASSUME AgreeInv, Assigned, Next, RemovalsOverlap, NEW o \in Operators,
                      kind'[o] = "remove", pc'[o] = "ok", ~Gone(dev[o])',
                      ~(pc[o] = "ok" /\ ~Gone(dev[o]))
               PROVE  \E p \in Operators : Kind(p, AddKinds) /\ dev[p] = dev[o] /\ Moves(p)
    BY DEF Kind, At
  <2>1. CallsInv /\ CallsInv' /\ TypeOK
    BY CallsNext DEF AgreeInv, CallsInv
  <2>2. ASSUME NEW p \in Operators, Step(p) PROVE Kind(p, AddKinds) /\ dev[p] = dev[o] /\ Moves(p)
    <3>1. KeepsGone(p) /\ Own(p)
      BY <2>1, <2>2, RefusedOnce, AgreeStep, StepIsOwn
    <3>2. kind[o] = "remove" /\ dev'[o] = dev[o] /\ dev[o] \in Devices
      BY <3>1 DEF Own, Assigned
    <3>3. p # o
      BY <3>1, <3>2 DEF KeepsGone
    <3>4. pc[o] = "ok" /\ Gone(dev[o])
      BY <3>1, <3>3 DEF Own
    <3>5. /\ ~Gone(dev[o])'
          /\ Gone(dev[o]) =>
               Gone(dev[o])' \/ (kind[p] \in AddKinds /\ dev[p] = dev[o] /\ pc'[p] # pc[p])
      BY <3>1, <3>2 DEF KeepsGone
    <3>6. QED BY <3>4, <3>5 DEF Kind, Moves
  <2>3. ASSUME NEW p \in Operators, Begin(p) PROVE FALSE
    <3>1. UNCHANGED <<identity, docs>> /\ p # o
      BY <2>1, <2>3, AgreeBegin
    <3>2. pc[o] = "ok" /\ dev'[o] = dev[o]
      BY <2>1, <2>3, <3>1 DEF Begin, TypeOK
    <3>3. QED BY <3>1, <3>2 DEF Gone, Present, DocIds
  <2>4. ASSUME NEW d \in Devices, SaveRule(d) PROVE FALSE
    BY <2>4 DEF SaveRule, task, control, Gone, Present, DocIds
  <2>5. QED BY <2>2, <2>3, <2>4, NoCrash, RefusedOnce DEF Next
<1>2. Init => Assigned
  BY InitOK DEF Init, Assigned
<1>3. AgreeInv => CallsInv
  BY DEF AgreeInv
<1>4. QED BY <1>1, <1>2, <1>3, RefusedOnce, AgreeInit, AgreeNext, AssignedNext, PTL
          DEF RemovalsOverlapSpec, RemovedIsGone
=============================================================================
