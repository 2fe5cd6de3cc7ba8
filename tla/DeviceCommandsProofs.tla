------------------------ MODULE DeviceCommandsProofs ------------------------
(***************************************************************************)
(* Theorems about DeviceCommands for any commands, editors and failures:   *)
(*                                                                         *)
(*   CommandsTypeCorrect   Spec => []TypeOK                                *)
(*   HistoryTrueAlways     Spec => []HistoryIsTrue                         *)
(*   ResultsStandAlways    Spec => ResultsStand                            *)
(*   HandledOnceAlways     Spec => []HandledOnce                           *)
(*   PendingOnlyWhenRacedAlways                                            *)
(*                 Reliable => (Spec => []PendingOnlyWhenRaced)            *)
(*                                                                         *)
(* All rest on HistoryInv: not only the document is true but every copy of *)
(* it that a writer will save, the hub's outcomes are final and deserved,  *)
(* and a command's copies are sent under numbers not yet used.  Paid       *)
(* counts what may still be carried out; Fates and RecordedInv say what    *)
(* each request and task that goes on has done and left in the document.   *)
(***************************************************************************)
EXTENDS DeviceCommands, FiniteSetTheorems, TLAPS

-----------------------------------------------------------------------------
(* Types *)

LEMMA CopyParts ==
    ASSUME NEW m \in Copies
    PROVE  m[1] \in Commands \ Methods /\ m[2] \in 0 .. RETRY_COUNT /\ m = <<m[1], m[2]>>
BY DEF Copies

LEMMA WriterKinds ==
    /\ Commands \subseteq Writers /\ Copies \subseteq Writers /\ Editors \subseteq Writers
    /\ Commands \intersect Copies = {}
    /\ Commands \intersect Editors = {}
    /\ Editors \intersect Copies = {}
BY TasksAssumption DEF Writers

LEMMA EmptyType == Empty \in Histories
BY DEF Empty, Histories, Entries

LEMMA TypeInit == Init => TypeOK
<1> SUFFICES ASSUME Init PROVE TypeOK
  OBVIOUS
<1>1. history \in Histories /\ view \in [Writers -> Histories]
  BY EmptyType DEF Init
<1>2. /\ attempt \in [Commands -> 0 .. RETRY_COUNT]
      /\ deliveries \in [Copies -> 0 .. MaxDeliveries]
      /\ handled \in [Commands -> Nat]
      /\ failures \in 0 .. MaxFaults
      /\ edits \in 0 .. MaxEdits
  BY CommandsAssumption DEF Init
<1>3. /\ pc \in [Writers -> {"idle", "read", "send", "close", "save", "ok", "failed"}]
      /\ queue \in [Copies -> {"none", "queued", "locked"} \union Outcomes]
      /\ feedback \in [Copies -> {"none", "waiting", "taken", "consumed"}]
  BY DEF Init
<1>4. QED BY <1>1, <1>2, <1>3 DEF Init, TypeOK

LEMMA EntryType ==
    ASSUME NEW h \in Histories, NEW c \in Commands, NEW r \in Entries
    PROVE  [h EXCEPT ![c] = r] \in Histories
BY DEF Histories

LEMMA ViewType ==
    ASSUME TypeOK, NEW w \in Writers, NEW h \in Histories, view' = [view EXCEPT ![w] = h]
    PROVE  view' \in [Writers -> Histories]
BY DEF TypeOK

LEMMA SendReadType == ASSUME TypeOK, NEW c \in Commands, SendRead(c) PROVE TypeOK'
<1>1. c \in Writers
  BY WriterKinds
<1>2. [history EXCEPT ![c] = "pending"] \in Histories
  BY EntryType DEF TypeOK, Entries
<1>3. view' \in [Writers -> Histories]
  BY <1>1, <1>2, ViewType DEF TypeOK, SendRead, Read
<1>4. current' \subseteq Writers
  BY <1>1 DEF TypeOK, SendRead, Read
<1>5. failures' \in 0 .. MaxFaults
  BY CommandsAssumption DEF TypeOK, SendRead, Fails, NoFailure
<1>6. pc' \in [Writers -> {"idle", "read", "send", "close", "save", "ok", "failed"}]
  BY <1>1 DEF TypeOK, SendRead, Goto
<1>7. QED BY <1>3, <1>4, <1>5, <1>6 DEF TypeOK, SendRead, hub, device

LEMMA SendMessageType == ASSUME TypeOK, NEW c \in Commands, SendMessage(c) PROVE TypeOK'
<1>1. <<c, attempt[c]>> \in Copies
  BY CommandsAssumption DEF TypeOK, Copies, SendMessage
<1>2. Goto(c, "close") \/ Again(c)
  BY DEF SendMessage
<1>3. pc' \in [Writers -> {"idle", "read", "send", "close", "save", "ok", "failed"}]
  BY <1>2, WriterKinds DEF TypeOK, Goto, Again
<1>4. attempt' \in [Commands -> 0 .. RETRY_COUNT]
  BY CommandsAssumption DEF TypeOK, SendMessage, Again
<1>5. queue' \in [Copies -> {"none", "queued", "locked"} \union Outcomes]
  BY <1>1 DEF TypeOK, SendMessage, Enqueue
<1>6. failures' \in 0 .. MaxFaults
  BY CommandsAssumption DEF TypeOK, SendMessage, Fails, NoFailure
<1>7. QED BY <1>3, <1>4, <1>5, <1>6 DEF TypeOK, SendMessage, device, ghosts

LEMMA CloseDeviceType == ASSUME TypeOK, NEW c \in Commands, CloseDevice(c) PROVE TypeOK'
BY WriterKinds, CommandsAssumption
   DEF TypeOK, CloseDevice, Goto, Fails, NoFailure, hub, device, ghosts

LEMMA InvokeMethodType == ASSUME TypeOK, NEW c \in Commands, InvokeMethod(c) PROVE TypeOK'
<1>1. pc' \in [Writers -> {"idle", "read", "send", "close", "save", "ok", "failed"}]
  BY WriterKinds DEF TypeOK, InvokeMethod, Goto, Again
<1>2. attempt' \in [Commands -> 0 .. RETRY_COUNT]
  BY CommandsAssumption DEF TypeOK, InvokeMethod, Again
<1>3. view' \in [Writers -> Histories]
  <2>1. CASE UNCHANGED view
    BY <2>1 DEF TypeOK
  <2>2. ASSUME NEW result \in {"Success", Failed}, view' = [view EXCEPT ![c][c] = result]
        PROVE  view' \in [Writers -> Histories]
    <3>1. c \in Writers
      BY WriterKinds
    <3>2. view[c] \in Histories /\ result \in Entries
      BY <3>1 DEF TypeOK, Entries, Outcomes
    <3>3. [view[c] EXCEPT ![c] = result] \in Histories
      BY <3>2, EntryType
    <3>4. view' = [view EXCEPT ![c] = [view[c] EXCEPT ![c] = result]]
      BY <2>2
    <3>5. QED BY <3>1, <3>3, <3>4, ViewType
  <2>3. QED BY <2>1, <2>2 DEF InvokeMethod
<1>4. handled' \in [Commands -> Nat]
  BY DEF TypeOK, InvokeMethod
<1>5. failures' \in 0 .. MaxFaults
  BY CommandsAssumption DEF TypeOK, InvokeMethod, Fails, NoFailure
<1>6. QED BY <1>1, <1>2, <1>3, <1>4, <1>5 DEF TypeOK, InvokeMethod, hub, ghosts

LEMMA SavingType ==
    ASSUME TypeOK, NEW w \in Writers,
           Saved(w) \/ SaveFails(w)
    PROVE  /\ history' \in Histories
           /\ current' \subseteq Writers
           /\ overlap' \in BOOLEAN
           /\ failures' \in 0 .. MaxFaults
<1>1. failures' \in 0 .. MaxFaults
  BY CommandsAssumption DEF TypeOK, Saved, SaveFails, Fails, NoFailure
<1>2. Write(w) \/ NoWrite(w)
  BY DEF Saved, SaveFails
<1>3. view[w] \in Histories
  BY DEF TypeOK
<1>4. (overlap \/ w \notin current) \in BOOLEAN
  OBVIOUS
<1>5. QED BY <1>1, <1>2, <1>3, <1>4 DEF TypeOK, Write, NoWrite

LEMMA DropType ==
    ASSUME TypeOK, NEW w \in Writers, Drop(w) PROVE view' \in [Writers -> Histories]
BY EmptyType, ViewType DEF Drop

LEMMA SendSaveType == ASSUME TypeOK, NEW c \in Commands, SendSave(c) PROVE TypeOK'
<1>1. c \in Writers
  BY WriterKinds
<1>2. Saved(c) \/ SaveFails(c)
  BY DEF SendSave
<1>3. pc' \in [Writers -> {"idle", "read", "send", "close", "save", "ok", "failed"}]
  BY <1>1 DEF TypeOK, SendSave, Saved, Goto
<1>4. QED BY <1>1, <1>2, <1>3, SavingType, DropType DEF TypeOK, SendSave, hub, device

LEMMA EditSaveType == ASSUME TypeOK, NEW e \in Editors, EditSave(e) PROVE TypeOK'
<1>1. e \in Writers
  BY WriterKinds
<1>2. Saved(e) \/ SaveFails(e)
  BY DEF EditSave
<1>3. pc' \in [Writers -> {"idle", "read", "send", "close", "save", "ok", "failed"}]
  BY <1>1 DEF TypeOK, EditSave, Saved, Goto
<1>4. QED BY <1>1, <1>2, <1>3, SavingType, DropType DEF TypeOK, EditSave, hub, device

LEMMA EditReadType == ASSUME TypeOK, NEW e \in Editors, EditRead(e) PROVE TypeOK'
BY WriterKinds, CommandsAssumption DEF TypeOK, EditRead, Read, Goto, hub, device

LEMMA RequeueType ==
    ASSUME TypeOK, NEW m \in Copies, Requeue(m)
    PROVE  /\ queue' \in [Copies -> {"none", "queued", "locked"} \union Outcomes]
           /\ feedback' \in [Copies -> {"none", "waiting", "taken", "consumed"}]
BY DEF TypeOK, Requeue, Settle, Outcomes

LEMMA LockExpiresType == ASSUME TypeOK, NEW m \in Copies, LockExpires(m) PROVE TypeOK'
<1>1. failures' \in 0 .. MaxFaults
  BY CommandsAssumption DEF TypeOK, LockExpires, Fails, NoFailure
<1>2. Requeue(m)
  BY DEF LockExpires
<1>3. QED BY <1>1, <1>2, RequeueType DEF TypeOK, LockExpires, device, ghosts

LEMMA ExpiresType == ASSUME TypeOK, NEW m \in Copies, Expires(m) PROVE TypeOK'
BY CommandsAssumption DEF TypeOK, Expires, Settle, Outcomes, Fails, device, ghosts

-----------------------------------------------------------------------------
(* Deliveries are counted: what TypeOK needs besides itself *)

\* a copy that was never in the queue was not delivered, and one that waits
\* there has not used up its deliveries
Deliverable ==
    \A m \in Copies :
      /\ queue[m] = "none" => deliveries[m] = 0
      /\ queue[m] = "queued" => deliveries[m] < MaxDeliveries

\* a request has put no copy in the queue under a number it has not tried
Unsent ==
    \A c \in Commands, n \in 0 .. RETRY_COUNT :
      /\ c \notin Methods
      /\ pc[c] = "idle" \/ (pc[c] = "send" /\ n >= attempt[c])
      => queue[<<c, n>>] = "none"

QueueInv == TypeOK /\ Deliverable /\ Unsent

LEMMA CopyOf ==
    ASSUME NEW c \in Commands, c \notin Methods, NEW n \in 0 .. RETRY_COUNT
    PROVE  <<c, n>> \in Copies
BY DEF Copies

\* requests only go forward
Forward == \A c \in Commands : pc'[c] \in {"idle", "send"} => pc[c] \in {"idle", pc'[c]}

LEMMA QueueUntouched ==
    ASSUME QueueInv, TypeOK', Forward, UNCHANGED <<queue, deliveries, attempt>>
    PROVE  QueueInv'
<1>1. Deliverable'
  BY DEF QueueInv, Deliverable
<1>2. Unsent'
  BY DEF QueueInv, Unsent, Forward, TypeOK
<1>3. QED BY <1>1, <1>2 DEF QueueInv

\* what the hub and the device do with a copy that is in the queue
HubMoves(m) ==
    /\ queue[m] # "none"
    /\ \E s \in {"queued", "locked"} \union Outcomes : queue' = [queue EXCEPT ![m] = s]
    /\ UNCHANGED <<pc, attempt>>

LEMMA HubMovesQueue ==
    ASSUME QueueInv, TypeOK', NEW m \in Copies, HubMoves(m),
           \A k \in Copies : k # m => deliveries'[k] = deliveries[k],
           queue'[m] = "queued" => deliveries'[m] < MaxDeliveries
    PROVE  QueueInv'
<1>1. queue'[m] # "none" /\ \A k \in Copies : k # m => queue'[k] = queue[k]
  BY DEF QueueInv, TypeOK, HubMoves, Outcomes
<1>2. Deliverable'
  BY <1>1 DEF QueueInv, Deliverable
<1>3. Unsent'
  <2> SUFFICES ASSUME NEW c \in Commands, NEW n \in 0 .. RETRY_COUNT, c \notin Methods,
                      pc[c] = "idle" \/ (pc[c] = "send" /\ n >= attempt[c])
               PROVE  queue'[<<c, n>>] = "none"
    BY DEF Unsent, HubMoves
  <2>1. <<c, n>> \in Copies /\ queue[<<c, n>>] = "none"
    BY CopyOf DEF QueueInv, Unsent
  <2>2. <<c, n>> # m
    BY <2>1 DEF HubMoves
  <2>3. QED BY <1>1, <2>1, <2>2
<1>4. QED BY <1>2, <1>3 DEF QueueInv

LEMMA RequeueMoves ==
    ASSUME QueueInv, NEW m \in Copies, Requeue(m), queue[m] # "none", UNCHANGED <<pc, attempt>>,
           UNCHANGED deliveries
    PROVE  HubMoves(m) /\ (queue'[m] = "queued" => deliveries'[m] < MaxDeliveries)
BY DEF Requeue, Settle, HubMoves, Outcomes, QueueInv, TypeOK

LEMMA LockExpiresQueue ==
    ASSUME QueueInv, NEW m \in Copies, LockExpires(m) PROVE QueueInv'
<1>1. TypeOK'
  BY LockExpiresType DEF QueueInv
<1>2. HubMoves(m) /\ (queue'[m] = "queued" => deliveries'[m] < MaxDeliveries)
  BY RequeueMoves DEF LockExpires
<1>3. QED BY <1>1, <1>2, HubMovesQueue DEF LockExpires

LEMMA ExpiresQueue == ASSUME QueueInv, NEW m \in Copies, Expires(m) PROVE QueueInv'
<1>1. TypeOK'
  BY ExpiresType DEF QueueInv
<1>2. HubMoves(m) /\ queue'[m] # "queued"
  BY DEF Expires, Settle, HubMoves, Outcomes, QueueInv, TypeOK
<1>3. QED BY <1>1, <1>2, HubMovesQueue DEF Expires

LEMMA ReceiveQueue == ASSUME QueueInv, NEW m \in Copies, Receive(m) PROVE QueueInv'
<1>1. deliveries' \in [Copies -> 0 .. MaxDeliveries]
  BY CommandsAssumption DEF Receive, QueueInv, Deliverable, TypeOK
<1>2. TypeOK'
  BY <1>1 DEF Receive, QueueInv, TypeOK, ghosts
<1>3. HubMoves(m) /\ queue'[m] # "queued"
  BY DEF Receive, HubMoves, QueueInv, TypeOK
<1>4. QED BY <1>2, <1>3, HubMovesQueue DEF Receive, QueueInv, TypeOK

LEMMA HandleQueue == ASSUME QueueInv, Handle PROVE QueueInv'
<1>1. cur \in Copies
  BY DEF Handle, QueueInv, TypeOK
<1>2. handled' \in [Commands -> Nat]
  BY <1>1, CopyParts DEF Handle, QueueInv, TypeOK
<1>3. TypeOK'
  BY <1>1, <1>2 DEF Handle, QueueInv, TypeOK, hub, ghosts
<1>4. QED BY <1>3, QueueUntouched DEF Handle, hub, Forward

LEMMA SignalQueue == ASSUME QueueInv, Signal PROVE QueueInv'
<1>1. cur \in Copies
  BY DEF Signal, QueueInv, TypeOK
<1>2. failures' \in 0 .. MaxFaults
  BY CommandsAssumption DEF Signal, QueueInv, TypeOK, Fails, NoFailure
<1>3. CASE UNCHANGED <<queue, feedback>>
  <2>1. TypeOK'
    BY <1>2, <1>3 DEF Signal, QueueInv, TypeOK, ghosts
  <2>2. QED BY <1>3, <2>1, QueueUntouched DEF Signal, Forward
<1>4. CASE Taken /\ Answer
  <2>1. HubMoves(cur) /\ (queue'[cur] = "queued" => deliveries'[cur] < MaxDeliveries)
    BY <1>1, <1>4, RequeueMoves
       DEF Signal, Taken, Answer, Settle, HubMoves, Outcomes, QueueInv, TypeOK
  <2>2. /\ queue' \in [Copies -> {"none", "queued", "locked"} \union Outcomes]
        /\ feedback' \in [Copies -> {"none", "waiting", "taken", "consumed"}]
    BY <1>1, <1>4, RequeueType DEF Answer, Settle, QueueInv, TypeOK, Outcomes
  <2>3. TypeOK'
    BY <1>2, <2>2 DEF Signal, QueueInv, TypeOK, ghosts
  <2>4. QED BY <1>1, <2>1, <2>3, HubMovesQueue DEF Signal
<1>5. QED BY <1>3, <1>4 DEF Signal

LEMMA EnqueueQueue ==
    ASSUME QueueInv, TypeOK', NEW c \in Commands, c \notin Methods, pc[c] = "send", Enqueue(c),
           UNCHANGED deliveries, \A d \in Commands : d # c => pc'[d] = pc[d] /\ attempt'[d] = attempt[d],
           pc'[c] # "idle", pc'[c] = "send" => attempt'[c] = attempt[c] + 1
    PROVE  QueueInv'
<1>1. attempt[c] \in 0 .. RETRY_COUNT /\ <<c, attempt[c]>> \in Copies
  BY CopyOf DEF QueueInv, TypeOK
<1>2. queue[<<c, attempt[c]>>] = "none"
  BY <1>1, CommandsAssumption DEF QueueInv, Unsent
<1>3. Deliverable'
  BY <1>1, <1>2, CommandsAssumption DEF QueueInv, Deliverable, Enqueue, TypeOK
<1>4. Unsent'
  <2> SUFFICES ASSUME NEW d \in Commands, NEW n \in 0 .. RETRY_COUNT, d \notin Methods,
                      pc'[d] = "idle" \/ (pc'[d] = "send" /\ n >= attempt'[d])
               PROVE  queue'[<<d, n>>] = "none"
    BY DEF Unsent
  <2>1. <<d, n>> \in Copies
    BY CopyOf
  <2>2. <<d, n>> # <<c, attempt[c]>> /\ queue[<<d, n>>] = "none"
    BY <1>1, CommandsAssumption DEF QueueInv, Unsent
  <2>3. QED BY <2>1, <2>2 DEF Enqueue, QueueInv, TypeOK
<1>5. QED BY <1>3, <1>4 DEF QueueInv

LEMMA SendMessageQueue ==
    ASSUME QueueInv, NEW c \in Commands, SendMessage(c) PROVE QueueInv'
<1>1. TypeOK'
  BY SendMessageType DEF QueueInv
<1>2. c \in Writers /\ pc \in [Writers -> {"idle", "read", "send", "close", "save", "ok", "failed"}]
  BY WriterKinds DEF QueueInv, TypeOK
<1>3. /\ \A d \in Commands : d # c => pc'[d] = pc[d] /\ attempt'[d] = attempt[d]
      /\ pc'[c] # "idle"
  BY <1>2, WriterKinds DEF SendMessage, Goto, Again, QueueInv, TypeOK
<1>4. CASE Enqueue(c)
  <2>1. pc'[c] = "send" => attempt'[c] = attempt[c] + 1
    BY <1>2, <1>4 DEF SendMessage, Goto, Again, Enqueue, QueueInv, TypeOK
  <2>2. QED BY <1>1, <1>3, <1>4, <2>1, EnqueueQueue DEF SendMessage
<1>5. CASE Again(c) /\ UNCHANGED queue
  <2>1. attempt'[c] >= attempt[c]
    BY <1>5, CommandsAssumption DEF Again, QueueInv, TypeOK
  <2>2. Deliverable'
    BY <1>5 DEF QueueInv, Deliverable, SendMessage
  <2>3. pc[c] = "send" /\ attempt[c] \in Nat /\ attempt'[c] \in Nat
    BY <1>1, CommandsAssumption DEF SendMessage, QueueInv, TypeOK
  <2>4. Unsent'
    <3> SUFFICES ASSUME NEW d \in Commands, NEW n \in 0 .. RETRY_COUNT, d \notin Methods,
                        pc'[d] = "idle" \/ (pc'[d] = "send" /\ n >= attempt'[d])
                 PROVE  queue[<<d, n>>] = "none"
      BY <1>5 DEF Unsent
    <3>1. CASE d = c
      BY <1>3, <2>1, <2>3, <3>1 DEF QueueInv, Unsent
    <3>2. CASE d # c
      BY <1>3, <3>2 DEF QueueInv, Unsent
    <3>3. QED BY <3>1, <3>2
  <2>5. QED BY <1>1, <2>2, <2>4 DEF QueueInv
<1>6. QED BY <1>4, <1>5 DEF SendMessage

LEMMA InvokeMethodQueue ==
    ASSUME QueueInv, NEW c \in Commands, InvokeMethod(c) PROVE QueueInv'
<1>1. TypeOK'
  BY InvokeMethodType DEF QueueInv
<1>2. \A d \in Commands : d # c => pc'[d] = pc[d] /\ attempt'[d] = attempt[d]
  BY WriterKinds DEF InvokeMethod, Goto, Again, QueueInv, TypeOK
<1>3. Deliverable' /\ Unsent'
  BY <1>2 DEF InvokeMethod, hub, QueueInv, Deliverable, Unsent
<1>4. QED BY <1>1, <1>3 DEF QueueInv

LEMMA OtherRequestQueue ==
    ASSUME QueueInv, NEW c \in Commands, SendRead(c) \/ CloseDevice(c) \/ SendSave(c)
    PROVE  QueueInv'
<1>1. TypeOK'
  BY SendReadType, CloseDeviceType, SendSaveType DEF QueueInv
<1>2. Forward
  BY WriterKinds DEF SendRead, CloseDevice, SendSave, Saved, Goto, Forward, QueueInv, TypeOK
<1>3. QED BY <1>1, <1>2, QueueUntouched DEF SendRead, CloseDevice, SendSave, hub

LEMMA EditQueue ==
    ASSUME QueueInv, NEW e \in Editors, EditRead(e) \/ EditSave(e) PROVE QueueInv'
<1>1. TypeOK'
  BY EditReadType, EditSaveType DEF QueueInv
<1>2. Forward
  BY WriterKinds DEF EditRead, EditSave, Saved, Goto, Forward, QueueInv, TypeOK
<1>3. QED BY <1>1, <1>2, QueueUntouched DEF EditRead, EditSave, hub

LEMMA GoDownType ==
    ASSUME TypeOK, GoDown
    PROVE  /\ pc' \in [Writers -> {"idle", "read", "send", "close", "save", "ok", "failed"}]
           /\ processor' = "down"
           /\ Forward
BY WriterKinds DEF TypeOK, GoDown, Forward

LEMMA TaskGoto ==
    ASSUME TypeOK, NEW m \in Copies, NEW label \in {"save", "ok"}, Goto(m, label), UNCHANGED processor
    PROVE  /\ pc' \in [Writers -> {"idle", "read", "send", "close", "save", "ok", "failed"}]
           /\ processor' \in {"receiving", "completing", "stopped", "down"}
           /\ Forward
BY WriterKinds DEF TypeOK, Goto, Forward

LEMMA FeedbackReadQueue ==
    ASSUME QueueInv, NEW m \in Copies, queue[m] \in Outcomes, FeedbackRead(m) PROVE QueueInv'
<1>1. m \in Writers /\ m[1] \in Commands /\ m \notin Commands
  BY WriterKinds, CopyParts
<1>2. Entered(m) \in Histories
  BY <1>1, EntryType DEF QueueInv, TypeOK, Entered, Entries
<1>3. view' \in [Writers -> Histories] /\ current' \subseteq Writers /\ early' \subseteq Commands
  BY <1>1, <1>2, ViewType DEF FeedbackRead, Read, QueueInv, TypeOK
<1>4. failures' \in 0 .. MaxFaults
  BY CommandsAssumption DEF FeedbackRead, Fails, NoFailure, QueueInv, TypeOK
<1>5. /\ pc' \in [Writers -> {"idle", "read", "send", "close", "save", "ok", "failed"}]
      /\ processor' \in {"receiving", "completing", "stopped", "down"}
      /\ Forward
  BY <1>1, GoDownType, TaskGoto DEF FeedbackRead, QueueInv
<1>6. TypeOK'
  BY <1>3, <1>4, <1>5 DEF FeedbackRead, hub, device, QueueInv, TypeOK
<1>7. QED BY <1>5, <1>6, QueueUntouched DEF FeedbackRead, hub

LEMMA FeedbackSaveQueue ==
    ASSUME QueueInv, NEW m \in Copies, FeedbackSave(m) PROVE QueueInv'
<1>1. m \in Writers /\ m \notin Commands
  BY WriterKinds
<1>2. /\ pc' \in [Writers -> {"idle", "read", "send", "close", "save", "ok", "failed"}]
      /\ processor' \in {"receiving", "completing", "stopped", "down"}
      /\ Forward
  BY <1>1, GoDownType, TaskGoto DEF FeedbackSave, Saved, QueueInv
<1>3. Saved(m) \/ SaveFails(m)
  BY DEF FeedbackSave
<1>4. TypeOK'
  BY <1>1, <1>2, <1>3, SavingType, DropType DEF FeedbackSave, hub, device, QueueInv, TypeOK
<1>5. QED BY <1>2, <1>4, QueueUntouched DEF FeedbackSave, hub

LEMMA ProcessStopsQueue == ASSUME QueueInv, ProcessStops PROVE QueueInv'
<1>1. failures' \in 0 .. MaxFaults
  BY CommandsAssumption DEF ProcessStops, Fails, QueueInv, TypeOK
<1>2. TypeOK' /\ Forward
  BY <1>1, GoDownType DEF ProcessStops, hub, device, ghosts, QueueInv, TypeOK
<1>3. QED BY <1>2, QueueUntouched DEF ProcessStops, hub

LEMMA BatchQueue == ASSUME QueueInv, Feedback \/ ReceiveFails PROVE QueueInv'
<1>1. failures' \in 0 .. MaxFaults
  BY CommandsAssumption
     DEF Feedback, ReceiveBatch, ReceiveFails, CompleteBatch, Restart, Fails, NoFailure, QueueInv, TypeOK
<1>2. /\ pc' \in [Writers -> {"idle", "read", "send", "close", "save", "ok", "failed"}]
      /\ Forward
  <2>1. CASE ReceiveBatch
    <3>1. PICK batch \in SUBSET {m \in Copies : feedback[m] = "waiting"} :
            pc' = [w \in Writers |-> IF w \in batch THEN "read" ELSE pc[w]]
      BY <2>1 DEF ReceiveBatch
    <3>2. QED BY <3>1, WriterKinds DEF Forward, QueueInv, TypeOK
  <2>2. CASE UNCHANGED pc
    BY <2>2 DEF Forward, QueueInv, TypeOK
  <2>3. QED BY <2>1, <2>2 DEF Feedback, ReceiveFails, CompleteBatch, Restart
<1>3. feedback' \in [Copies -> {"none", "waiting", "taken", "consumed"}]
  BY DEF Feedback, ReceiveBatch, ReceiveFails, CompleteBatch, Restart, QueueInv, TypeOK
<1>4. TypeOK'
  BY <1>1, <1>2, <1>3
     DEF Feedback, ReceiveBatch, ReceiveFails, CompleteBatch, Restart, hub, device, ghosts, QueueInv, TypeOK
<1>5. QED BY <1>2, <1>4, QueueUntouched DEF Feedback, ReceiveBatch, ReceiveFails, CompleteBatch, Restart, hub

-----------------------------------------------------------------------------
(* What is known of a command only grows *)

\* a feedback record tells of an outcome, and a task of the processor has a record
Reported ==
    \A m \in Copies : feedback[m] # "none" \/ pc[m] = "read" => queue[m] \in Outcomes

\* what the device answers, and the hub took, as carried out was carried out
Deserved ==
    /\ \A m \in Copies : queue[m] = "Success" => handled[m[1]] > 0
    /\ loop = "complete" => handled[cur[1]] > 0

\* r is a true thing to say of command c
EntryTrue(r, c) ==
    /\ r = "Success" => handled[c] > 0
    /\ r # "absent" => pc[c] # "idle"
    /\ c \notin Methods /\ r # "absent" => Accepted(c)
    /\ c \notin Methods /\ r \notin {"absent", "pending"} =>
         \E n \in 0 .. RETRY_COUNT : queue[<<c, n>>] = r

DocTrue == \A c \in Commands : EntryTrue(history[c], c)

\* so is the document a writer will save, but for the command its request is
\* still to send
ViewTrue(w) ==
    /\ pc[w] \in {"close", "save"} => \A c \in Commands : EntryTrue(view[w][c], c)
    /\ pc[w] = "send" => /\ w \in Commands
                         /\ view[w][w] = "pending"
                         /\ \A c \in Commands : c # w => EntryTrue(view[w][c], c)

HistoryInv ==
    /\ QueueInv
    /\ Reported
    /\ Deserved
    /\ DocTrue
    /\ \A w \in Writers : ViewTrue(w)

Grows ==
    /\ \A c \in Commands : handled'[c] >= handled[c]
    /\ \A c \in Commands : pc[c] # "idle" => pc'[c] # "idle"
    /\ \A m \in Copies : queue[m] # "none" => queue'[m] # "none"
    /\ \A m \in Copies : queue[m] \in Outcomes => queue'[m] = queue[m]

\* r is a true thing to say of command c after the step
TrueNext(r, c) ==
    /\ r = "Success" => handled'[c] > 0
    /\ r # "absent" => pc'[c] # "idle"
    /\ c \notin Methods /\ r # "absent" => Accepted(c)'
    /\ c \notin Methods /\ r \notin {"absent", "pending"} =>
         \E n \in 0 .. RETRY_COUNT : queue'[<<c, n>>] = r

\* an entry that is true stays true
LEMMA EntryStays ==
    ASSUME TypeOK, TypeOK', Grows, NEW c \in Commands, NEW r \in Entries, EntryTrue(r, c)
    PROVE  TrueNext(r, c)
<1>1. r = "Success" => handled'[c] > 0
  BY DEF EntryTrue, Grows, TypeOK
<1>2. r # "absent" => pc'[c] # "idle"
  BY DEF EntryTrue, Grows
<1>3. c \notin Methods /\ r # "absent" => Accepted(c)'
  BY CopyOf DEF EntryTrue, Accepted, Grows
<1>4. ASSUME c \notin Methods, r \notin {"absent", "pending"}
      PROVE  \E n \in 0 .. RETRY_COUNT : queue'[<<c, n>>] = r
  <2>1. PICK n \in 0 .. RETRY_COUNT : queue[<<c, n>>] = r
    BY <1>4 DEF EntryTrue
  <2>2. <<c, n>> \in Copies
    BY <1>4, CopyOf
  <2>3. r \in Outcomes
    BY <1>4, <2>1, <2>2 DEF TypeOK, Entries, Failed, Outcomes
  <2>4. QED BY <2>1, <2>2, <2>3 DEF Grows
<1>5. QED BY <1>1, <1>2, <1>3, <1>4 DEF TrueNext

LEMMA EntryNext ==
    ASSUME NEW w \in Writers, NEW c \in Commands, TrueNext(view'[w][c], c)
    PROVE  EntryTrue(view[w][c], c)'
BY DEF TrueNext, EntryTrue

\* the document, and a copy of it, that a step leaves alone
LEMMA DocStays ==
    ASSUME HistoryInv, TypeOK', Grows, UNCHANGED history
    PROVE  DocTrue'
<1> SUFFICES ASSUME NEW c \in Commands PROVE EntryTrue(history[c], c)'
  BY DEF DocTrue
<1>1. history[c] \in Entries /\ EntryTrue(history[c], c) /\ TypeOK
  BY DEF HistoryInv, QueueInv, TypeOK, Histories, DocTrue
<1>2. QED BY <1>1, EntryStays DEF EntryTrue, TrueNext

LEMMA ViewStays ==
    ASSUME HistoryInv, TypeOK', Grows, NEW w \in Writers, view'[w] = view[w],
           pc'[w] = "send" => pc[w] = "send",
           pc'[w] \in {"close", "save"} => pc[w] \in {"close", "save"}
    PROVE  ViewTrue(w)'
<1>1. TypeOK /\ ViewTrue(w)
  BY DEF HistoryInv, QueueInv
<1>2. ASSUME NEW c \in Commands, EntryTrue(view[w][c], c)
      PROVE  EntryTrue(view[w][c], c)'
  <2>1. view[w][c] \in Entries
    BY <1>1 DEF TypeOK, Histories
  <2>2. TrueNext(view'[w][c], c)
    BY <1>1, <1>2, <2>1, EntryStays
  <2>3. QED BY <2>2, EntryNext
<1>3. QED BY <1>1, <1>2 DEF ViewTrue

\* a writer that has no document
LEMMA NoView ==
    ASSUME NEW w \in Writers, pc'[w] \in {"idle", "read", "ok", "failed"}
    PROVE  ViewTrue(w)'
BY DEF ViewTrue

\* a writer that keeps its document and its place, or is finished with it
Stays(w) ==
    /\ view'[w] = view[w]
    /\ pc'[w] = pc[w] \/ pc'[w] \in {"idle", "read", "ok", "failed"}

LEMMA StaysTrue ==
    ASSUME HistoryInv, TypeOK', Grows, NEW w \in Writers, Stays(w)
    PROVE  ViewTrue(w)'
BY ViewStays, NoView DEF Stays

\* steps that change neither the document nor a copy of it
LEMMA DocUntouched ==
    ASSUME HistoryInv, QueueInv', Grows, UNCHANGED history, Reported', Deserved',
           \A w \in Writers : Stays(w)
    PROVE  HistoryInv'
BY DocStays, StaysTrue DEF HistoryInv, QueueInv

\* steps of one writer
LEMMA OneWriter ==
    ASSUME HistoryInv, QueueInv', Grows, UNCHANGED history, Reported', Deserved',
           NEW w \in Writers, ViewTrue(w)', \A v \in Writers : v # w => Stays(v)
    PROVE  HistoryInv'
BY DocStays, StaysTrue DEF HistoryInv, QueueInv

-----------------------------------------------------------------------------
(* The hub and the device *)

LEMMA HubGrows ==
    ASSUME TypeOK, NEW m \in Copies, HubMoves(m), queue[m] \notin Outcomes,
           \A c \in Commands : handled'[c] >= handled[c]
    PROVE  Grows
BY DEF Grows, HubMoves, TypeOK, Outcomes

LEMMA LockExpiresHistory ==
    ASSUME HistoryInv, NEW m \in Copies, LockExpires(m) PROVE HistoryInv'
<1>1. QueueInv' /\ TypeOK
  BY LockExpiresQueue DEF HistoryInv, QueueInv
<1>2. HubMoves(m) /\ queue[m] \notin Outcomes
  BY RequeueMoves DEF LockExpires, HistoryInv, Outcomes
<1>3. Grows
  BY <1>1, <1>2, HubGrows DEF LockExpires, device, TypeOK
<1>4. Reported' /\ Deserved'
  BY <1>1, <1>2, CopyParts
     DEF LockExpires, Requeue, Settle, device, HistoryInv, Reported, Deserved, TypeOK, Outcomes
<1>5. QED BY <1>1, <1>3, <1>4, DocUntouched DEF LockExpires, Stays

LEMMA ExpiresHistory ==
    ASSUME HistoryInv, NEW m \in Copies, Expires(m) PROVE HistoryInv'
<1>1. QueueInv' /\ TypeOK
  BY ExpiresQueue DEF HistoryInv, QueueInv
<1>2. HubMoves(m) /\ queue[m] \notin Outcomes
  BY <1>1 DEF Expires, Settle, HubMoves, Outcomes
<1>3. Grows
  BY <1>1, <1>2, HubGrows DEF Expires, device, TypeOK
<1>4. Reported' /\ Deserved'
  BY <1>1, CopyParts DEF Expires, Settle, device, HistoryInv, Reported, Deserved, TypeOK, Outcomes
<1>5. QED BY <1>1, <1>3, <1>4, DocUntouched DEF Expires, Stays

LEMMA ReceiveHistory ==
    ASSUME HistoryInv, NEW m \in Copies, Receive(m) PROVE HistoryInv'
<1>1. QueueInv' /\ TypeOK
  BY ReceiveQueue DEF HistoryInv, QueueInv
<1>2. HubMoves(m) /\ queue[m] \notin Outcomes
  BY <1>1 DEF Receive, HubMoves, Outcomes
<1>3. Grows
  BY <1>1, <1>2, HubGrows DEF Receive, TypeOK
<1>4. Reported' /\ Deserved'
  BY <1>1, CopyParts DEF Receive, HistoryInv, Reported, Deserved, TypeOK, Outcomes
<1>5. QED BY <1>1, <1>3, <1>4, DocUntouched DEF Receive, Stays

LEMMA HandleHistory == ASSUME HistoryInv, Handle PROVE HistoryInv'
<1>1. QueueInv' /\ TypeOK /\ TypeOK'
  BY HandleQueue DEF HistoryInv, QueueInv
<1>2. cur \in Copies /\ cur[1] \in Commands
  BY <1>1, CopyParts DEF Handle, TypeOK
<1>3. \A c \in Commands : handled'[c] >= handled[c]
  BY <1>1, <1>2 DEF Handle, TypeOK
<1>4. Grows
  BY <1>3 DEF Handle, Grows, hub
<1>5. Reported'
  BY DEF Handle, hub, HistoryInv, Reported
<1>6. Deserved'
  <2>1. \A m \in Copies : queue'[m] = "Success" => handled'[m[1]] > 0
    BY <1>1, <1>3, CopyParts DEF Handle, hub, HistoryInv, Deserved, TypeOK
  <2>2. loop' = "complete" => handled'[cur'[1]] > 0
    BY <1>1, <1>2 DEF Handle, TypeOK
  <2>3. QED BY <2>1, <2>2 DEF Deserved
<1>7. QED BY <1>1, <1>4, <1>5, <1>6, DocUntouched DEF Handle, Stays

LEMMA SignalHistory == ASSUME HistoryInv, Signal PROVE HistoryInv'
<1>1. QueueInv' /\ TypeOK
  BY SignalQueue DEF HistoryInv, QueueInv
<1>2. cur \in Copies
  BY <1>1 DEF Signal, TypeOK
<1>3. Grows /\ Reported' /\ Deserved'
  <2>1. CASE UNCHANGED <<queue, feedback>>
    BY <1>1, <2>1 DEF Signal, Grows, HistoryInv, Reported, Deserved, TypeOK
  <2>2. CASE Taken /\ Answer
    <3>1. HubMoves(cur) /\ queue[cur] \notin Outcomes
      BY <1>1, <1>2, <2>2, RequeueMoves
         DEF Signal, Taken, Answer, Settle, HubMoves, HistoryInv, Outcomes
    <3>2. Grows
      BY <1>1, <1>2, <3>1, HubGrows DEF Signal, TypeOK
    <3>3. Reported'
      BY <1>1, <1>2, <2>2
         DEF Signal, Taken, Answer, Requeue, Settle, HistoryInv, Reported, TypeOK, Outcomes
    <3>4. loop = "complete" => handled[cur[1]] > 0
      BY DEF HistoryInv, Deserved
    <3>5. \A m \in Copies : queue'[m] = "Success" => queue[m] = "Success" \/ (m = cur /\ loop = "complete")
      BY <1>1, <1>2, <2>2 DEF Answer, Requeue, Settle, TypeOK
    <3>6. Deserved'
      BY <3>4, <3>5 DEF Signal, HistoryInv, Deserved
    <3>7. QED BY <3>2, <3>3, <3>6
  <2>3. QED BY <2>1, <2>2 DEF Signal
<1>4. QED BY <1>1, <1>3, DocUntouched DEF Signal, Stays

-----------------------------------------------------------------------------
(* The requests *)

\* a request's step changes no task, nor what the hub and the device know
LEMMA RequestKeeps ==
    ASSUME HistoryInv, NEW c \in Commands, UNCHANGED <<feedback, queue, loop, cur, handled>>,
           \A v \in Writers : v # c => pc'[v] = pc[v]
    PROVE  Reported' /\ Deserved'
BY WriterKinds DEF HistoryInv, Reported, Deserved

LEMMA GotoKeeps ==
    ASSUME TypeOK, NEW w \in Writers, NEW label, Goto(w, label)
    PROVE  pc'[w] = label /\ \A v \in Writers : v # w => pc'[v] = pc[v]
BY DEF TypeOK, Goto

LEMMA SendReadHistory ==
    ASSUME HistoryInv, NEW c \in Commands, SendRead(c) PROVE HistoryInv'
<1>1. QueueInv' /\ TypeOK /\ TypeOK' /\ c \in Writers
  BY OtherRequestQueue, WriterKinds DEF HistoryInv, QueueInv
<1>2. pc'[c] \in {"send", "failed"} /\ \A v \in Writers : v # c => pc'[v] = pc[v]
  BY <1>1, GotoKeeps DEF SendRead
<1>3. Grows
  BY <1>1, <1>2, WriterKinds DEF SendRead, Grows, hub, device, TypeOK
<1>4. Reported' /\ Deserved'
  BY <1>2, RequestKeeps DEF SendRead, hub, device
<1>5. ViewTrue(c)'
  <2>1. CASE pc'[c] = "failed"
    BY <1>1, <2>1, NoView
  <2>2. CASE pc'[c] = "send"
    <3>1. view' = [view EXCEPT ![c] = [history EXCEPT ![c] = "pending"]]
      BY <1>1, <2>2, GotoKeeps DEF SendRead, Read
    <3>2. view'[c][c] = "pending" /\ \A d \in Commands : d # c => view'[c][d] = history[d]
      BY <1>1, <3>1 DEF TypeOK, Histories
    <3>3. ASSUME NEW d \in Commands, d # c PROVE EntryTrue(view[c][d], d)'
      <4>1. history[d] \in Entries /\ EntryTrue(history[d], d)
        BY <1>1 DEF HistoryInv, DocTrue, TypeOK, Histories
      <4>2. TrueNext(view'[c][d], d)
        BY <1>1, <1>3, <3>2, <3>3, <4>1, EntryStays
      <4>3. QED BY <1>1, <4>2, EntryNext
    <3>4. QED BY <2>2, <3>2, <3>3 DEF ViewTrue
  <2>3. QED BY <1>2, <2>1, <2>2
<1>6. \A v \in Writers : v # c => Stays(v)
  BY <1>1, <1>2 DEF SendRead, Read, Stays, TypeOK
<1>7. QED BY <1>1, <1>3, <1>4, <1>5, <1>6, OneWriter DEF SendRead

LEMMA CloseDeviceHistory ==
    ASSUME HistoryInv, NEW c \in Commands, CloseDevice(c) PROVE HistoryInv'
<1>1. QueueInv' /\ TypeOK /\ TypeOK' /\ c \in Writers
  BY OtherRequestQueue, WriterKinds DEF HistoryInv, QueueInv
<1>2. pc'[c] \in {"save", "failed"} /\ \A v \in Writers : v # c => pc'[v] = pc[v]
  BY <1>1, GotoKeeps DEF CloseDevice
<1>3. Grows
  BY <1>1, <1>2, WriterKinds DEF CloseDevice, Grows, hub, device, TypeOK
<1>4. Reported' /\ Deserved'
  BY <1>2, RequestKeeps DEF CloseDevice, hub, device
<1>5. ViewTrue(c)'
  BY <1>1, <1>2, <1>3, ViewStays, NoView DEF CloseDevice
<1>6. QED BY <1>1, <1>2, <1>3, <1>4, <1>5, OneWriter DEF CloseDevice, Stays

\* the request's own entry, once its command was sent, with the rest of its document
LEMMA OwnEntry ==
    ASSUME HistoryInv, TypeOK', Grows, NEW c \in Commands, pc[c] = "send",
           \A d \in Commands : d # c => view'[c][d] = view[c][d],
           TrueNext(view'[c][c], c)
    PROVE  \A d \in Commands : EntryTrue(view[c][d], d)'
<1>1. c \in Writers /\ TypeOK
  BY WriterKinds DEF HistoryInv, QueueInv
<1>2. ASSUME NEW d \in Commands PROVE TrueNext(view'[c][d], d)
  <2>1. CASE d = c
    BY <2>1
  <2>2. CASE d # c
    <3>1. EntryTrue(view[c][d], d) /\ view[c][d] \in Entries
      BY <1>1, <2>2 DEF HistoryInv, ViewTrue, TypeOK, Histories
    <3>2. QED BY <1>1, <2>2, <3>1, EntryStays
  <2>3. QED BY <2>1, <2>2
<1>3. QED BY <1>1, <1>2, EntryNext

LEMMA SendMessageHistory ==
    ASSUME HistoryInv, NEW c \in Commands, SendMessage(c) PROVE HistoryInv'
<1>1. QueueInv' /\ TypeOK /\ TypeOK' /\ c \in Writers
  BY SendMessageQueue, WriterKinds DEF HistoryInv, QueueInv
<1>2. /\ attempt[c] \in 0 .. RETRY_COUNT
      /\ <<c, attempt[c]>> \in Copies
      /\ queue[<<c, attempt[c]>>] = "none"
  BY CopyOf DEF HistoryInv, QueueInv, TypeOK, Unsent, SendMessage
<1>3. /\ pc'[c] \in {"close", "send", "failed"}
      /\ \A v \in Writers : v # c => pc'[v] = pc[v]
      /\ pc'[c] = "close" => Enqueue(c)
  BY <1>1, GotoKeeps DEF SendMessage, Again
<1>4. Grows
  BY <1>1, <1>2, <1>3, WriterKinds DEF SendMessage, Enqueue, Grows, device, TypeOK, Outcomes
<1>5. Reported' /\ Deserved'
  <2>1. \A m \in Copies : queue'[m] = queue[m] \/ (queue[m] = "none" /\ queue'[m] = "queued")
    BY <1>1, <1>2 DEF SendMessage, Enqueue, TypeOK
  <2>2. Reported'
    <3> SUFFICES ASSUME NEW m \in Copies, feedback'[m] # "none" \/ pc'[m] = "read"
                 PROVE  queue'[m] \in Outcomes
      BY DEF Reported
    <3>1. queue[m] \in Outcomes
      BY <1>3, WriterKinds DEF SendMessage, HistoryInv, Reported
    <3>2. QED BY <2>1, <3>1 DEF Outcomes
  <2>3. Deserved'
    BY <2>1 DEF SendMessage, device, HistoryInv, Deserved
  <2>4. QED BY <2>2, <2>3
<1>6. ViewTrue(c)'
  <2>1. CASE pc'[c] = "failed"
    BY <1>1, <2>1, NoView
  <2>2. CASE pc'[c] = "send"
    BY <1>1, <1>4, <2>2, ViewStays DEF SendMessage
  <2>3. CASE pc'[c] = "close"
    <3>1. queue'[<<c, attempt[c]>>] = "queued"
      BY <1>1, <1>2, <1>3, <2>3 DEF Enqueue, TypeOK
    <3>2. Accepted(c)'
      BY <1>2, <3>1 DEF Accepted
    <3>3. view'[c] = view[c] /\ view[c][c] = "pending"
      BY <1>1 DEF SendMessage, HistoryInv, ViewTrue
    <3>4. TrueNext(view'[c][c], c)
      BY <2>3, <3>2, <3>3 DEF TrueNext
    <3>5. \A d \in Commands : EntryTrue(view[c][d], d)'
      BY <1>1, <1>4, <3>3, <3>4, OwnEntry DEF SendMessage
    <3>6. QED BY <2>3, <3>5 DEF ViewTrue
  <2>4. QED BY <1>3, <2>1, <2>2, <2>3
<1>7. QED BY <1>1, <1>3, <1>4, <1>5, <1>6, OneWriter DEF SendMessage, Stays

LEMMA InvokeMethodHistory ==
    ASSUME HistoryInv, NEW c \in Commands, InvokeMethod(c) PROVE HistoryInv'
<1>1. QueueInv' /\ TypeOK /\ TypeOK' /\ c \in Writers
  BY InvokeMethodQueue, WriterKinds DEF HistoryInv, QueueInv
<1>2. pc'[c] \in {"save", "send", "failed"} /\ \A v \in Writers : v # c => pc'[v] = pc[v]
  BY <1>1, GotoKeeps DEF InvokeMethod, Again
<1>3. \A d \in Commands : handled'[d] >= handled[d]
  BY <1>1 DEF InvokeMethod, TypeOK
<1>4. Grows
  BY <1>1, <1>2, <1>3, WriterKinds DEF InvokeMethod, Grows, hub, TypeOK
<1>5. Reported' /\ Deserved'
  <2>1. Reported'
    BY <1>2, WriterKinds DEF InvokeMethod, hub, HistoryInv, Reported
  <2>2. \A m \in Copies : queue'[m] = "Success" => handled'[m[1]] > 0
    BY <1>1, <1>3, CopyParts DEF InvokeMethod, hub, HistoryInv, Deserved, TypeOK
  <2>3. loop = "complete" => cur \in Copies /\ handled[cur[1]] > 0
    BY <1>1 DEF HistoryInv, Deserved, TypeOK
  <2>4. loop' = "complete" => handled'[cur'[1]] > 0
    BY <1>1, <1>3, <2>3, CopyParts DEF InvokeMethod, TypeOK
  <2>5. QED BY <2>1, <2>2, <2>4 DEF Deserved
<1>6. ViewTrue(c)'
  <2>1. CASE pc'[c] = "failed"
    BY <1>1, <2>1, NoView
  <2>2. CASE pc'[c] = "send"
    BY <1>1, <1>4, <2>2, ViewStays, GotoKeeps DEF InvokeMethod
  <2>3. CASE pc'[c] = "save"
    <3>1. PICK result \in {"Success", Failed} :
            /\ view' = [view EXCEPT ![c][c] = result]
            /\ handled' = [handled EXCEPT ![c] = IF result = "Success" THEN @ + 1 ELSE @]
      BY <1>1, <2>3, GotoKeeps DEF InvokeMethod, Again
    <3>2. view'[c][c] = result /\ \A d \in Commands : d # c => view'[c][d] = view[c][d]
      BY <1>1, <3>1 DEF TypeOK, Histories
    <3>3. result = "Success" => handled'[c] > 0
      BY <1>1, <3>1 DEF TypeOK
    <3>4. TrueNext(view'[c][c], c)
      BY <2>3, <3>2, <3>3 DEF TrueNext, InvokeMethod
    <3>5. \A d \in Commands : EntryTrue(view[c][d], d)'
      BY <1>1, <1>4, <3>2, <3>4, OwnEntry DEF InvokeMethod
    <3>6. QED BY <2>3, <3>5 DEF ViewTrue
  <2>4. QED BY <1>2, <2>1, <2>2, <2>3
<1>7. \A v \in Writers : v # c => Stays(v)
  BY <1>1, <1>2 DEF InvokeMethod, Stays, TypeOK
<1>8. QED BY <1>1, <1>4, <1>5, <1>6, <1>7, OneWriter DEF InvokeMethod

-----------------------------------------------------------------------------
(* Saves and the other writers *)

LEMMA SaveHistory ==
    ASSUME HistoryInv, QueueInv', Grows, Reported', UNCHANGED <<queue, handled, loop, cur>>,
           NEW w \in Writers, pc[w] = "save", pc'[w] \in {"ok", "failed"},
           history' \in {history, view[w]}, \A v \in Writers : v # w => Stays(v)
    PROVE  HistoryInv'
<1>1. TypeOK /\ TypeOK'
  BY DEF HistoryInv, QueueInv
<1>2. Deserved'
  BY DEF HistoryInv, Deserved
<1>3. DocTrue'
  <2> SUFFICES ASSUME NEW c \in Commands PROVE EntryTrue(history[c], c)'
    BY DEF DocTrue
  <2>1. history'[c] \in Entries /\ EntryTrue(history'[c], c)
    BY <1>1 DEF HistoryInv, DocTrue, ViewTrue, TypeOK, Histories
  <2>2. TrueNext(history'[c], c)
    BY <1>1, <2>1, EntryStays
  <2>3. QED BY <2>2 DEF TrueNext, EntryTrue
<1>4. \A v \in Writers : ViewTrue(v)'
  BY <1>1, StaysTrue, NoView
<1>5. QED BY <1>2, <1>3, <1>4 DEF HistoryInv

LEMMA SavedOrNot ==
    ASSUME TypeOK, NEW w \in Writers, Saved(w) \/ SaveFails(w), Drop(w)
    PROVE  /\ history' \in {history, view[w]}
           /\ \A v \in Writers : v # w => view'[v] = view[v]
BY DEF Saved, SaveFails, Write, NoWrite, Drop, TypeOK

LEMMA SendSaveHistory ==
    ASSUME HistoryInv, NEW c \in Commands, SendSave(c) PROVE HistoryInv'
<1>1. QueueInv' /\ TypeOK /\ c \in Writers
  BY OtherRequestQueue, WriterKinds DEF HistoryInv, QueueInv
<1>2. pc'[c] \in {"ok", "failed"} /\ \A v \in Writers : v # c => pc'[v] = pc[v]
  BY <1>1, GotoKeeps DEF SendSave, Saved
<1>3. /\ history' \in {history, view[c]}
      /\ \A v \in Writers : v # c => view'[v] = view[v]
  BY <1>1, SavedOrNot DEF SendSave
<1>4. Grows
  BY <1>1, <1>2, WriterKinds DEF SendSave, Grows, hub, device, TypeOK
<1>5. Reported'
  BY <1>2, RequestKeeps DEF SendSave, hub, device
<1>6. QED BY <1>1, <1>2, <1>3, <1>4, <1>5, SaveHistory DEF SendSave, hub, device, Stays

LEMMA EditKeeps ==
    ASSUME HistoryInv, NEW e \in Editors, UNCHANGED <<hub, device, feedback>>,
           \A v \in Writers : v # e => pc'[v] = pc[v]
    PROVE  Grows /\ Reported' /\ Deserved'
BY WriterKinds DEF HistoryInv, QueueInv, TypeOK, Grows, Reported, Deserved, hub, device

LEMMA EditSaveHistory ==
    ASSUME HistoryInv, NEW e \in Editors, EditSave(e) PROVE HistoryInv'
<1>1. QueueInv' /\ TypeOK /\ e \in Writers
  BY EditQueue, WriterKinds DEF HistoryInv, QueueInv
<1>2. pc'[e] \in {"ok", "failed"} /\ \A v \in Writers : v # e => pc'[v] = pc[v]
  BY <1>1, GotoKeeps DEF EditSave, Saved
<1>3. /\ history' \in {history, view[e]}
      /\ \A v \in Writers : v # e => view'[v] = view[v]
  BY <1>1, SavedOrNot DEF EditSave
<1>4. Grows /\ Reported'
  BY <1>2, EditKeeps DEF EditSave
<1>5. QED BY <1>1, <1>2, <1>3, <1>4, SaveHistory DEF EditSave, hub, device, Stays

LEMMA EditReadHistory ==
    ASSUME HistoryInv, NEW e \in Editors, EditRead(e) PROVE HistoryInv'
<1>1. QueueInv' /\ TypeOK /\ TypeOK' /\ e \in Writers
  BY EditQueue, WriterKinds DEF HistoryInv, QueueInv
<1>2. pc'[e] = "save" /\ \A v \in Writers : v # e => pc'[v] = pc[v]
  BY <1>1, GotoKeeps DEF EditRead
<1>3. Grows /\ Reported' /\ Deserved'
  BY <1>2, EditKeeps DEF EditRead
<1>4. view'[e] = history /\ \A v \in Writers : v # e => view'[v] = view[v]
  BY <1>1 DEF EditRead, Read, TypeOK
<1>5. ASSUME NEW c \in Commands PROVE EntryTrue(view[e][c], c)'
  <2>1. history[c] \in Entries /\ EntryTrue(history[c], c)
    BY <1>1 DEF HistoryInv, DocTrue, TypeOK, Histories
  <2>2. TrueNext(view'[e][c], c)
    BY <1>1, <1>3, <1>4, <2>1, EntryStays
  <2>3. QED BY <1>1, <2>2, EntryNext
<1>6. ViewTrue(e)'
  BY <1>2, <1>5 DEF ViewTrue
<1>7. QED BY <1>1, <1>2, <1>3, <1>4, <1>6, OneWriter DEF EditRead, Stays

-----------------------------------------------------------------------------
(* The feedback processor *)

LEMMA GoDownKeeps ==
    ASSUME HistoryInv, GoDown, UNCHANGED <<hub, device, feedback>>
    PROVE  /\ Grows /\ Reported' /\ Deserved'
           /\ \A w \in Writers : pc'[w] = pc[w] \/ pc'[w] = "failed"
           /\ \A m \in Copies : pc[m] \in {"read", "save"} => pc'[m] = "failed"
BY WriterKinds DEF HistoryInv, QueueInv, TypeOK, GoDown, Grows, Reported, Deserved, hub, device

LEMMA TaskKeeps ==
    ASSUME HistoryInv, NEW m \in Copies, NEW label \in {"save", "ok"}, Goto(m, label),
           UNCHANGED <<hub, device, feedback>>
    PROVE  /\ Grows /\ Reported' /\ Deserved'
           /\ pc'[m] = label /\ \A v \in Writers : v # m => pc'[v] = pc[v]
BY WriterKinds DEF HistoryInv, QueueInv, TypeOK, Goto, Grows, Reported, Deserved, hub, device

LEMMA FeedbackReadHistory ==
    ASSUME HistoryInv, NEW m \in Copies, FeedbackRead(m) PROVE HistoryInv'
<1>1. queue[m] \in Outcomes /\ m \in Writers
  BY WriterKinds DEF FeedbackRead, HistoryInv, Reported
<1>2. QueueInv' /\ TypeOK /\ TypeOK'
  BY <1>1, FeedbackReadQueue DEF HistoryInv, QueueInv
<1>3. CASE GoDown /\ UNCHANGED view
  BY <1>2, <1>3, GoDownKeeps, DocUntouched DEF FeedbackRead, Stays
<1>4. CASE Goto(m, "ok") /\ UNCHANGED view
  BY <1>2, <1>4, TaskKeeps, DocUntouched DEF FeedbackRead, Stays
<1>5. CASE Goto(m, "save") /\ Read(m, Entered(m)) /\ history[m[1]] # "absent"
  <2>1. /\ Grows /\ Reported' /\ Deserved'
        /\ pc'[m] = "save" /\ \A v \in Writers : v # m => pc'[v] = pc[v]
    BY <1>5, TaskKeeps DEF FeedbackRead
  <2>2. view'[m] = Entered(m) /\ \A v \in Writers : v # m => view'[v] = view[v]
    BY <1>1, <1>2, <1>5 DEF Read, TypeOK
  <2>3. m[1] \in Commands \ Methods /\ m[2] \in 0 .. RETRY_COUNT /\ m = <<m[1], m[2]>>
    BY CopyParts
  <2>4. Entered(m)[m[1]] = queue[m] /\ \A d \in Commands : d # m[1] => Entered(m)[d] = history[d]
    BY <1>2, <2>3 DEF Entered, TypeOK, Histories
  <2>5. EntryTrue(queue[m], m[1])
    <3>1. queue[m] = "Success" => handled[m[1]] > 0
      BY DEF HistoryInv, Deserved
    <3>2. pc[m[1]] # "idle"
      BY <1>5, <2>3 DEF HistoryInv, DocTrue, EntryTrue
    <3>3. queue[<<m[1], m[2]>>] = queue[m] /\ queue[m] # "none"
      BY <1>1, <2>3 DEF Outcomes
    <3>4. Accepted(m[1])
      BY <2>3, <3>3 DEF Accepted
    <3>5. QED BY <2>3, <3>1, <3>2, <3>3, <3>4 DEF EntryTrue
  <2>6. ASSUME NEW d \in Commands PROVE EntryTrue(view[m][d], d)'
    <3>1. EntryTrue(Entered(m)[d], d) /\ Entered(m)[d] \in Entries
      <4>1. CASE d = m[1]
        BY <1>1, <2>4, <2>5, <4>1 DEF Entries
      <4>2. CASE d # m[1]
        BY <1>2, <2>4, <4>2 DEF HistoryInv, DocTrue, TypeOK, Histories
      <4>3. QED BY <4>1, <4>2
    <3>2. TrueNext(view'[m][d], d)
      BY <1>2, <2>1, <2>2, <3>1, EntryStays
    <3>3. QED BY <1>1, <3>2, EntryNext
  <2>7. ViewTrue(m)'
    BY <2>1, <2>6 DEF ViewTrue
  <2>8. QED BY <1>1, <1>2, <2>1, <2>2, <2>7, OneWriter DEF FeedbackRead, Stays
<1>6. QED BY <1>3, <1>4, <1>5 DEF FeedbackRead

LEMMA FeedbackSaveHistory ==
    ASSUME HistoryInv, NEW m \in Copies, FeedbackSave(m) PROVE HistoryInv'
<1>1. QueueInv' /\ TypeOK /\ m \in Writers
  BY FeedbackSaveQueue, WriterKinds DEF HistoryInv, QueueInv
<1>2. /\ history' \in {history, view[m]}
      /\ \A v \in Writers : v # m => view'[v] = view[v]
  BY <1>1, SavedOrNot DEF FeedbackSave
<1>3. /\ Grows /\ Reported'
      /\ pc'[m] \in {"ok", "failed"}
      /\ \A v \in Writers : v # m => pc'[v] = pc[v] \/ pc'[v] = "failed"
  <2>1. CASE GoDown
    BY <1>1, <2>1, GoDownKeeps DEF FeedbackSave
  <2>2. CASE Goto(m, "ok")
    BY <2>2, TaskKeeps DEF FeedbackSave
  <2>3. QED BY <2>1, <2>2 DEF FeedbackSave, Saved
<1>4. QED BY <1>1, <1>2, <1>3, SaveHistory DEF FeedbackSave, hub, device, Stays

LEMMA ProcessStopsHistory == ASSUME HistoryInv, ProcessStops PROVE HistoryInv'
<1>1. QueueInv'
  BY ProcessStopsQueue DEF HistoryInv
<1>2. QED BY <1>1, GoDownKeeps, DocUntouched DEF ProcessStops, Stays

LEMMA BatchHistory == ASSUME HistoryInv, Feedback \/ ReceiveFails PROVE HistoryInv'
<1>1. QueueInv' /\ TypeOK
  BY BatchQueue DEF HistoryInv, QueueInv
<1>2. /\ \A w \in Writers : pc'[w] = pc[w] \/ (w \in Copies /\ pc'[w] = "read")
      /\ Reported'
  <2>1. CASE ReceiveBatch
    <3>1. PICK batch \in SUBSET {m \in Copies : feedback[m] = "waiting"} :
            /\ feedback' = [m \in Copies |-> IF m \in batch THEN "taken" ELSE feedback[m]]
            /\ pc' = [w \in Writers |-> IF w \in batch THEN "read" ELSE pc[w]]
      BY <2>1 DEF ReceiveBatch
    <3>2. QED BY <2>1, <3>1, WriterKinds DEF ReceiveBatch, hub, HistoryInv, Reported
  <2>2. CASE CompleteBatch
    BY <2>2 DEF CompleteBatch, hub, HistoryInv, Reported
  <2>3. CASE Restart
    BY <2>3 DEF Restart, hub, HistoryInv, Reported
  <2>4. CASE ReceiveFails
    BY <2>4 DEF ReceiveFails, hub, HistoryInv, Reported
  <2>5. QED BY <2>1, <2>2, <2>3, <2>4 DEF Feedback
<1>3. Grows /\ Deserved'
  BY <1>1, <1>2, WriterKinds
     DEF Feedback, ReceiveBatch, ReceiveFails, CompleteBatch, Restart, hub, device, Grows, HistoryInv, Deserved, TypeOK
<1>4. QED BY <1>1, <1>2, <1>3, DocUntouched
          DEF Feedback, ReceiveBatch, ReceiveFails, CompleteBatch, Restart, Stays

-----------------------------------------------------------------------------
(* The invariant *)

LEMMA HistoryInit == Init => HistoryInv
<1> SUFFICES ASSUME Init PROVE HistoryInv
  OBVIOUS
<1>1. TypeOK
  BY TypeInit
<1>2. Deliverable
  BY CommandsAssumption DEF Init, Deliverable
<1>3. Unsent
  BY CopyOf DEF Init, Unsent
<1>4. Reported
  BY WriterKinds DEF Init, Reported
<1>5. Deserved
  BY DEF Init, Deserved
<1>6. DocTrue
  BY DEF Init, Empty, DocTrue, EntryTrue
<1>7. ASSUME NEW w \in Writers PROVE ViewTrue(w)
  BY DEF Init, ViewTrue
<1>8. QED BY <1>1, <1>2, <1>3, <1>4, <1>5, <1>6, <1>7 DEF HistoryInv, QueueInv

LEMMA HistoryStutter == ASSUME HistoryInv, UNCHANGED vars PROVE HistoryInv'
<1>1. UNCHANGED <<history, pc, view, attempt, queue, deliveries, loop, cur, handled,
                  feedback, processor, failures, edits, current, overlap, early>>
  BY DEF vars, hub, device, ghosts
<1>2. QueueInv'
  BY <1>1 DEF HistoryInv, QueueInv, TypeOK, Deliverable, Unsent
<1>3. Reported' /\ Deserved' /\ Grows
  BY <1>1 DEF HistoryInv, QueueInv, TypeOK, Reported, Deserved, Grows
<1>4. QED BY <1>1, <1>2, <1>3, DocUntouched DEF Stays

LEMMA HistoryNext == HistoryInv /\ [Next]_vars => HistoryInv'
<1> SUFFICES ASSUME HistoryInv, [Next]_vars PROVE HistoryInv'
  OBVIOUS
<1>1. ASSUME NEW c \in Commands, Request(c) PROVE HistoryInv'
  BY <1>1, SendReadHistory, SendMessageHistory, CloseDeviceHistory, InvokeMethodHistory,
     SendSaveHistory DEF Request
<1>2. ASSUME NEW m \in Copies, LockExpires(m) \/ Expires(m) \/ Task(m) PROVE HistoryInv'
  BY <1>2, LockExpiresHistory, ExpiresHistory, FeedbackReadHistory, FeedbackSaveHistory DEF Task
<1>3. CASE Device
  BY <1>3, HandleHistory, SignalHistory, ReceiveHistory DEF Device
<1>4. CASE Feedback \/ ReceiveFails
  BY <1>4, BatchHistory
<1>5. CASE ProcessStops
  BY <1>5, ProcessStopsHistory
<1>6. ASSUME NEW e \in Editors, EditRead(e) \/ EditSave(e) PROVE HistoryInv'
  BY <1>6, EditReadHistory, EditSaveHistory
<1>7. CASE UNCHANGED vars
  BY <1>7, HistoryStutter
<1>8. QED BY <1>1, <1>2, <1>3, <1>4, <1>5, <1>6, <1>7 DEF Next

LEMMA HistoryAlways == Spec => []HistoryInv
BY HistoryInit, HistoryNext, PTL DEF Spec

LEMMA HistoryImplies == HistoryInv => TypeOK /\ HistoryIsTrue
BY DEF HistoryInv, QueueInv, DocTrue, EntryTrue, HistoryIsTrue

(* Every variable keeps its type; attempts and deliveries keep their bounds. *)
THEOREM CommandsTypeCorrect == Spec => []TypeOK
BY HistoryAlways, HistoryImplies, PTL

(* The history in the document is true, for any number of requests, editors *)
(* and failures: no stale copy, duplicate or redelivery enters a result that *)
(* the hub did not report for the command, or a success that was not earned. *)
THEOREM HistoryTrueAlways == Spec => []HistoryIsTrue
BY HistoryAlways, HistoryImplies, PTL

-----------------------------------------------------------------------------
(* Results stand: a writer whose copy is of the present document knows every *)
(* result in it                                                              *)

Knows(w) == \A c \in Commands : history[c] \in Outcomes => view[w][c] \in Outcomes

Fresh == \A w \in Writers :
           w \in current /\ pc[w] \in {"send", "close", "save"} => Knows(w)

StandInv == HistoryInv /\ Fresh

\* a writer that keeps its copy, and one that takes the document's results over
Known(w) ==
    \/ /\ view'[w] = view[w]
       /\ w \in current' => w \in current
       /\ pc'[w] \in {"send", "close", "save"} => pc[w] \in {"send", "close", "save"}
    \/ pc'[w] \notin {"send", "close", "save"}
    \/ \A c \in Commands : history[c] \in Outcomes => view'[w][c] \in Outcomes

LEMMA KnownFresh ==
    ASSUME Fresh, UNCHANGED history, \A w \in Writers : Known(w)
    PROVE  Fresh'
BY DEF Fresh, Knows, Known

LEMMA WriteFresh == ASSUME NEW w \in Writers, Write(w) PROVE Fresh'
BY DEF Write, Fresh

LEMMA ReadKnown ==
    ASSUME TypeOK, NEW w \in Writers, NEW h \in Histories, Read(w, h),
           \A v \in Writers : v # w => pc'[v] = pc[v],
           \A c \in Commands : history[c] \in Outcomes => h[c] \in Outcomes
    PROVE  \A v \in Writers : Known(v)
<1>1. view'[w] = h /\ \A v \in Writers : v # w => view'[v] = view[v]
  BY DEF Read, TypeOK
<1>2. \A v \in Writers : v # w => (v \in current' => v \in current)
  BY DEF Read
<1>3. QED BY <1>1, <1>2 DEF Known

LEMMA SaveFresh ==
    ASSUME StandInv, NEW w \in Writers, Saved(w) \/ SaveFails(w), Drop(w),
           pc'[w] \in {"ok", "failed"},
           \A v \in Writers : v # w => pc'[v] = pc[v] \/ pc'[v] = "failed"
    PROVE  Fresh'
<1>1. CASE Write(w)
  BY <1>1, WriteFresh
<1>2. CASE NoWrite(w)
  <2>1. \A v \in Writers : v # w => view'[v] = view[v]
    BY DEF StandInv, HistoryInv, QueueInv, TypeOK, Drop
  <2>2. \A v \in Writers : Known(v)
    BY <1>2, <2>1 DEF NoWrite, Known
  <2>3. QED BY <1>2, <2>2, KnownFresh DEF NoWrite, StandInv
<1>3. QED BY <1>1, <1>2 DEF Saved, SaveFails

LEMMA SendReadFresh == ASSUME StandInv, NEW c \in Commands, SendRead(c) PROVE Fresh'
<1>1. TypeOK /\ c \in Writers
  BY WriterKinds DEF StandInv, HistoryInv, QueueInv
<1>2. \A v \in Writers : v # c => pc'[v] = pc[v]
  BY <1>1, GotoKeeps DEF SendRead
<1>3. CASE Read(c, [history EXCEPT ![c] = "pending"])
  <2>1. [history EXCEPT ![c] = "pending"] \in Histories
    BY <1>1, EntryType DEF TypeOK, Entries
  <2>2. history[c] \notin Outcomes
    BY DEF SendRead, StandInv, HistoryInv, DocTrue, EntryTrue, Outcomes
  <2>3. \A d \in Commands : history[d] \in Outcomes =>
          [history EXCEPT ![c] = "pending"][d] \in Outcomes
    BY <1>1, <2>2 DEF TypeOK, Histories
  <2>4. QED BY <1>1, <1>2, <1>3, <2>1, <2>3, ReadKnown, KnownFresh DEF SendRead, StandInv
<1>4. CASE UNCHANGED <<view, current>> /\ Goto(c, "failed")
  <2>1. pc'[c] = "failed"
    BY <1>1, <1>4, GotoKeeps
  <2>2. \A v \in Writers : Known(v)
    BY <1>2, <1>4, <2>1 DEF Known
  <2>3. QED BY <2>2, KnownFresh DEF SendRead, StandInv
<1>5. QED BY <1>3, <1>4 DEF SendRead

LEMMA SendMessageFresh == ASSUME StandInv, NEW c \in Commands, SendMessage(c) PROVE Fresh'
<1>1. pc[c] = "send" /\ TypeOK /\ c \in Writers
  BY WriterKinds DEF SendMessage, StandInv, HistoryInv, QueueInv
<1>2. \A v \in Writers : v # c => pc'[v] = pc[v]
  BY <1>1, GotoKeeps DEF SendMessage, Again
<1>3. \A v \in Writers : Known(v)
  BY <1>1, <1>2 DEF SendMessage, ghosts, Known
<1>4. QED BY <1>3, KnownFresh DEF SendMessage, StandInv

LEMMA CloseDeviceFresh == ASSUME StandInv, NEW c \in Commands, CloseDevice(c) PROVE Fresh'
<1>1. pc[c] = "close" /\ TypeOK /\ c \in Writers
  BY WriterKinds DEF CloseDevice, StandInv, HistoryInv, QueueInv
<1>2. \A v \in Writers : v # c => pc'[v] = pc[v]
  BY <1>1, GotoKeeps DEF CloseDevice
<1>3. \A v \in Writers : Known(v)
  BY <1>1, <1>2 DEF CloseDevice, ghosts, Known
<1>4. QED BY <1>3, KnownFresh DEF CloseDevice, StandInv

LEMMA InvokeMethodFresh == ASSUME StandInv, NEW c \in Commands, InvokeMethod(c) PROVE Fresh'
<1>1. pc[c] = "send" /\ TypeOK /\ c \in Writers
  BY WriterKinds DEF InvokeMethod, StandInv, HistoryInv, QueueInv
<1>2. \A v \in Writers : v # c => pc'[v] = pc[v]
  BY <1>1, GotoKeeps DEF InvokeMethod, Again
<1>3. /\ \A v \in Writers : v # c => view'[v] = view[v]
      /\ \A d \in Commands : d # c => view'[c][d] = view[c][d]
  BY <1>1 DEF InvokeMethod, TypeOK, Histories
<1>4. view[c][c] = "pending"
  BY <1>1 DEF StandInv, HistoryInv, ViewTrue
<1>5. Fresh'
  <2> SUFFICES ASSUME NEW v \in Writers, v \in current', pc'[v] \in {"send", "close", "save"},
                      NEW d \in Commands, history'[d] \in Outcomes
               PROVE  view'[v][d] \in Outcomes
    BY DEF Fresh, Knows
  <2>1. v \in current /\ history[d] \in Outcomes /\ pc[v] \in {"send", "close", "save"}
    BY <1>1, <1>2 DEF InvokeMethod, ghosts
  <2>2. view[v][d] \in Outcomes
    BY <2>1 DEF StandInv, Fresh, Knows
  <2>3. ~(v = c /\ d = c)
    BY <1>4, <2>2 DEF Outcomes
  <2>4. QED BY <1>3, <2>2, <2>3
<1>6. QED BY <1>5

LEMMA RequestFresh == ASSUME StandInv, NEW c \in Commands, Request(c) PROVE Fresh'
<1>1. TypeOK /\ c \in Writers
  BY WriterKinds DEF StandInv, HistoryInv, QueueInv
<1>2. ASSUME SendSave(c) PROVE Fresh'
  <2>1. pc'[c] \in {"ok", "failed"} /\ \A v \in Writers : v # c => pc'[v] = pc[v]
    BY <1>1, <1>2, GotoKeeps DEF SendSave, Saved
  <2>2. QED BY <1>1, <1>2, <2>1, SaveFresh DEF SendSave
<1>3. QED BY <1>2, SendReadFresh, SendMessageFresh, CloseDeviceFresh, InvokeMethodFresh DEF Request

LEMMA EditFresh == ASSUME StandInv, NEW e \in Editors, EditRead(e) \/ EditSave(e) PROVE Fresh'
<1>1. TypeOK /\ e \in Writers /\ history \in Histories
  BY WriterKinds DEF StandInv, HistoryInv, QueueInv, TypeOK
<1>2. ASSUME EditRead(e) PROVE Fresh'
  <2>1. \A v \in Writers : v # e => pc'[v] = pc[v]
    BY <1>1, <1>2, GotoKeeps DEF EditRead
  <2>2. QED BY <1>1, <1>2, <2>1, ReadKnown, KnownFresh DEF EditRead, StandInv
<1>3. ASSUME EditSave(e) PROVE Fresh'
  <2>1. pc'[e] \in {"ok", "failed"} /\ \A v \in Writers : v # e => pc'[v] = pc[v]
    BY <1>1, <1>3, GotoKeeps DEF EditSave, Saved
  <2>2. QED BY <1>1, <1>3, <2>1, SaveFresh DEF EditSave
<1>4. QED BY <1>2, <1>3

LEMMA GoDownKnown ==
    ASSUME StandInv, GoDown, UNCHANGED <<view, current>> PROVE \A w \in Writers : Known(w)
<1>1. \A w \in Writers : pc'[w] = pc[w] \/ pc'[w] = "failed"
  BY DEF GoDown
<1>2. QED BY <1>1 DEF Known

LEMMA TaskFresh == ASSUME StandInv, NEW m \in Copies, Task(m) PROVE Fresh'
<1>1. TypeOK /\ m \in Writers
  BY WriterKinds DEF StandInv, HistoryInv, QueueInv
<1>2. ASSUME FeedbackRead(m) PROVE Fresh'
  <2>1. CASE GoDown /\ UNCHANGED <<view, current>>
    BY <1>2, <2>1, GoDownKnown, KnownFresh DEF FeedbackRead, StandInv
  <2>2. CASE Goto(m, "ok") /\ UNCHANGED <<view, current>>
    <3>1. pc'[m] = "ok" /\ \A v \in Writers : v # m => pc'[v] = pc[v]
      BY <1>1, <2>2, GotoKeeps
    <3>2. \A v \in Writers : Known(v)
      BY <2>2, <3>1 DEF Known
    <3>3. QED BY <1>2, <3>2, KnownFresh DEF FeedbackRead, StandInv
  <2>3. CASE Goto(m, "save") /\ Read(m, Entered(m))
    <3>1. \A v \in Writers : v # m => pc'[v] = pc[v]
      BY <1>1, <2>3, GotoKeeps
    <3>2. queue[m] \in Outcomes
      BY <1>2 DEF FeedbackRead, StandInv, HistoryInv, Reported
    <3>3. m[1] \in Commands /\ queue[m] \in Entries
      BY <3>2, CopyParts DEF Entries
    <3>4. Entered(m) \in Histories
      BY <1>1, <3>3, EntryType DEF Entered, TypeOK
    <3>5. \A c \in Commands : history[c] \in Outcomes => Entered(m)[c] \in Outcomes
      BY <1>1, <3>2, <3>3 DEF Entered, TypeOK, Histories
    <3>6. QED BY <1>1, <1>2, <2>3, <3>1, <3>4, <3>5, ReadKnown, KnownFresh DEF FeedbackRead, StandInv
  <2>4. QED BY <1>2, <2>1, <2>2, <2>3 DEF FeedbackRead
<1>3. ASSUME FeedbackSave(m) PROVE Fresh'
  <2>1. /\ pc'[m] \in {"ok", "failed"}
        /\ \A v \in Writers : v # m => pc'[v] = pc[v] \/ pc'[v] = "failed"
    <3>1. CASE Goto(m, "ok")
      BY <1>1, <3>1, GotoKeeps
    <3>2. CASE GoDown
      BY <1>1, <1>3, <3>2, WriterKinds DEF FeedbackSave, GoDown
    <3>3. QED BY <1>3, <3>1, <3>2 DEF FeedbackSave, Saved
  <2>2. QED BY <1>1, <1>3, <2>1, SaveFresh DEF FeedbackSave
<1>4. QED BY <1>2, <1>3 DEF Task

\* what changes neither a copy nor which copies are of the present document
LEMMA OthersFresh ==
    ASSUME StandInv, UNCHANGED <<history, view, ghosts>>,
           \A w \in Writers : pc'[w] = pc[w] \/ pc'[w] \in {"read", "failed"}
    PROVE  Fresh'
<1>1. \A w \in Writers : Known(w)
  BY DEF Known, ghosts
<1>2. QED BY <1>1, KnownFresh DEF StandInv

LEMMA StandNext == StandInv /\ [Next]_vars => StandInv'
<1> SUFFICES ASSUME StandInv, [Next]_vars PROVE Fresh'
  BY HistoryNext DEF StandInv
<1>1. ASSUME NEW m \in Copies, LockExpires(m) \/ Expires(m) PROVE Fresh'
  BY <1>1, OthersFresh DEF LockExpires, Expires
<1>2. CASE Device
  BY <1>2, OthersFresh DEF Device, Handle, Signal, Receive
<1>3. CASE Feedback \/ ReceiveFails
  <2>1. \A w \in Writers : pc'[w] = pc[w] \/ pc'[w] \in {"read", "failed"}
    BY <1>3 DEF Feedback, ReceiveBatch, ReceiveFails, CompleteBatch, Restart
  <2>2. QED BY <1>3, <2>1, OthersFresh DEF Feedback, ReceiveBatch, ReceiveFails, CompleteBatch, Restart
<1>4. CASE ProcessStops
  BY <1>4, OthersFresh DEF ProcessStops, GoDown
<1>5. CASE UNCHANGED vars
  BY <1>5, OthersFresh DEF vars
<1>6. QED BY <1>1, <1>2, <1>3, <1>4, <1>5, RequestFresh, TaskFresh, EditFresh DEF Next

LEMMA StandInit == Init => StandInv
BY HistoryInit DEF Init, StandInv, Fresh

\* what a save does to a result
LEMMA SaveStands ==
    ASSUME StandInv, NEW w \in Writers, pc[w] = "save", Saved(w) \/ SaveFails(w),
           NEW c \in Commands, history[c] \in Outcomes, history'[c] # history[c]
    PROVE  overlap' \/ history'[c] \in Outcomes
BY DEF StandInv, Fresh, Knows, Saved, SaveFails, Write, NoWrite

(* Without a writer over a newer document a result in the history stays, for *)
(* any number of requests, feedback tasks and editors.                       *)
THEOREM ResultsStandAlways == Spec => ResultsStand
<1>1. StandInv /\ [Next]_vars =>
        [\A c \in Commands : history[c] \in Outcomes /\ history'[c] # history[c]
           => overlap' \/ history'[c] \in Outcomes]_vars
  <2> SUFFICES ASSUME StandInv, Next,
                      NEW c \in Commands, history[c] \in Outcomes, history'[c] # history[c]
               PROVE  overlap' \/ history'[c] \in Outcomes
    OBVIOUS
  <2>1. PICK w \in Writers : pc[w] = "save" /\ (Saved(w) \/ SaveFails(w))
    BY WriterKinds
       DEF Next, Request, SendRead, SendMessage, CloseDevice, InvokeMethod, SendSave,
           LockExpires, Expires, Task, FeedbackRead, FeedbackSave, Device, Receive, Handle,
           Signal, Feedback, ReceiveBatch, ReceiveFails, CompleteBatch, Restart, ProcessStops, EditRead, EditSave
  <2>2. QED BY <2>1, SaveStands
<1>2. QED BY <1>1, StandInit, StandNext, PTL DEF Spec, ResultsStand

-----------------------------------------------------------------------------
(* Every execution of a command is paid for *)

\* the device may still be given the copy, or carry it out
Open(m) ==
    \/ queue[m] = "queued"
    \/ queue[m] = "locked" /\ ~(loop = "complete" /\ cur = m)
Opened(c) == {n \in 0 .. RETRY_COUNT : <<c, n>> \in Copies /\ Open(<<c, n>>)}

\* the request may still send it; the device works on a copy whose lock ran out
ToSend(c) == IF pc[c] \in {"idle", "send"} THEN 1 ELSE 0
Stray(c)  == IF loop = "handle" /\ cur[1] = c /\ queue[cur] # "locked" THEN 1 ELSE 0

\* what was carried out, and what still may be
Paid == \A c \in Commands :
    handled[c] + Cardinality(Opened(c)) + ToSend(c) + Stray(c) <= 1 + failures

LEMMA CountType ==
    ASSUME NEW S \in SUBSET (0 .. RETRY_COUNT)
    PROVE  IsFiniteSet(S) /\ Cardinality(S) \in Nat
<1>1. RETRY_COUNT \in Int /\ 0 \in Int
  BY CommandsAssumption
<1>2. IsFiniteSet(0 .. RETRY_COUNT)
  BY <1>1, FS_Interval
<1>3. IsFiniteSet(S)
  BY <1>2, FS_Subset
<1>4. QED BY <1>3, FS_CardinalityType

LEMMA CountLess ==
    ASSUME NEW S \in SUBSET (0 .. RETRY_COUNT), NEW T \in SUBSET (0 .. RETRY_COUNT), NEW n
    PROVE  /\ T \subseteq S => Cardinality(T) <= Cardinality(S)
           /\ T \subseteq S \union {n} => Cardinality(T) <= Cardinality(S) + 1
           /\ n \in S /\ T \subseteq S \ {n} => Cardinality(T) <= Cardinality(S) - 1
<1>1. /\ IsFiniteSet(S) /\ IsFiniteSet(T)
      /\ Cardinality(S) \in Nat /\ Cardinality(T) \in Nat
  BY CountType
<1>2. T \subseteq S => Cardinality(T) <= Cardinality(S)
  BY <1>1, FS_Subset
<1>3. ASSUME T \subseteq S \union {n} PROVE Cardinality(T) <= Cardinality(S) + 1
  <2>1. /\ IsFiniteSet(S \union {n})
        /\ Cardinality(S \union {n}) \in {Cardinality(S), Cardinality(S) + 1}
    BY <1>1, FS_AddElement
  <2>2. Cardinality(T) <= Cardinality(S \union {n})
    BY <1>3, <2>1, FS_Subset
  <2>3. QED BY <1>1, <2>1, <2>2
<1>4. ASSUME n \in S, T \subseteq S \ {n} PROVE Cardinality(T) <= Cardinality(S) - 1
  <2>1. IsFiniteSet(S \ {n}) /\ Cardinality(S \ {n}) = Cardinality(S) - 1
    BY <1>1, <1>4, FS_RemoveElement
  <2>2. Cardinality(T) <= Cardinality(S \ {n})
    BY <1>4, <2>1, FS_Subset
  <2>3. QED BY <2>1, <2>2
<1>5. QED BY <1>2, <1>3, <1>4

\* a step that opens or closes one copy
LEMMA OpenedCount ==
    ASSUME NEW m \in Copies, \A k \in Copies \ {m} : Open(k)' => Open(k), NEW c \in Commands
    PROVE  /\ Cardinality(Opened(c)) \in Nat /\ Cardinality(Opened(c))' \in Nat
           /\ c # m[1] \/ (Open(m)' => Open(m)) => Cardinality(Opened(c))' <= Cardinality(Opened(c))
           /\ Cardinality(Opened(c))' <= Cardinality(Opened(c)) + 1
           /\ c = m[1] /\ Open(m) /\ ~Open(m)' => Cardinality(Opened(c))' <= Cardinality(Opened(c)) - 1
<1> DEFINE S == Opened(c)
           T == Opened(c)'
<1>1. S \in SUBSET (0 .. RETRY_COUNT) /\ T \in SUBSET (0 .. RETRY_COUNT)
  BY DEF Opened
<1>2. m[2] \in 0 .. RETRY_COUNT /\ m = <<m[1], m[2]>>
  BY CopyParts
<1>3. \A n \in T : n \in S \/ <<c, n>> = m
  BY DEF Opened
<1>4. \A n \in T : <<c, n>> = m => Open(m)' /\ c = m[1] /\ n = m[2]
  BY DEF Opened
<1>5. \A n \in S : <<c, n>> = m => Open(m)
  BY DEF Opened
<1>6. T \subseteq S \union {m[2]}
  BY <1>3, <1>4
<1>7. c # m[1] \/ ~Open(m)' => T \subseteq S
  BY <1>3, <1>4
<1>8. Open(m) => (c = m[1] => m[2] \in S)
  BY <1>2 DEF Opened
<1>9. (Open(m)' => Open(m)) => T \subseteq S
  BY <1>3, <1>4, <1>8
<1>10. c = m[1] /\ Open(m) /\ ~Open(m)' => m[2] \in S /\ T \subseteq S \ {m[2]}
  <2>1. c = m[1] /\ ~Open(m)' => m[2] \notin T
    BY <1>2 DEF Opened
  <2>2. QED BY <1>7, <1>8, <2>1
<1>11. Cardinality(S) \in Nat /\ Cardinality(T) \in Nat
  BY <1>1, CountType
<1> HIDE DEF S, T
<1>12. /\ c # m[1] \/ (Open(m)' => Open(m)) => Cardinality(T) <= Cardinality(S)
       /\ Cardinality(T) <= Cardinality(S) + 1
       /\ c = m[1] /\ Open(m) /\ ~Open(m)' => Cardinality(T) <= Cardinality(S) - 1
  BY <1>1, <1>6, <1>7, <1>9, <1>10, CountLess
<1>13. QED BY <1>11, <1>12 DEF S, T

LEMMA PaidParts ==
    ASSUME TypeOK, Paid, NEW c \in Commands
    PROVE  /\ handled[c] \in Nat /\ failures \in Nat
           /\ ToSend(c) \in {0, 1} /\ ToSend(c)' \in {0, 1}
           /\ Stray(c) \in {0, 1} /\ Stray(c)' \in {0, 1}
           /\ handled[c] + Cardinality(Opened(c)) + ToSend(c) + Stray(c) <= 1 + failures
BY DEF TypeOK, Paid, ToSend, Stray

LEMMA PaidQuiet ==
    ASSUME TypeOK, Paid, UNCHANGED <<queue, loop, cur, handled>>, Forward,
           failures' \in {failures, failures + 1}
    PROVE  Paid'
<1> SUFFICES ASSUME NEW c \in Commands
             PROVE  handled'[c] + Cardinality(Opened(c))' + ToSend(c)' + Stray(c)' <= 1 + failures'
  BY DEF Paid
<1>1. Opened(c)' = Opened(c) /\ Stray(c)' = Stray(c)
  BY DEF Opened, Open, Stray
<1>2. ToSend(c)' <= ToSend(c)
  BY DEF ToSend, Forward
<1>3. Cardinality(Opened(c))' = Cardinality(Opened(c)) /\ Cardinality(Opened(c)) \in Nat
  BY <1>1, CountType DEF Opened
<1>4. QED BY <1>1, <1>2, <1>3, PaidParts

LEMMA LockExpiresPaid == ASSUME TypeOK, Paid, NEW m \in Copies, LockExpires(m) PROVE Paid'
<1> SUFFICES ASSUME NEW c \in Commands
             PROVE  handled'[c] + Cardinality(Opened(c))' + ToSend(c)' + Stray(c)' <= 1 + failures'
  BY DEF Paid
<1>1. /\ queue[m] = "locked" /\ queue'[m] # "locked"
      /\ \A k \in Copies \ {m} : queue'[k] = queue[k]
      /\ UNCHANGED <<loop, cur, handled, pc>>
  BY DEF LockExpires, Requeue, Settle, TypeOK, device
<1>2. \A k \in Copies \ {m} : Open(k)' => Open(k)
  BY <1>1 DEF Open
<1>3. ToSend(c)' = ToSend(c)
  BY <1>1 DEF ToSend
<1>4. CASE m # cur
  <2>1. Open(m) /\ failures' = failures
    BY <1>1, <1>4 DEF Open, LockExpires, NoFailure
  <2>2. Stray(c)' = Stray(c)
    BY <1>1, <1>4 DEF Stray, TypeOK
  <2>3. QED BY <1>1, <1>2, <1>3, <2>1, <2>2, OpenedCount, PaidParts
<1>5. CASE m = cur /\ loop = "complete"
  <2>1. failures' = failures + 1
    BY <1>5 DEF LockExpires, Fails
  <2>2. Stray(c)' = 0 /\ Stray(c) = 0
    BY <1>1, <1>5 DEF Stray
  <2>3. QED BY <1>1, <1>2, <1>3, <2>1, <2>2, OpenedCount, PaidParts
<1>6. CASE m = cur /\ loop # "complete"
  <2>1. Open(m) /\ failures' = failures + 1
    BY <1>1, <1>6 DEF Open, LockExpires, Fails
  <2>2. QED BY <1>1, <1>2, <1>3, <2>1, OpenedCount, PaidParts
<1>7. QED BY <1>4, <1>5, <1>6

LEMMA ExpiresPaid == ASSUME TypeOK, Paid, NEW m \in Copies, Expires(m) PROVE Paid'
<1> SUFFICES ASSUME NEW c \in Commands
             PROVE  handled'[c] + Cardinality(Opened(c))' + ToSend(c)' + Stray(c)' <= 1 + failures'
  BY DEF Paid
<1>1. /\ Open(m) /\ failures' = failures + 1
      /\ \A k \in Copies \ {m} : queue'[k] = queue[k]
      /\ UNCHANGED <<loop, cur, handled, pc>>
  BY DEF Expires, Settle, TypeOK, device, Open, Fails
<1>2. \A k \in Copies \ {m} : Open(k)' => Open(k)
  BY <1>1 DEF Open
<1>3. ToSend(c)' = ToSend(c)
  BY <1>1 DEF ToSend
<1>4. QED BY <1>1, <1>2, <1>3, OpenedCount, PaidParts

LEMMA ReceivePaid == ASSUME TypeOK, Paid, NEW m \in Copies, Receive(m) PROVE Paid'
<1> SUFFICES ASSUME NEW c \in Commands
             PROVE  handled'[c] + Cardinality(Opened(c))' + ToSend(c)' + Stray(c)' <= 1 + failures'
  BY DEF Paid
<1>1. /\ loop = "receive" /\ queue'[m] = "locked" /\ cur' = m
      /\ \A k \in Copies \ {m} : queue'[k] = queue[k]
      /\ UNCHANGED <<handled, pc, failures>>
  BY DEF Receive, TypeOK
<1>2. Open(m) /\ \A k \in Copies \ {m} : Open(k)' => Open(k)
  BY <1>1 DEF Open, Receive
<1>3. ToSend(c)' = ToSend(c) /\ Stray(c)' = 0
  BY <1>1 DEF ToSend, Stray
<1>4. QED BY <1>1, <1>2, <1>3, OpenedCount, PaidParts

LEMMA HandlePaid == ASSUME TypeOK, Paid, Handle PROVE Paid'
<1> SUFFICES ASSUME NEW c \in Commands
             PROVE  handled'[c] + Cardinality(Opened(c))' + ToSend(c)' + Stray(c)' <= 1 + failures'
  BY DEF Paid
<1>1. /\ loop = "handle" /\ loop' # "handle" /\ cur \in Copies /\ cur[1] \in Commands
      /\ UNCHANGED <<queue, cur, pc, failures>>
  BY CopyParts DEF Handle, TypeOK, hub
<1>2. \A k \in Copies : Open(k)' => Open(k)
  BY <1>1 DEF Open
<1>3. ToSend(c)' = ToSend(c) /\ Stray(c)' = 0
  BY <1>1 DEF ToSend, Stray
<1>4. CASE handled'[c] = handled[c]
  BY <1>1, <1>2, <1>3, <1>4, OpenedCount, PaidParts
<1>5. CASE handled'[c] # handled[c]
  <2>1. loop' = "complete" /\ c = cur[1] /\ handled'[c] = handled[c] + 1
    BY <1>1, <1>5 DEF Handle, TypeOK
  <2>2. CASE queue[cur] = "locked"
    <3>1. Open(cur) /\ ~Open(cur)'
      BY <1>1, <2>1, <2>2 DEF Open
    <3>2. QED BY <1>1, <1>2, <1>3, <2>1, <3>1, OpenedCount, PaidParts
  <2>3. CASE queue[cur] # "locked"
    <3>1. Stray(c) = 1
      BY <1>1, <2>1, <2>3 DEF Stray
    <3>2. QED BY <1>1, <1>2, <1>3, <2>1, <3>1, OpenedCount, PaidParts
  <2>4. QED BY <2>2, <2>3
<1>6. QED BY <1>4, <1>5

LEMMA SignalPaid == ASSUME TypeOK, Paid, Signal PROVE Paid'
<1> SUFFICES ASSUME NEW c \in Commands
             PROVE  handled'[c] + Cardinality(Opened(c))' + ToSend(c)' + Stray(c)' <= 1 + failures'
  BY DEF Paid
<1>1. /\ loop \in {"complete", "reject", "abandon"} /\ loop' = "receive" /\ cur \in Copies
      /\ UNCHANGED <<handled, pc>>
  BY DEF Signal, TypeOK
<1>0. PICK m \in Copies : m = cur
  BY <1>1
<1>2. \A k \in Copies \ {m} : queue'[k] = queue[k]
  BY <1>0, <1>1 DEF Signal, Answer, Requeue, Settle, TypeOK
<1>3. \A k \in Copies \ {m} : Open(k)' => Open(k)
  BY <1>0, <1>1, <1>2 DEF Open
<1>4. ToSend(c)' = ToSend(c) /\ Stray(c)' = 0
  BY <1>1 DEF ToSend, Stray
<1>5. CASE Taken /\ Answer /\ NoFailure
  <2>1. Open(m)' => Open(m)
    <3>1. CASE loop = "abandon"
      BY <1>0, <1>5, <3>1 DEF Taken, Open
    <3>2. CASE loop # "abandon"
      BY <1>0, <1>1, <1>5, <3>2 DEF Answer, Settle, TypeOK, Open
    <3>3. QED BY <3>1, <3>2
  <2>2. failures' = failures
    BY <1>5 DEF NoFailure
  <2>3. QED BY <1>1, <1>3, <1>4, <2>1, <2>2, OpenedCount, PaidParts
<1>6. CASE Fails("signal")
  <2>1. failures' = failures + 1
    BY <1>6 DEF Fails
  <2>2. QED BY <1>1, <1>3, <1>4, <2>1, OpenedCount, PaidParts
<1>7. CASE ~Taken /\ NoFailure /\ UNCHANGED queue
  <2>1. Open(m)' => Open(m)
    BY <1>0, <1>1, <1>7 DEF Taken, Open
  <2>2. failures' = failures
    BY <1>7 DEF NoFailure
  <2>3. QED BY <1>1, <1>3, <1>4, <2>1, <2>2, OpenedCount, PaidParts
<1>8. QED BY <1>5, <1>6, <1>7 DEF Signal

LEMMA SendMessagePaid == ASSUME QueueInv, Paid, NEW d \in Commands, SendMessage(d) PROVE Paid'
<1> SUFFICES ASSUME NEW c \in Commands
             PROVE  handled'[c] + Cardinality(Opened(c))' + ToSend(c)' + Stray(c)' <= 1 + failures'
  BY DEF Paid
<1>1. /\ TypeOK /\ d \in Writers /\ c \in Writers
      /\ pc[d] = "send" /\ UNCHANGED <<loop, cur, handled>>
      /\ d \notin Methods
  BY WriterKinds DEF QueueInv, SendMessage, device
<1>2. d # c => pc'[c] = pc[c]
  BY <1>1 DEF SendMessage, Goto, Again, TypeOK
<1>3. PICK m \in Copies : m = <<d, attempt[d]>> /\ queue[m] = "none"
  <2>1. attempt[d] \in 0 .. RETRY_COUNT
    BY <1>1 DEF TypeOK
  <2>2. attempt[d] >= attempt[d]
    BY <2>1
  <2>3. QED BY <1>1, <2>1, <2>2, CopyOf DEF QueueInv, Unsent
<1>4. Enqueue(d) \/ UNCHANGED queue
  BY DEF SendMessage
<1>5. \A k \in Copies \ {m} : queue'[k] = queue[k]
  BY <1>1, <1>3, <1>4 DEF Enqueue, TypeOK
<1>6. \A k \in Copies \ {m} : Open(k)' => Open(k)
  BY <1>1, <1>5 DEF Open
<1>7. Stray(c)' <= Stray(c)
  BY <1>1, <1>3, <1>5 DEF Stray, TypeOK
<1>8. ToSend(c)' <= ToSend(c)
  BY <1>1, <1>2 DEF ToSend
<1>9. CASE c # d
  <2>1. failures' \in {failures, failures + 1} /\ c # m[1]
    BY <1>3, <1>9 DEF SendMessage, NoFailure, Fails
  <2>2. QED BY <1>1, <1>6, <1>7, <1>8, <2>1, OpenedCount, PaidParts
<1>10. CASE c = d /\ Goto(d, "close") /\ NoFailure
  <2>1. ToSend(c)' = 0 /\ ToSend(c) = 1 /\ failures' = failures
    BY <1>1, <1>10 DEF ToSend, Goto, NoFailure, TypeOK
  <2>2. QED BY <1>1, <1>6, <1>7, <2>1, OpenedCount, PaidParts
<1>11. CASE c = d /\ (Fails("send") \/ Fails("lost"))
  <2>1. failures' = failures + 1
    BY <1>11 DEF Fails
  <2>2. QED BY <1>1, <1>6, <1>7, <1>8, <2>1, OpenedCount, PaidParts
<1>12. QED BY <1>9, <1>10, <1>11 DEF SendMessage

LEMMA InvokeMethodPaid == ASSUME TypeOK, Paid, NEW d \in Commands, InvokeMethod(d) PROVE Paid'
<1> SUFFICES ASSUME NEW c \in Commands
             PROVE  handled'[c] + Cardinality(Opened(c))' + ToSend(c)' + Stray(c)' <= 1 + failures'
  BY DEF Paid
<1>1. /\ d \in Writers /\ c \in Writers
      /\ pc[d] = "send" /\ UNCHANGED <<queue, loop, cur>>
  BY WriterKinds DEF InvokeMethod, hub
<1>2. Opened(c)' = Opened(c) /\ Stray(c)' = Stray(c)
  BY <1>1 DEF Opened, Open, Stray
<1>3. Cardinality(Opened(c))' = Cardinality(Opened(c)) /\ Cardinality(Opened(c)) \in Nat
  BY <1>2, CountType DEF Opened
<1>4. d # c => pc'[c] = pc[c] /\ handled'[c] = handled[c]
  BY <1>1 DEF InvokeMethod, Goto, Again, TypeOK
<1>5. ToSend(c)' <= ToSend(c)
  BY <1>1, <1>4 DEF ToSend
<1>6. handled'[c] \in {handled[c], handled[c] + 1}
  BY <1>1 DEF InvokeMethod, TypeOK
<1>7. CASE c # d
  <2>1. failures' \in {failures, failures + 1}
    BY DEF InvokeMethod, NoFailure, Fails
  <2>2. QED BY <1>2, <1>3, <1>4, <1>5, <1>7, <2>1, PaidParts
<1>8. CASE c = d /\ Goto(d, "save") /\ NoFailure
  <2>1. ToSend(c)' = 0 /\ ToSend(c) = 1 /\ failures' = failures
    BY <1>1, <1>8 DEF ToSend, Goto, NoFailure, TypeOK
  <2>2. QED BY <1>2, <1>3, <1>6, <2>1, PaidParts
<1>9. CASE c = d /\ (Fails("send") \/ Fails("lost"))
  <2>1. failures' = failures + 1
    BY <1>9 DEF Fails
  <2>2. QED BY <1>2, <1>3, <1>5, <1>6, <2>1, PaidParts
<1>10. QED BY <1>7, <1>8, <1>9 DEF InvokeMethod

\* the steps that neither send nor deliver anything
LEMMA OthersPaid ==
    ASSUME TypeOK, Paid,
           \/ \E c \in Commands : SendRead(c) \/ CloseDevice(c) \/ SendSave(c)
           \/ \E m \in Copies : Task(m)
           \/ \E e \in Editors : EditRead(e) \/ EditSave(e)
           \/ Feedback \/ ReceiveFails \/ ProcessStops
    PROVE  Paid'
<1>1. UNCHANGED <<queue, loop, cur, handled>>
  BY DEF SendRead, CloseDevice, SendSave, Task, FeedbackRead, FeedbackSave, EditRead, EditSave, Feedback,
         ReceiveBatch, ReceiveFails, CompleteBatch, Restart, ProcessStops, hub, device
<1>2. failures' \in {failures, failures + 1}
  BY DEF SendRead, CloseDevice, SendSave, Task, FeedbackRead, FeedbackSave, EditRead, EditSave, Feedback,
         ReceiveBatch, ReceiveFails, CompleteBatch, Restart, ProcessStops, Saved, SaveFails, NoFailure, Fails
<1>3. Forward
  <2>1. ASSUME NEW c \in Commands, SendRead(c) \/ CloseDevice(c) \/ SendSave(c) PROVE Forward
    BY <2>1, WriterKinds DEF SendRead, CloseDevice, SendSave, Saved, Goto, Forward, TypeOK
  <2>2. ASSUME NEW e \in Editors, EditRead(e) \/ EditSave(e) PROVE Forward
    BY <2>2, WriterKinds DEF EditRead, EditSave, Saved, Goto, Forward, TypeOK
  <2>3. ASSUME NEW m \in Copies, Task(m) PROVE Forward
    BY <2>3, WriterKinds, GoDownType DEF Task, FeedbackRead, FeedbackSave, Saved, Goto, Forward, TypeOK
  <2>4. CASE ProcessStops
    BY <2>4, GoDownType DEF ProcessStops
  <2>5. CASE Feedback \/ ReceiveFails
    <3>1. CASE ReceiveBatch
      <4>1. PICK batch \in SUBSET {m \in Copies : feedback[m] = "waiting"} :
              pc' = [w \in Writers |-> IF w \in batch THEN "read" ELSE pc[w]]
        BY <3>1 DEF ReceiveBatch
      <4>2. QED BY <4>1, WriterKinds DEF Forward, TypeOK
    <3>2. CASE UNCHANGED pc
      BY <3>2 DEF Forward, TypeOK
    <3>3. QED BY <2>5, <3>1, <3>2 DEF Feedback, ReceiveFails, CompleteBatch, Restart
  <2>6. QED BY <2>1, <2>2, <2>3, <2>4, <2>5
<1>4. QED BY <1>1, <1>2, <1>3, PaidQuiet

LEMMA PaidNext == QueueInv /\ Paid /\ [Next]_vars => Paid'
<1> SUFFICES ASSUME QueueInv, Paid, [Next]_vars PROVE Paid'
  OBVIOUS
<1>0. TypeOK
  BY DEF QueueInv
<1>1. CASE UNCHANGED vars
  <2>1. UNCHANGED <<queue, loop, cur, handled, pc, failures>>
    BY <1>1 DEF vars, hub, device
  <2>2. QED BY <1>0, <2>1, PaidQuiet DEF Forward
<1>2. ASSUME NEW c \in Commands, Request(c) PROVE Paid'
  BY <1>0, <1>2, SendMessagePaid, InvokeMethodPaid, OthersPaid DEF Request
<1>3. ASSUME NEW m \in Copies, LockExpires(m) \/ Expires(m) \/ Task(m) PROVE Paid'
  BY <1>0, <1>3, LockExpiresPaid, ExpiresPaid, OthersPaid
<1>4. CASE Device
  BY <1>0, <1>4, ReceivePaid, HandlePaid, SignalPaid DEF Device
<1>5. CASE Feedback \/ ReceiveFails \/ ProcessStops \/ \E e \in Editors : EditRead(e) \/ EditSave(e)
  BY <1>0, <1>5, OthersPaid
<1>6. QED BY <1>1, <1>2, <1>3, <1>4, <1>5 DEF Next

LEMMA PaidInit == Init => Paid
<1> SUFFICES ASSUME Init, NEW c \in Commands
             PROVE  handled[c] + Cardinality(Opened(c)) + ToSend(c) + Stray(c) <= 1 + failures
  BY DEF Paid
<1>1. Opened(c) = {}
  BY DEF Init, Opened, Open
<1>2. Cardinality(Opened(c)) = 0
  BY <1>1, FS_EmptySet
<1>3. handled[c] = 0 /\ failures = 0 /\ ToSend(c) \in {0, 1} /\ Stray(c) = 0
  BY DEF Init, ToSend, Stray
<1>4. QED BY <1>2, <1>3

(* The device never carries a command out more often than once plus the       *)
(* number of failures: redeliveries, retries and expiring locks are paid for.  *)
THEOREM HandledOnceAlways == Spec => []HandledOnce
<1>1. TypeOK /\ Paid => HandledOnce
  <2> SUFFICES ASSUME TypeOK, Paid, NEW c \in Commands PROVE handled[c] <= 1 + failures
    BY DEF HandledOnce
  <2>1. Cardinality(Opened(c)) \in Nat
    BY CountType DEF Opened
  <2>2. QED BY <2>1, PaidParts
<1>2. HistoryInv => QueueInv /\ TypeOK
  BY DEF HistoryInv, QueueInv
<1>3. QED BY <1>1, <1>2, PaidInit, PaidNext, HistoryAlways, PTL DEF Spec
-----------------------------------------------------------------------------
(* What is left pending, when every task that is started finishes *)

\* a registry that works, and a web job that does not stop
Reliable == Faults \intersect {"read", "save", "saved", "process"} = {}

LEMMA NoSuchFault ==
    ASSUME Reliable
    PROVE  ~Fails("read") /\ ~Fails("save") /\ ~Fails("saved") /\ ~Fails("process")
BY DEF Reliable, Fails

Done(r) == r \notin {"absent", "pending"}

\* a settled copy has its record, a record taken its task, and the task its result
TaskFate(m) ==
    /\ pc[m] \in {"idle", "read", "save", "ok"}
    /\ queue[m] \in Outcomes => feedback[m] # "none"
    /\ feedback[m] \in {"taken", "consumed"} => pc[m] # "idle"
    /\ pc[m] = "save" => Done(view[m][m[1]])

\* a request that goes on has sent its command and has an entry for it
RequestFate(c) ==
    /\ pc[c] \in {"close", "save", "ok"} => c \in Methods \/ Accepted(c)
    /\ pc[c] \in {"send", "close", "save"} => view[c][c] # "absent"
    /\ c \in Methods => pc[c] # "close"
    /\ c \in Methods /\ pc[c] = "save" => Done(view[c][c])

Fates ==
    /\ processor # "down"
    /\ \A m \in Copies : TaskFate(m)
    /\ \A c \in Commands : RequestFate(c)

LEMMA FatesInit == Init => Fates
<1> SUFFICES ASSUME Init PROVE Fates
  OBVIOUS
<1>1. \A w \in Writers : pc[w] = "idle"
  BY DEF Init
<1>2. \A m \in Copies : queue[m] = "none" /\ feedback[m] = "none"
  BY DEF Init
<1>3. \A m \in Copies : TaskFate(m)
  BY <1>1, <1>2, WriterKinds DEF TaskFate, Outcomes
<1>4. \A c \in Commands : RequestFate(c)
  BY <1>1, WriterKinds DEF RequestFate
<1>5. QED BY <1>3, <1>4 DEF Init, Fates

LEMMA TaskKept ==
    ASSUME NEW m \in Copies, TaskFate(m), pc'[m] = pc[m], view'[m] = view[m],
           feedback'[m] = feedback[m], queue'[m] \in Outcomes => queue[m] \in Outcomes
    PROVE  TaskFate(m)'
BY DEF TaskFate

LEMMA RequestKept ==
    ASSUME NEW c \in Commands, RequestFate(c), pc'[c] = pc[c], view'[c] = view[c],
           \A m \in Copies : queue[m] # "none" => queue'[m] # "none"
    PROVE  RequestFate(c)'
<1>1. Accepted(c) => Accepted(c)'
  BY DEF Accepted
<1>2. QED BY <1>1 DEF RequestFate

\* a request's step: the hub's records and the tasks stay as they are
LEMMA RequestFates ==
    ASSUME Fates, NEW c \in Commands, UNCHANGED <<feedback, processor>>,
           \A w \in Writers : w # c => pc'[w] = pc[w] /\ view'[w] = view[w],
           \A m \in Copies : queue[m] # "none" => queue'[m] # "none",
           \A m \in Copies : queue'[m] \in Outcomes => queue[m] \in Outcomes,
           RequestFate(c)'
    PROVE  Fates'
<1>1. \A m \in Copies : TaskFate(m)'
  BY WriterKinds, TaskKept DEF Fates
<1>2. \A d \in Commands : RequestFate(d)'
  BY WriterKinds, RequestKept DEF Fates
<1>3. QED BY <1>1, <1>2 DEF Fates

LEMMA RequestOwn ==
    ASSUME TypeOK, NEW c \in Commands, Request(c)
    PROVE  /\ \A w \in Writers : w # c => pc'[w] = pc[w] /\ view'[w] = view[w]
           /\ UNCHANGED <<feedback, processor, early>>
           /\ \A m \in Copies : queue[m] # "none" => queue'[m] # "none"
           /\ \A m \in Copies : queue'[m] \in Outcomes => queue[m] \in Outcomes
<1>1. c \in Writers
  BY WriterKinds
<1>2. \A w \in Writers : w # c => pc'[w] = pc[w]
  BY <1>1, GotoKeeps DEF Request, SendRead, SendMessage, CloseDevice, InvokeMethod, SendSave, Again, Saved
<1>3. \A w \in Writers : w # c => view'[w] = view[w]
  BY <1>1 DEF Request, SendRead, SendMessage, CloseDevice, InvokeMethod, SendSave, Read, Drop, TypeOK
<1>4. UNCHANGED <<feedback, processor, early>>
  BY DEF Request, SendRead, SendMessage, CloseDevice, InvokeMethod, SendSave, ghosts
<1>5. UNCHANGED queue \/ Enqueue(c)
  BY DEF Request, SendRead, SendMessage, CloseDevice, InvokeMethod, SendSave, hub
<1>6. /\ \A m \in Copies : queue[m] # "none" => queue'[m] # "none"
      /\ \A m \in Copies : queue'[m] \in Outcomes => queue[m] \in Outcomes
  BY <1>5 DEF Enqueue, TypeOK, Outcomes
<1>7. QED BY <1>2, <1>3, <1>4, <1>6

\* the document a request reads
LEMMA SendReadStep ==
    ASSUME TypeOK, Reliable, NEW c \in Commands, SendRead(c)
    PROVE  /\ pc'[c] = "send" /\ view'[c][c] = "pending"
           /\ \A d \in Commands : d # c => view'[c][d] = history[d]
           /\ current' = current \union {c} /\ UNCHANGED <<history, overlap>>
           /\ pc[c] = "idle"
<1>1. c \in Writers
  BY WriterKinds
<1>2. Read(c, [history EXCEPT ![c] = "pending"]) /\ Goto(c, "send")
  BY NoSuchFault DEF SendRead
<1>3. view'[c] = [history EXCEPT ![c] = "pending"]
  BY <1>1, <1>2 DEF Read, TypeOK
<1>4. QED BY <1>1, <1>2, <1>3, GotoKeeps DEF SendRead, Read, TypeOK, Histories

LEMMA InvokeStep ==
    ASSUME TypeOK, NEW c \in Commands, InvokeMethod(c)
    PROVE  /\ c \in Methods /\ pc[c] = "send"
           /\ \A d \in Commands : d # c => view'[c][d] = view[c][d]
           /\ \/ pc'[c] = "save" /\ Done(view'[c][c])
              \/ pc'[c] \in {"send", "failed"} /\ view'[c] = view[c]
           /\ UNCHANGED <<history, current, overlap>>
<1>1. c \in Writers
  BY WriterKinds
<1>2. CASE Goto(c, "save")
  <2>1. PICK result \in {"Success", Failed} : view' = [view EXCEPT ![c][c] = result] \/ UNCHANGED view
    BY <1>2 DEF InvokeMethod
  <2>2. pc'[c] = "save"
    BY <1>1, <1>2, GotoKeeps
  <2>3. ~Again(c)
    BY <1>1, <2>2, GotoKeeps DEF Again, InvokeMethod
  <2>4. PICK r \in {"Success", Failed} : view' = [view EXCEPT ![c][c] = r]
    BY <2>3 DEF InvokeMethod
  <2>5. view'[c][c] = r /\ \A d \in Commands : d # c => view'[c][d] = view[c][d]
    BY <1>1, <2>4 DEF TypeOK, Histories
  <2>6. QED BY <2>2, <2>5 DEF InvokeMethod, ghosts, Done, Failed
<1>3. CASE Again(c) /\ UNCHANGED view
  BY <1>1, <1>3, GotoKeeps DEF Again, InvokeMethod, ghosts
<1>4. QED BY <1>2, <1>3 DEF InvokeMethod

LEMMA SavedStep ==
    ASSUME TypeOK, NEW w \in Writers, Saved(w), Drop(w)
    PROVE  /\ pc'[w] = "ok" /\ \A v \in Writers : v # w => pc'[v] = pc[v] /\ view'[v] = view[v]
           /\ view'[w] = Empty /\ history' = view[w]
           /\ current' = {} /\ overlap' = (overlap \/ w \notin current)
BY GotoKeeps DEF Saved, Drop, Write, TypeOK

LEMMA SavesWork ==
    ASSUME Reliable, NEW w, SaveFails(w) PROVE FALSE
BY NoSuchFault DEF SaveFails

LEMMA RequestFatesNext ==
    ASSUME TypeOK, Reliable, Fates, NEW c \in Commands, Request(c) PROVE Fates'
<1>1. c \in Writers /\ RequestFate(c)
  BY WriterKinds DEF Fates
<1>2. Accepted(c) => Accepted(c)'
  BY RequestOwn DEF Accepted
<1>3. CASE SendRead(c)
  BY <1>3, SendReadStep, RequestOwn, RequestFates DEF RequestFate
<1>4. CASE SendMessage(c)
  <2>1. pc'[c] \in {"close", "send", "failed"} /\ UNCHANGED view
    BY <1>1, <1>4, GotoKeeps DEF SendMessage, Again
  <2>2. pc'[c] = "close" => Accepted(c)'
    <3>1. ASSUME Enqueue(c) PROVE Accepted(c)'
      <4>1. attempt[c] \in 0 .. RETRY_COUNT /\ <<c, attempt[c]>> \in Copies
        BY <1>4, CopyOf DEF SendMessage, TypeOK
      <4>2. queue'[<<c, attempt[c]>>] = "queued"
        BY <3>1, <4>1 DEF Enqueue, TypeOK
      <4>3. QED BY <4>1, <4>2 DEF Accepted
    <3>2. Again(c) => pc'[c] # "close"
      BY <1>1, <1>4, GotoKeeps DEF SendMessage, Again
    <3>3. QED BY <1>4, <3>1, <3>2 DEF SendMessage
  <2>3. pc[c] = "send" /\ c \notin Methods
    BY <1>4 DEF SendMessage
  <2>4. RequestFate(c)'
    BY <1>1, <2>1, <2>2, <2>3 DEF RequestFate
  <2>5. QED BY <2>4, RequestOwn, RequestFates
<1>5. CASE CloseDevice(c)
  <2>1. pc'[c] \in {"save", "failed"} /\ UNCHANGED view /\ pc[c] = "close"
    BY <1>1, <1>5, GotoKeeps DEF CloseDevice
  <2>2. RequestFate(c)'
    BY <1>1, <1>2, <2>1 DEF RequestFate
  <2>3. QED BY <2>2, RequestOwn, RequestFates
<1>6. CASE InvokeMethod(c)
  <2>1. RequestFate(c)'
    BY <1>1, <1>6, InvokeStep DEF RequestFate, Done
  <2>2. QED BY <2>1, RequestOwn, RequestFates
<1>7. CASE SendSave(c)
  <2>1. pc'[c] = "ok" /\ pc[c] = "save"
    BY <1>1, <1>7, SavedStep, SavesWork DEF SendSave
  <2>2. RequestFate(c)'
    BY <1>1, <1>2, <2>1 DEF RequestFate
  <2>3. QED BY <2>2, RequestOwn, RequestFates
<1>8. QED BY <1>3, <1>4, <1>5, <1>6, <1>7 DEF Request

\* what the hub does: a copy that is settled gets its record
LEMMA HubStep ==
    ASSUME TypeOK,
           \/ Device
           \/ \E m \in Copies : LockExpires(m) \/ Expires(m)
    PROVE  /\ UNCHANGED <<pc, view, processor, history, current, overlap, early>>
           /\ \A m \in Copies : feedback'[m] \in {feedback[m], "waiting"}
           /\ \A m \in Copies : queue'[m] \in Outcomes => queue[m] \in Outcomes \/ feedback'[m] = "waiting"
           /\ \A m \in Copies : queue[m] # "none" => queue'[m] # "none"
<1>1. UNCHANGED <<pc, view, processor, history, current, overlap, early>>
  BY DEF Device, Handle, Signal, Receive, LockExpires, Expires, ghosts
<1>2. ASSUME NEW m \in Copies, NEW s \in Outcomes, Settle(m, s) \/ Requeue(m)
      PROVE  /\ \A k \in Copies : feedback'[k] \in {feedback[k], "waiting"}
             /\ \A k \in Copies : queue'[k] \in Outcomes => queue[k] \in Outcomes \/ feedback'[k] = "waiting"
             /\ \A k \in Copies : queue[k] # "none" => queue'[k] # "none"
  BY <1>2 DEF Settle, Requeue, TypeOK, Outcomes
<1>3. "Success" \in Outcomes /\ "Rejected" \in Outcomes /\ "Expired" \in Outcomes
  BY DEF Outcomes
<1>4. CASE Handle \/ \E m \in Copies : Receive(m)
  BY <1>1, <1>4 DEF Handle, Receive, TypeOK, hub, Outcomes
<1>5. CASE Signal
  <2>1. cur \in Copies
    BY <1>5 DEF Signal, TypeOK
  <2>2. CASE UNCHANGED <<queue, feedback>>
    BY <1>1, <2>2 DEF Outcomes
  <2>3. CASE Answer
    BY <1>1, <1>2, <1>3, <2>1, <2>3 DEF Answer
  <2>4. QED BY <1>5, <2>2, <2>3 DEF Signal
<1>6. CASE \E m \in Copies : LockExpires(m) \/ Expires(m)
  BY <1>1, <1>2, <1>3, <1>6 DEF LockExpires, Expires
<1>7. QED BY <1>4, <1>5, <1>6 DEF Device

LEMMA HubFates ==
    ASSUME TypeOK, Fates, Device \/ \E m \in Copies : LockExpires(m) \/ Expires(m)
    PROVE  Fates'
<1>1. ASSUME NEW m \in Copies PROVE TaskFate(m)'
  BY HubStep DEF Fates, TaskFate
<1>2. \A c \in Commands : RequestFate(c)'
  BY HubStep, RequestKept DEF Fates
<1>3. QED BY <1>1, <1>2, HubStep DEF Fates

LEMMA FeedbackReadStep ==
    ASSUME TypeOK, Reported, Reliable, NEW m \in Copies, FeedbackRead(m)
    PROVE  /\ UNCHANGED <<queue, feedback, processor, history, overlap>>
           /\ \A w \in Writers : w # m => pc'[w] = pc[w] /\ view'[w] = view[w]
           /\ \/ /\ pc'[m] = "save" /\ history[m[1]] # "absent" /\ Done(view'[m][m[1]])
                 /\ \A d \in Commands : d # m[1] => view'[m][d] = history[d]
                 /\ current' = current \union {m} /\ UNCHANGED early
              \/ /\ pc'[m] = "ok" /\ m[1] \in early' /\ early \subseteq early'
                 /\ UNCHANGED <<view, current>>
<1>1. m \in Writers /\ queue[m] \in Outcomes /\ m[1] \in Commands
  BY WriterKinds, CopyParts DEF FeedbackRead, Reported
<1>2. UNCHANGED <<queue, feedback, processor, history, overlap>>
  BY NoSuchFault DEF FeedbackRead, hub
<1>3. CASE history[m[1]] # "absent"
  <2>1. Read(m, Entered(m)) /\ Goto(m, "save") /\ UNCHANGED early
    BY <1>3, NoSuchFault DEF FeedbackRead
  <2>2. view'[m] = Entered(m) /\ \A w \in Writers : w # m => view'[w] = view[w]
    BY <1>1, <2>1 DEF Read, TypeOK
  <2>3. Entered(m)[m[1]] = queue[m] /\ \A d \in Commands : d # m[1] => Entered(m)[d] = history[d]
    BY <1>1 DEF Entered, TypeOK, Histories
  <2>4. Done(queue[m])
    BY <1>1 DEF Done, Outcomes
  <2>5. QED BY <1>1, <1>2, <1>3, <2>1, <2>2, <2>3, <2>4, GotoKeeps DEF Read
<1>4. CASE history[m[1]] = "absent"
  <2>1. early' = early \union {m[1]} /\ Goto(m, "ok") /\ UNCHANGED <<view, current>>
    BY <1>4, NoSuchFault DEF FeedbackRead
  <2>2. QED BY <1>1, <1>2, <2>1, GotoKeeps
<1>5. QED BY <1>3, <1>4

LEMMA FeedbackSaveStep ==
    ASSUME TypeOK, Reliable, NEW m \in Copies, FeedbackSave(m)
    PROVE  pc[m] = "save" /\ Saved(m) /\ Drop(m) /\ UNCHANGED <<queue, feedback, processor, early>>
BY SavesWork DEF FeedbackSave, hub

LEMMA TaskFates ==
    ASSUME TypeOK, Reported, Reliable, Fates, NEW m \in Copies, Task(m) PROVE Fates'
<1>1. m \in Writers
  BY WriterKinds
<1>2. UNCHANGED <<queue, feedback, processor>>
  BY FeedbackReadStep, FeedbackSaveStep DEF Task
<1>3. \A w \in Writers : w # m => pc'[w] = pc[w] /\ view'[w] = view[w]
  BY <1>1, FeedbackReadStep, FeedbackSaveStep, SavedStep DEF Task
<1>4. pc'[m] = "ok" \/ (pc'[m] = "save" /\ Done(view'[m][m[1]]))
  BY <1>1, FeedbackReadStep, FeedbackSaveStep, SavedStep DEF Task
<1>5. TaskFate(m)'
  BY <1>2, <1>4 DEF Fates, TaskFate
<1>6. \A k \in Copies : TaskFate(k)'
  BY <1>2, <1>3, <1>5, WriterKinds, TaskKept DEF Fates
<1>7. \A c \in Commands : RequestFate(c)'
  BY <1>2, <1>3, WriterKinds, RequestKept DEF Fates
<1>8. QED BY <1>2, <1>6, <1>7 DEF Fates

LEMMA BatchStep ==
    ASSUME TypeOK, Fates, Feedback \/ ReceiveFails
    PROVE  /\ UNCHANGED <<view, queue, history, current, overlap, early>> /\ processor' # "down"
           /\ \A w \in Writers : w \notin Copies => pc'[w] = pc[w]
           /\ \A m \in Copies : pc'[m] = pc[m] \/ pc'[m] = "read"
           /\ \A m \in Copies : feedback'[m] = "taken" => pc'[m] = "read" \/ feedback[m] = "taken"
           /\ \A m \in Copies : feedback'[m] = "consumed" => feedback[m] \in {"taken", "consumed"}
           /\ \A m \in Copies : feedback[m] # "none" => feedback'[m] # "none"
<1>1. CASE ReceiveBatch
  <2>1. PICK batch \in SUBSET {m \in Copies : feedback[m] = "waiting"} :
          /\ feedback' = [m \in Copies |-> IF m \in batch THEN "taken" ELSE feedback[m]]
          /\ pc' = [w \in Writers |-> IF w \in batch THEN "read" ELSE pc[w]]
    BY <1>1 DEF ReceiveBatch
  <2>2. QED BY <1>1, <2>1, WriterKinds DEF ReceiveBatch, hub, ghosts
<1>2. CASE CompleteBatch
  BY <1>2, WriterKinds DEF CompleteBatch, hub, ghosts
<1>3. CASE Restart
  BY <1>3 DEF Restart, Fates
<1>4. CASE ReceiveFails
  BY <1>4, WriterKinds DEF ReceiveFails, hub, ghosts
<1>5. QED BY <1>1, <1>2, <1>3, <1>4 DEF Feedback

LEMMA BatchFates == ASSUME TypeOK, Fates, Feedback \/ ReceiveFails PROVE Fates'
<1>1. ASSUME NEW m \in Copies PROVE TaskFate(m)'
  BY BatchStep DEF Fates, TaskFate
<1>2. \A c \in Commands : c \in Writers /\ c \notin Copies
  BY WriterKinds
<1>3. \A c \in Commands : RequestFate(c)'
  BY <1>2, BatchStep, RequestKept DEF Fates
<1>4. QED BY <1>1, <1>3, BatchStep DEF Fates

LEMMA EditStep ==
    ASSUME TypeOK, Reliable, NEW e \in Editors, EditRead(e) \/ EditSave(e)
    PROVE  /\ UNCHANGED <<queue, feedback, processor, early>>
           /\ \A w \in Writers : w # e => pc'[w] = pc[w] /\ view'[w] = view[w]
           /\ \/ /\ view'[e] = history /\ current' = current \union {e}
                 /\ UNCHANGED <<history, overlap>>
              \/ pc[e] = "save" /\ Saved(e) /\ Drop(e)
<1>1. e \in Writers
  BY WriterKinds
<1>2. CASE EditRead(e)
  BY <1>1, <1>2, GotoKeeps DEF EditRead, Read, TypeOK, hub
<1>3. CASE EditSave(e)
  <2>1. pc[e] = "save" /\ Saved(e) /\ Drop(e)
    BY <1>3, SavesWork DEF EditSave
  <2>2. QED BY <1>1, <1>3, <2>1, SavedStep DEF EditSave, hub
<1>4. QED BY <1>2, <1>3

LEMMA EditFates ==
    ASSUME TypeOK, Reliable, Fates, NEW e \in Editors, EditRead(e) \/ EditSave(e) PROVE Fates'
<1>1. UNCHANGED <<queue, feedback, processor>>
      /\ \A w \in Writers : w # e => pc'[w] = pc[w] /\ view'[w] = view[w]
  BY EditStep
<1>2. \A m \in Copies : TaskFate(m)'
  BY <1>1, WriterKinds, TaskKept DEF Fates
<1>3. \A c \in Commands : RequestFate(c)'
  BY <1>1, WriterKinds, RequestKept DEF Fates
<1>4. QED BY <1>1, <1>2, <1>3 DEF Fates

LEMMA FatesNext == Reliable /\ HistoryInv /\ Fates /\ [Next]_vars => Fates'
<1> SUFFICES ASSUME Reliable, HistoryInv, Fates, [Next]_vars PROVE Fates'
  OBVIOUS
<1>0. TypeOK /\ Reported
  BY DEF HistoryInv, QueueInv
<1>1. CASE UNCHANGED vars
  BY <1>1 DEF vars, hub, Fates, TaskFate, RequestFate, Accepted
<1>2. ASSUME NEW c \in Commands, Request(c) PROVE Fates'
  BY <1>0, <1>2, RequestFatesNext
<1>3. ASSUME NEW m \in Copies, LockExpires(m) \/ Expires(m) \/ Task(m) PROVE Fates'
  BY <1>0, <1>3, HubFates, TaskFates
<1>4. CASE Device
  BY <1>0, <1>4, HubFates
<1>5. CASE Feedback \/ ReceiveFails
  BY <1>0, <1>5, BatchFates
<1>6. CASE ProcessStops
  BY <1>6, NoSuchFault DEF ProcessStops
<1>7. ASSUME NEW e \in Editors, EditRead(e) \/ EditSave(e) PROVE Fates'
  BY <1>0, <1>7, EditFates
<1>8. QED BY <1>1, <1>2, <1>3, <1>4, <1>5, <1>6, <1>7 DEF Next

\* the copy w has is as full as the document
Follows(w, c) ==
    /\ history[c] # "absent" => view[w][c] # "absent"
    /\ Done(history[c]) => Done(view[w][c])

\* while nobody wrote over a newer document: it holds what was recorded, and every
\* task that is done has entered its result or come too early
Recorded ==
    /\ \A c \in Commands : history[c] # "absent" <=> pc[c] = "ok"
    /\ \A w \in Writers, c \in Commands : w # c /\ view[w][c] # "absent" => pc[c] = "ok"
    /\ \A w \in current, c \in Commands : w # c => Follows(w, c)
    /\ \A c \in Methods : pc[c] = "ok" => Done(history[c])
    /\ \A m \in Copies : pc[m] = "ok" => m[1] \in early \/ Done(history[m[1]])

RecordedInv == ~overlap => Recorded

LEMMA RecordedInit == Init => RecordedInv
<1> SUFFICES ASSUME Init PROVE Recorded
  BY DEF RecordedInv
<1>1. \A w \in Writers : pc[w] = "idle" /\ \A c \in Commands : view[w][c] = "absent"
  BY DEF Init, Empty
<1>2. \A c \in Commands : history[c] = "absent"
  BY DEF Init, Empty
<1>3. current = {}
  BY DEF Init
<1>4. QED BY <1>1, <1>2, <1>3, WriterKinds, CommandsAssumption DEF Recorded

\* a step that does not write the document; a copy of it is kept, or is read afresh
KeptOrRead(w) ==
    \/ /\ \A c \in Commands : c # w => view'[w][c] = view[w][c]
       /\ w \in current' => w \in current
    \/ \A c \in Commands : c # w =>
         /\ view'[w][c] # "absent" <=> history[c] # "absent"
         /\ Done(history[c]) => Done(view'[w][c])

LEMMA RecordedReads ==
    ASSUME Recorded, UNCHANGED history, current' \subseteq Writers,
           \A c \in Commands : pc'[c] = "ok" <=> pc[c] = "ok",
           \A w \in Writers : KeptOrRead(w),
           early \subseteq early',
           \A m \in Copies : pc'[m] = "ok" => pc[m] = "ok" \/ m[1] \in early'
    PROVE  Recorded'
<1>1. \A c \in Commands : history'[c] # "absent" <=> pc'[c] = "ok"
  BY DEF Recorded
<1>2. ASSUME NEW w \in Writers, NEW c \in Commands, w # c, view'[w][c] # "absent" PROVE pc'[c] = "ok"
  BY <1>2 DEF Recorded, KeptOrRead
<1>3. ASSUME NEW w \in current', NEW c \in Commands, w # c PROVE Follows(w, c)'
  <2>1. CASE view'[w][c] = view[w][c] /\ w \in current
    BY <1>3, <2>1 DEF Recorded, Follows
  <2>2. CASE (view'[w][c] # "absent" <=> history[c] # "absent") /\ (Done(history[c]) => Done(view'[w][c]))
    BY <2>2 DEF Follows
  <2>3. QED BY <1>3, <2>1, <2>2 DEF KeptOrRead
<1>4. \A c \in Methods : pc'[c] = "ok" => Done(history'[c])
  BY CommandsAssumption DEF Recorded
<1>5. \A m \in Copies : pc'[m] = "ok" => m[1] \in early' \/ Done(history'[m[1]])
  BY DEF Recorded
<1>6. QED BY <1>1, <1>2, <1>3, <1>4, <1>5 DEF Recorded

\* a write by somebody who has the present document
LEMMA RecordedWrite ==
    ASSUME TypeOK, Fates, Recorded, NEW w \in Writers, pc[w] = "save", w \in current,
           pc'[w] = "ok", \A v \in Writers : v # w => pc'[v] = pc[v] /\ view'[v] = view[v],
           view'[w] = Empty, history' = view[w], current' = {}, UNCHANGED early
    PROVE  Recorded'
<1>1. ASSUME NEW c \in Commands PROVE history'[c] # "absent" <=> pc'[c] = "ok"
  <2>1. CASE c = w
    BY <2>1 DEF Fates, RequestFate
  <2>2. CASE c # w
    BY <2>2, WriterKinds DEF Recorded, Follows
  <2>3. QED BY <2>1, <2>2
<1>2. ASSUME NEW v \in Writers, NEW c \in Commands, v # c, view'[v][c] # "absent" PROVE pc'[c] = "ok"
  <2>1. v # w
    BY <1>2 DEF Empty
  <2>2. pc[c] = "ok"
    BY <1>2, <2>1 DEF Recorded
  <2>3. QED BY <2>2, WriterKinds
<1>3. \A v \in current', c \in Commands : v # c => Follows(v, c)'
  OBVIOUS
<1>4. ASSUME NEW c \in Methods, pc'[c] = "ok" PROVE Done(history'[c])
  <2>1. c \in Commands /\ c \in Writers
    BY WriterKinds, CommandsAssumption
  <2>2. CASE c = w
    BY <2>1, <2>2 DEF Fates, RequestFate
  <2>3. CASE c # w
    BY <1>4, <2>1, <2>3 DEF Recorded, Follows
  <2>4. QED BY <2>2, <2>3
<1>5. ASSUME NEW m \in Copies, pc'[m] = "ok" PROVE m[1] \in early' \/ Done(history'[m[1]])
  <2>1. m[1] \in Commands /\ m[1] \in Writers /\ m \in Writers
    BY WriterKinds, CopyParts
  <2>2. CASE m = w
    BY <2>2 DEF Fates, TaskFate
  <2>3. CASE m # w
    <3>1. m[1] \in early \/ Done(history[m[1]])
      BY <1>5, <2>1, <2>3 DEF Recorded
    <3>2. Done(history[m[1]]) => pc[m[1]] = "ok"
      BY <2>1 DEF Recorded, Done
    <3>3. Done(history[m[1]]) => m[1] # w
      BY <3>2
    <3>4. QED BY <2>1, <3>1, <3>3 DEF Recorded, Follows
  <2>4. QED BY <2>2, <2>3
<1>6. QED BY <1>1, <1>2, <1>3, <1>4, <1>5 DEF Recorded

LEMMA RecordedSave ==
    ASSUME TypeOK, Fates, RecordedInv, NEW w \in Writers, pc[w] = "save", Saved(w), Drop(w),
           UNCHANGED early
    PROVE  RecordedInv'
<1> SUFFICES ASSUME ~overlap' PROVE Recorded'
  BY DEF RecordedInv
<1>1. w \in current /\ ~overlap
  BY SavedStep
<1>2. QED BY <1>1, SavedStep, RecordedWrite DEF RecordedInv

LEMMA RecordedRequest ==
    ASSUME TypeOK, TypeOK', Reliable, Fates, RecordedInv, NEW c \in Commands, Request(c)
    PROVE  RecordedInv'
<1>1. c \in Writers /\ current' \subseteq Writers
  BY WriterKinds DEF TypeOK
<1>2. CASE SendSave(c)
  <2>1. pc[c] = "save" /\ Saved(c) /\ Drop(c) /\ UNCHANGED early
    BY <1>2, SavesWork DEF SendSave
  <2>2. QED BY <1>1, <2>1, RecordedSave
<1>3. CASE ~SendSave(c)
  <2>1. UNCHANGED <<history, overlap, early>>
    BY <1>3, NoSuchFault DEF Request, SendRead, SendMessage, CloseDevice, InvokeMethod, ghosts
  <2>2. pc[c] # "ok" /\ pc'[c] # "ok"
    BY <1>1, <1>3, GotoKeeps
       DEF Request, SendRead, SendMessage, CloseDevice, InvokeMethod, Again
  <2>3. \A d \in Commands : pc'[d] = "ok" <=> pc[d] = "ok"
    BY <2>2, RequestOwn, WriterKinds
  <2>4. \A m \in Copies : pc'[m] = pc[m]
    BY RequestOwn, WriterKinds
  <2>5. ASSUME NEW w \in Writers PROVE KeptOrRead(w)
    <3>1. CASE w # c
      <4>1. current' \subseteq current \union {c}
        BY <1>3 DEF Request, SendRead, SendMessage, CloseDevice, InvokeMethod, Read, ghosts
      <4>2. QED BY <3>1, <4>1, RequestOwn DEF KeptOrRead
    <3>2. CASE w = c /\ SendRead(c)
      BY <3>2, SendReadStep DEF KeptOrRead
    <3>3. CASE w = c /\ (SendMessage(c) \/ CloseDevice(c))
      BY <3>3 DEF SendMessage, CloseDevice, ghosts, KeptOrRead
    <3>4. CASE w = c /\ InvokeMethod(c)
      BY <3>4, InvokeStep DEF KeptOrRead
    <3>5. QED BY <1>3, <3>1, <3>2, <3>3, <3>4 DEF Request
  <2>6. QED BY <1>1, <2>1, <2>3, <2>4, <2>5, RecordedReads DEF RecordedInv
<1>4. QED BY <1>2, <1>3

LEMMA RecordedTask ==
    ASSUME TypeOK, TypeOK', Reported, Reliable, Fates, RecordedInv, NEW m \in Copies, Task(m)
    PROVE  RecordedInv'
<1>1. m \in Writers /\ current' \subseteq Writers /\ m \notin Commands
  BY WriterKinds DEF TypeOK
<1>2. CASE FeedbackSave(m)
  BY <1>1, <1>2, FeedbackSaveStep, RecordedSave
<1>3. CASE FeedbackRead(m)
  <2>1. /\ UNCHANGED <<history, overlap>> /\ early \subseteq early'
        /\ \A w \in Writers : w # m => pc'[w] = pc[w] /\ view'[w] = view[w]
        /\ pc'[m] = "ok" => m[1] \in early'
        /\ current' \subseteq current \union {m}
    BY <1>3, FeedbackReadStep
  <2>2. \A c \in Commands : pc'[c] = "ok" <=> pc[c] = "ok"
    BY <1>1, <2>1, WriterKinds
  <2>3. \A k \in Copies : pc'[k] = "ok" => pc[k] = "ok" \/ k[1] \in early'
    BY <2>1, WriterKinds
  <2>4. ASSUME NEW w \in Writers PROVE KeptOrRead(w)
    <3>1. CASE w # m
      BY <2>1, <3>1 DEF KeptOrRead
    <3>2. CASE w = m /\ UNCHANGED <<view, current>>
      BY <3>2 DEF KeptOrRead
    <3>3. CASE /\ w = m /\ history[m[1]] # "absent" /\ Done(view'[m][m[1]])
               /\ \A d \in Commands : d # m[1] => view'[m][d] = history[d]
      BY <3>3 DEF KeptOrRead, Done
    <3>4. QED BY <1>3, <3>1, <3>2, <3>3, FeedbackReadStep
  <2>5. QED BY <1>1, <2>1, <2>2, <2>3, <2>4, RecordedReads DEF RecordedInv
<1>4. QED BY <1>2, <1>3 DEF Task

LEMMA RecordedEdit ==
    ASSUME TypeOK, TypeOK', Reliable, Fates, RecordedInv, NEW e \in Editors, EditRead(e) \/ EditSave(e)
    PROVE  RecordedInv'
<1>1. e \in Writers /\ current' \subseteq Writers /\ e \notin Commands /\ e \notin Copies
  BY WriterKinds DEF TypeOK
<1>2. CASE pc[e] = "save" /\ Saved(e) /\ Drop(e)
  BY <1>1, <1>2, EditStep, RecordedSave
<1>3. CASE view'[e] = history /\ current' = current \union {e} /\ UNCHANGED <<history, overlap>>
  <2>1. /\ UNCHANGED early
        /\ \A w \in Writers : w # e => pc'[w] = pc[w] /\ view'[w] = view[w]
    BY EditStep
  <2>2. /\ \A c \in Commands : pc'[c] = "ok" <=> pc[c] = "ok"
        /\ \A m \in Copies : pc'[m] = "ok" => pc[m] = "ok" \/ m[1] \in early'
    BY <1>1, <2>1, WriterKinds
  <2>3. ASSUME NEW w \in Writers PROVE KeptOrRead(w)
    BY <1>3, <2>1 DEF KeptOrRead
  <2>4. QED BY <1>1, <1>3, <2>1, <2>2, <2>3, RecordedReads DEF RecordedInv
<1>4. QED BY <1>2, <1>3, EditStep

\* the steps that touch neither the document nor a copy
LEMMA RecordedOther ==
    ASSUME TypeOK, TypeOK', RecordedInv,
           UNCHANGED <<view, history, current, overlap, early>>,
           \A w \in Writers : pc'[w] = pc[w] \/ (w \in Copies /\ pc'[w] = "read")
    PROVE  RecordedInv'
<1>1. current' \subseteq Writers
  BY DEF TypeOK
<1>2. /\ \A c \in Commands : pc'[c] = "ok" <=> pc[c] = "ok"
      /\ \A m \in Copies : pc'[m] = "ok" => pc[m] = "ok" \/ m[1] \in early'
  BY WriterKinds
<1>3. \A w \in Writers : KeptOrRead(w)
  BY DEF KeptOrRead
<1>4. QED BY <1>1, <1>2, <1>3, RecordedReads DEF RecordedInv

LEMMA RecordedNext == Reliable /\ HistoryInv /\ Fates /\ RecordedInv /\ [Next]_vars => RecordedInv'
<1> SUFFICES ASSUME Reliable, HistoryInv, Fates, RecordedInv, [Next]_vars PROVE RecordedInv'
  OBVIOUS
<1>0. TypeOK /\ TypeOK' /\ Reported
  BY HistoryNext DEF HistoryInv, QueueInv
<1>1. CASE UNCHANGED vars
  BY <1>0, <1>1, RecordedOther DEF vars, ghosts
<1>2. ASSUME NEW c \in Commands, Request(c) PROVE RecordedInv'
  BY <1>0, <1>2, RecordedRequest
<1>3. ASSUME NEW m \in Copies, Task(m) PROVE RecordedInv'
  BY <1>0, <1>3, RecordedTask
<1>4. CASE Device \/ \E m \in Copies : LockExpires(m) \/ Expires(m)
  BY <1>0, <1>4, HubStep, RecordedOther
<1>5. CASE Feedback \/ ReceiveFails
  BY <1>0, <1>5, BatchStep, RecordedOther
<1>6. CASE ProcessStops
  BY <1>6, NoSuchFault DEF ProcessStops
<1>7. ASSUME NEW e \in Editors, EditRead(e) \/ EditSave(e) PROVE RecordedInv'
  BY <1>0, <1>7, RecordedEdit
<1>8. QED BY <1>1, <1>2, <1>3, <1>4, <1>5, <1>6, <1>7 DEF Next

LEMMA PendingOnce == TypeOK /\ Fates /\ RecordedInv => PendingOnlyWhenRaced
<1> SUFFICES ASSUME TypeOK, Fates, RecordedInv, Over, ~overlap, NEW c \in Commands, pc[c] = "ok"
             PROVE  history[c] # "absent" /\ (history[c] = "pending" => c \in early)
  BY DEF PendingOnlyWhenRaced
<1>1. Recorded
  BY DEF RecordedInv
<1>2. history[c] # "absent"
  BY <1>1 DEF Recorded
<1>3. CASE c \in Methods
  BY <1>1, <1>2, <1>3 DEF Recorded, Done
<1>4. CASE c \notin Methods
  <2>1. PICK n \in 0 .. RETRY_COUNT : <<c, n>> \in Copies /\ queue[<<c, n>>] # "none"
    BY <1>4 DEF Fates, RequestFate, Accepted
  <2>2. PICK m \in Copies : m = <<c, n>> /\ m[1] = c
    BY <2>1
  <2>3. queue[m] \in Outcomes
    BY <2>1, <2>2 DEF Over, TypeOK
  <2>4. pc[m] # "idle"
    BY <2>3 DEF Over, Fates, TaskFate
  <2>5. pc[m] = "ok"
    BY <2>4, WriterKinds DEF Over, Fates, TaskFate
  <2>6. QED BY <1>1, <1>2, <2>2, <2>5 DEF Recorded, Done
<1>5. QED BY <1>3, <1>4

(* With a registry that works and a web job that does not stop, a command    *)
(* that was recorded stays pending or disappears only because its feedback    *)
(* came before its entry or somebody wrote over a newer document.             *)
THEOREM PendingOnlyWhenRacedAlways == Reliable => (Spec => []PendingOnlyWhenRaced)
<1> SUFFICES ASSUME Reliable PROVE Spec => []PendingOnlyWhenRaced
  OBVIOUS
<1>1. HistoryInv /\ Fates /\ [Next]_vars => Fates'
  BY FatesNext
<1>2. HistoryInv /\ Fates /\ RecordedInv /\ [Next]_vars => RecordedInv'
  BY RecordedNext
<1>3. HistoryInv /\ Fates /\ RecordedInv => PendingOnlyWhenRaced
  BY PendingOnce DEF HistoryInv, QueueInv
<1>4. QED BY <1>1, <1>2, <1>3, FatesInit, RecordedInit, HistoryAlways, PTL DEF Spec

=============================================================================
