----------------------------- MODULE DeviceCommands -----------------------------
(***************************************************************************)
(* Sending a command to a device and learning what became of it.           *)
(*                                                                         *)
(* DeviceLogic.SendCommandAsync reads the device's registry document, sends *)
(* the command and writes the document back with the command in its        *)
(* CommandHistory.  The simulated device receives the command, handles it   *)
(* and settles it; the hub turns that into a feedback record, and           *)
(* MessageFeedbackProcessor reads the document, enters the result and       *)
(* writes the document back.  Other writers of the document (an edit, a     *)
(* DeviceInfo packet, a change of status) do the same.  Every writer writes *)
(* all of the document it read, whatever was written in between.            *)
(*                                                                         *)
(* One device, registered throughout; each command is sent by a request of  *)
(* its own.                                                                 *)
(***************************************************************************)
EXTENDS Integers, FiniteSets

CONSTANTS
    Commands,       \* the commands; each has its MessageId
    Methods,        \* those of DeliveryType.Method; the others are messages
    Editors,        \* writers that keep the history they read: edits, DeviceInfo
    NoCopy,         \* the message the device works on when it has none
    RETRY_COUNT,    \* AzureRetryHelper: attempts after the first
    MaxDeliveries,  \* the hub's: deliveries of a message before it gives up
    Faults,         \* the failures that may occur
    MaxFaults,      \* bound: failures in a behaviour
    MaxEdits        \* bound: documents the editors read

\* send: SendAsync or InvokeDeviceMethodAsync, refused; lost: done, but the
\* caller gets an error; close: CloseAsyncDevice throws; read, save: of the
\* registry; saved: the document is saved, then the caller gets an error;
\* signal: the device's answer is not taken; slow: a message's lock expires
\* while it is handled; expire: nobody receives it in time; receive,
\* complete: of a feedback batch; process: the web job stops
AllFaults == {"send", "lost", "close", "read", "save", "saved", "signal", "slow",
              "expire", "receive", "complete", "process"}

ASSUME CommandsAssumption ==
    /\ Methods \subseteq Commands
    /\ RETRY_COUNT \in Nat
    /\ MaxDeliveries \in Nat \ {0}
    /\ Faults \subseteq AllFaults
    /\ MaxFaults \in Nat
    /\ MaxEdits \in Nat

\* a message, once for every time SendAsync put it in the device's queue
Copies == (Commands \ Methods) \X (0 .. RETRY_COUNT)

ASSUME TasksAssumption ==
    /\ NoCopy \notin Copies
    /\ Commands \intersect Editors = {}
    /\ Commands \intersect Copies = {}
    /\ Editors \intersect Copies = {}

\* those who write the document: requests, tasks of the feedback processor, others
Writers == Commands \union Copies \union Editors

VARIABLES
    history,    \* the document's CommandHistory: each command's Result
    pc,         \* per writer: what it does next
    view,       \* per writer: the history in the document it read and changed
    attempt,    \* per command: failed attempts to send it
    queue,      \* per copy: where it is at the hub
    deliveries, \* per copy: times it was given to the device
    loop, cur,  \* the device's receive loop and its message
    handled,    \* per command: times the device carried it out
    feedback,   \* per copy: its feedback record
    processor,  \* the feedback processor's loop
    failures,   \* failures so far
    edits,      \* documents the editors read
    current,    \* history variable: the writers whose view is of the present document
    overlap,    \* history variable: whether somebody wrote over a newer document
    early       \* history variable: commands whose feedback came before their entry

hub    == <<queue, deliveries>>
device == <<loop, cur, handled>>
ghosts == <<current, overlap, early>>
vars   == <<history, pc, view, attempt, hub, device, feedback, processor, failures, edits, ghosts>>

-----------------------------------------------------------------------------

Outcomes == {"Success", "Rejected", "Expired", "DeliveryCountExceeded"}  \* FeedbackStatusCode
Failed   == "Failed"            \* a method's status that is not a success
Entries  == {"absent", "pending", Failed} \union Outcomes
Histories == [Commands -> Entries]
Empty == [c \in Commands |-> "absent"]

TypeOK ==
    /\ history \in Histories
    /\ pc \in [Writers -> {"idle", "read", "send", "close", "save", "ok", "failed"}]
    /\ view \in [Writers -> Histories]
    /\ attempt \in [Commands -> 0 .. RETRY_COUNT]
    /\ queue \in [Copies -> {"none", "queued", "locked"} \union Outcomes]
    /\ deliveries \in [Copies -> 0 .. MaxDeliveries]
    /\ loop \in {"receive", "handle", "complete", "reject", "abandon"}
    /\ cur \in Copies \union {NoCopy}
    /\ loop # "receive" => cur \in Copies
    /\ handled \in [Commands -> Nat]
    /\ feedback \in [Copies -> {"none", "waiting", "taken", "consumed"}]
    /\ processor \in {"receiving", "completing", "stopped", "down"}
    /\ failures \in 0 .. MaxFaults
    /\ edits \in 0 .. MaxEdits
    /\ current \subseteq Writers
    /\ overlap \in BOOLEAN
    /\ early \subseteq Commands

Init ==
    /\ history = Empty
    /\ pc = [w \in Writers |-> "idle"]
    /\ view = [w \in Writers |-> Empty]
    /\ attempt = [c \in Commands |-> 0]
    /\ queue = [m \in Copies |-> "none"]
    /\ deliveries = [m \in Copies |-> 0]
    /\ loop = "receive" /\ cur = NoCopy
    /\ handled = [c \in Commands |-> 0]
    /\ feedback = [m \in Copies |-> "none"]
    /\ processor = "receiving"
    /\ failures = 0
    /\ edits = 0
    /\ current = {}
    /\ overlap = FALSE
    /\ early = {}

Goto(w, label) == pc' = [pc EXCEPT ![w] = label]
Fails(fault)   == /\ fault \in Faults
                  /\ failures < MaxFaults
                  /\ failures' = failures + 1
NoFailure      == UNCHANGED failures

-----------------------------------------------------------------------------
(* The document *)

\* GetDeviceAsync
Read(w, entries) ==
    /\ view' = [view EXCEPT ![w] = entries]
    /\ current' = current \union {w}

\* DocumentDBClient.SaveAsync: an upsert, whatever was saved since the read
Write(w) ==
    /\ history' = view[w]
    /\ overlap' = (overlap \/ w \notin current)
    /\ current' = {}

NoWrite(w) == UNCHANGED <<history, overlap>> /\ current' = current \ {w}

\* the writer is done with its document
Drop(w) == view' = [view EXCEPT ![w] = Empty]

\* DeviceRegistryRepositoryWithIoTHubDM.UpdateDeviceAsync: the check that the
\* device exists, the save, and the write-back of the twin
Saved(w) == Write(w) /\ NoFailure /\ Goto(w, "ok")
SaveFails(w) ==
    \/ NoWrite(w) /\ Fails("save")
    \/ Write(w) /\ Fails("saved")

-----------------------------------------------------------------------------
(* A request: SendCommandAsync *)

\* the history the request read, with its command added
SendRead(c) ==
    /\ pc[c] = "idle"
    /\ \/ /\ Read(c, [history EXCEPT ![c] = "pending"])
          /\ Goto(c, "send")
          /\ NoFailure
       \/ /\ Fails("read")
          /\ Goto(c, "failed")
          /\ UNCHANGED <<view, current>>
    /\ UNCHANGED <<history, attempt, hub, device, feedback, processor, edits, overlap, early>>

\* OperationWithBasicRetryAsync: again while the error is transient and tries are left
Again(c) ==
    \/ /\ attempt[c] < RETRY_COUNT
       /\ attempt' = [attempt EXCEPT ![c] = @ + 1]
       /\ UNCHANGED pc
    \/ Goto(c, "failed") /\ UNCHANGED attempt

Enqueue(c) == queue' = [queue EXCEPT ![<<c, attempt[c]>>] = "queued"]

SendMessage(c) ==
    /\ pc[c] = "send" /\ c \notin Methods
    /\ \/ Enqueue(c) /\ Goto(c, "close") /\ NoFailure /\ UNCHANGED attempt
       \/ Fails("send") /\ Again(c) /\ UNCHANGED queue
       \/ Enqueue(c) /\ Fails("lost") /\ Again(c)
    /\ UNCHANGED <<history, view, deliveries, device, feedback, processor, edits, ghosts>>

CloseDevice(c) ==
    /\ pc[c] = "close"
    /\ \/ Goto(c, "save") /\ NoFailure
       \/ Fails("close") /\ Goto(c, "failed")
    /\ UNCHANGED <<history, view, attempt, hub, device, feedback, processor, edits, ghosts>>

\* the device answers at once, with the status of its method handler
InvokeMethod(c) ==
    /\ pc[c] = "send" /\ c \in Methods
    /\ \/ /\ \E result \in {"Success", Failed} :
               /\ view' = [view EXCEPT ![c][c] = result]
               /\ handled' = [handled EXCEPT ![c] = IF result = "Success" THEN @ + 1 ELSE @]
          /\ Goto(c, "save") /\ NoFailure /\ UNCHANGED attempt
       \/ Fails("send") /\ Again(c) /\ UNCHANGED <<view, handled>>
       \/ /\ Fails("lost") /\ Again(c)
          /\ \E times \in 0 .. 1 : handled' = [handled EXCEPT ![c] = @ + times]
          /\ UNCHANGED view
    /\ UNCHANGED <<history, hub, loop, cur, feedback, processor, edits, ghosts>>

SendSave(c) ==
    /\ pc[c] = "save"
    /\ \/ Saved(c)
       \/ SaveFails(c) /\ Goto(c, "failed")
    /\ Drop(c)
    /\ UNCHANGED <<attempt, hub, device, feedback, processor, edits, early>>

-----------------------------------------------------------------------------
(* The hub *)

\* a message that is settled gives a feedback record: its Ack is Full
Settle(m, outcome) ==
    /\ queue' = [queue EXCEPT ![m] = outcome]
    /\ feedback' = [feedback EXCEPT ![m] = "waiting"]

\* mutant: no end to the deliveries
RequeueAlways(m) ==
    /\ queue' = [queue EXCEPT ![m] = "queued"]
    /\ UNCHANGED feedback

\* a message that comes back is delivered again, MaxDeliveries times in all
Requeue(m) ==
    \/ /\ deliveries[m] < MaxDeliveries
       /\ queue' = [queue EXCEPT ![m] = "queued"]
       /\ UNCHANGED feedback
    \/ /\ deliveries[m] = MaxDeliveries
       /\ Settle(m, "DeliveryCountExceeded")

\* the lock of a message nobody settled runs out
LockExpires(m) ==
    /\ queue[m] = "locked"
    /\ \/ m # cur /\ NoFailure
       \/ m = cur /\ Fails("slow")
    /\ Requeue(m)
    /\ UNCHANGED <<history, pc, view, attempt, deliveries, device, processor, edits, ghosts>>

Expires(m) ==
    /\ queue[m] = "queued"
    /\ Fails("expire")
    /\ Settle(m, "Expired")
    /\ UNCHANGED <<history, pc, view, attempt, deliveries, device, processor, edits, ghosts>>

-----------------------------------------------------------------------------
(* The device: DeviceBase.StartReceiveLoopAsync *)

Receive(m) ==
    /\ loop = "receive"
    /\ queue[m] = "queued"
    /\ queue' = [queue EXCEPT ![m] = "locked"]
    /\ deliveries' = [deliveries EXCEPT ![m] = @ + 1]
    /\ loop' = "handle" /\ cur' = m
    /\ UNCHANGED <<history, pc, view, attempt, handled, feedback, processor, failures, edits, ghosts>>

\* the chain of command processors: Success, CannotComplete, RetryLater or an
\* exception, and what the loop answers to each
Handle ==
    /\ loop = "handle"
    /\ \/ /\ loop' = "complete"
          /\ handled' = [handled EXCEPT ![cur[1]] = @ + 1]
       \/ loop' \in {"reject", "abandon"} /\ UNCHANGED handled
    /\ UNCHANGED <<history, pc, view, attempt, hub, cur, feedback, processor, failures, edits, ghosts>>

Taken == queue[cur] = "locked"   \* the hub takes the answer while the lock lasts

Answer ==
    \/ loop = "complete" /\ Settle(cur, "Success")
    \/ loop = "reject" /\ Settle(cur, "Rejected")
    \/ loop = "abandon" /\ Requeue(cur)

\* mutants: what was carried out is abandoned; a failed answer ends the loop
SignalAbandons ==
    /\ loop \in {"complete", "reject", "abandon"} /\ Taken
    /\ IF loop = "reject" THEN Settle(cur, "Rejected") ELSE Requeue(cur)
    /\ loop' = "receive" /\ cur' = NoCopy
    /\ UNCHANGED <<history, pc, view, attempt, deliveries, handled, processor, failures, edits, ghosts>>
SignalThrows ==
    /\ loop \in {"complete", "reject", "abandon"}
    /\ Taken /\ Answer /\ NoFailure
    /\ loop' = "receive" /\ cur' = NoCopy
    /\ UNCHANGED <<history, pc, view, attempt, deliveries, handled, processor, edits, ghosts>>

\* the transport logs an answer that fails and goes on
Signal ==
    /\ loop \in {"complete", "reject", "abandon"}
    /\ \/ Taken /\ Answer /\ NoFailure
       \/ Taken /\ Fails("signal") /\ UNCHANGED <<queue, feedback>>
       \/ ~Taken /\ NoFailure /\ UNCHANGED <<queue, feedback>>
    /\ loop' = "receive" /\ cur' = NoCopy
    /\ UNCHANGED <<history, pc, view, attempt, deliveries, handled, processor, edits, ghosts>>

-----------------------------------------------------------------------------
(* The feedback processor *)

\* mutant: only one record of the batch is looked at
ReceiveOne ==
    /\ processor = "receiving"
    /\ \E batch \in SUBSET {m \in Copies : feedback[m] = "waiting"} : \E one \in batch :
         /\ feedback' = [m \in Copies |-> IF m \in batch THEN "taken" ELSE feedback[m]]
         /\ pc' = [pc EXCEPT ![one] = "read"]
    /\ processor' = "completing"
    /\ UNCHANGED <<history, view, attempt, hub, device, failures, edits, ghosts>>

\* a batch of records: UpdateDeviceRecord is started for each, up to its first await
ReceiveBatch ==
    /\ processor = "receiving"
    /\ \E batch \in SUBSET {m \in Copies : feedback[m] = "waiting"} :
         /\ batch # {}
         /\ feedback' = [m \in Copies |-> IF m \in batch THEN "taken" ELSE feedback[m]]
         /\ pc' = [w \in Writers |-> IF w \in batch THEN "read" ELSE pc[w]]
    /\ processor' = "completing"
    /\ UNCHANGED <<history, view, attempt, hub, device, failures, edits, ghosts>>

\* OpenAsync, GetFeedbackReceiver or ReceiveAsync throws: the loop ends, and
\* nothing starts it again while the process lives
ReceiveFails ==
    /\ processor = "receiving"
    /\ Fails("receive")
    /\ processor' = "stopped"
    /\ UNCHANGED <<history, pc, view, attempt, hub, device, feedback, edits, ghosts>>

\* CompleteAsync, without waiting for what was started; the loop ends when it throws
CompleteBatch ==
    /\ processor = "completing"
    /\ \/ /\ feedback' = [m \in Copies |-> IF feedback[m] = "taken" THEN "consumed" ELSE feedback[m]]
          /\ processor' = "receiving"
          /\ NoFailure
       \/ /\ Fails("complete")
          /\ processor' = "stopped"
          /\ UNCHANGED feedback
    /\ UNCHANGED <<history, pc, view, attempt, hub, device, edits, ghosts>>

\* an exception in UpdateDeviceRecord, which is async void, ends the process
GoDown ==
    /\ processor' = "down"
    /\ pc' = [w \in Writers |-> IF w \notin Commands \union Editors /\ pc[w] \in {"read", "save"}
                            THEN "failed" ELSE pc[w]]

Entered(m) == [history EXCEPT ![m[1]] = queue[m]]

\* mutant: enters the result at the first pending command
FeedbackReadFirst(m) ==
    /\ pc[m] = "read"
    /\ \E c \in Commands :
         /\ history[c] = "pending"
         /\ Read(m, [history EXCEPT ![c] = queue[m]])
    /\ Goto(m, "save")
    /\ UNCHANGED <<history, attempt, hub, device, feedback, processor, failures, edits, overlap, early>>

\* UpdateDeviceRecord: nothing to do when the history does not hold the command
FeedbackRead(m) ==
    /\ pc[m] = "read"
    /\ \/ /\ history[m[1]] # "absent"
          /\ Read(m, Entered(m))
          /\ Goto(m, "save")
          /\ NoFailure /\ UNCHANGED <<processor, early>>
       \/ /\ history[m[1]] = "absent"
          /\ early' = early \union {m[1]}
          /\ Goto(m, "ok")
          /\ NoFailure /\ UNCHANGED <<processor, view, current>>
       \/ /\ Fails("read")
          /\ GoDown
          /\ UNCHANGED <<view, current, early>>
    /\ UNCHANGED <<history, attempt, hub, device, feedback, edits, overlap>>

FeedbackSave(m) ==
    /\ pc[m] = "save"
    /\ \/ Saved(m) /\ UNCHANGED processor
       \/ SaveFails(m) /\ GoDown
    /\ Drop(m)
    /\ UNCHANGED <<attempt, hub, device, feedback, edits, early>>

ProcessStops ==
    /\ processor # "down"
    /\ Fails("process")
    /\ GoDown
    /\ UNCHANGED <<history, view, attempt, hub, device, feedback, edits, ghosts>>

\* the platform starts the web job again; the locks of a batch that was not
\* completed run out, and the hub delivers its records again
Restart ==
    /\ processor = "down"
    /\ processor' = "receiving"
    /\ feedback' = [m \in Copies |-> IF feedback[m] = "taken" THEN "waiting" ELSE feedback[m]]
    /\ UNCHANGED <<history, pc, view, attempt, hub, device, failures, edits, ghosts>>

-----------------------------------------------------------------------------
(* The other writers of the document *)

\* mutant: the document is built from what the writer knows of it
EditReadNothing(e) ==
    /\ pc[e] # "save"
    /\ edits < MaxEdits
    /\ edits' = edits + 1
    /\ Read(e, Empty)
    /\ Goto(e, "save")
    /\ UNCHANGED <<history, attempt, hub, device, feedback, processor, failures, overlap, early>>

\* the writer changes what it wants to change, and not the history
EditRead(e) ==
    /\ pc[e] # "save"
    /\ edits < MaxEdits
    /\ edits' = edits + 1
    /\ Read(e, history)
    /\ Goto(e, "save")
    /\ UNCHANGED <<history, attempt, hub, device, feedback, processor, failures, overlap, early>>

EditSave(e) ==
    /\ pc[e] = "save"
    /\ \/ Saved(e)
       \/ SaveFails(e) /\ Goto(e, "failed")
    /\ Drop(e)
    /\ UNCHANGED <<attempt, hub, device, feedback, processor, edits, early>>

-----------------------------------------------------------------------------

Request(c)  == SendRead(c) \/ SendMessage(c) \/ CloseDevice(c) \/ InvokeMethod(c) \/ SendSave(c)
Device      == Handle \/ Signal \/ \E m \in Copies : Receive(m)
Feedback    == ReceiveBatch \/ CompleteBatch \/ Restart
Task(m)     == FeedbackRead(m) \/ FeedbackSave(m)

Next ==
    \/ \E c \in Commands : Request(c)
    \/ \E m \in Copies : LockExpires(m) \/ Expires(m) \/ Task(m)
    \/ Device \/ Feedback \/ ReceiveFails \/ ProcessStops
    \/ \E e \in Editors : EditRead(e) \/ EditSave(e)

Spec == Init /\ [][Next]_vars

\* the device's loop, the feedback loop and its tasks go on, the platform starts
\* the web job again, and locks run out
FairSpec ==
    /\ Spec
    /\ WF_vars(Device) /\ WF_vars(Feedback)
    /\ \A m \in Copies : WF_vars(LockExpires(m)) /\ WF_vars(Task(m))

-----------------------------------------------------------------------------
(* Properties *)

Accepted(c) == \E n \in 0 .. RETRY_COUNT : <<c, n>> \in Copies /\ queue[<<c, n>>] # "none"

(* What a device's history says of a command is true, through stale copies  *)
(* of the document, duplicates and redeliveries: a message in it was sent,   *)
(* its result is one the hub reported for that message, and a command it     *)
(* calls a success was carried out by the device.                            *)
HistoryIsTrue ==
    \A c \in Commands :
      /\ history[c] = "Success" => handled[c] > 0
      /\ c \notin Methods /\ history[c] # "absent" => Accepted(c)
      /\ c \notin Methods /\ history[c] \notin {"absent", "pending"} =>
           \E n \in 0 .. RETRY_COUNT : queue[<<c, n>>] = history[c]

(* Without a writer that writes over a newer document, a result once in the *)
(* history is never taken back: only another copy's result may replace it.  *)
ResultsStand ==
    [][\A c \in Commands :
         history[c] \in Outcomes /\ history'[c] # history[c]
           => overlap' \/ history'[c] \in Outcomes]_vars

(* When everything is over, a command that was sent and recorded is left     *)
(* pending, or missing, only if its feedback came before its entry or        *)
(* somebody wrote over a newer document.                                     *)
Over == /\ \A w \in Writers : pc[w] \in {"idle", "ok", "failed"}
        /\ \A m \in Copies : /\ queue[m] \notin {"queued", "locked"}
                              /\ feedback[m] \in {"none", "consumed"}
PendingOnlyWhenRaced ==
    Over /\ ~overlap =>
      \A c \in Commands : pc[c] = "ok" =>
        /\ history[c] # "absent"
        /\ history[c] = "pending" => c \in early

(* The device carries a command out once, and once more only for an answer   *)
(* that was lost (the hub's to the sender, the device's to the hub) or a     *)
(* lock that ran out: each repetition is paid for by a failure.              *)
HandledOnce == \A c \in Commands : handled[c] <= 1 + failures

(* Every message put in the device's queue is settled, and its feedback is   *)
(* taken off the hub, through failing answers, expiring locks and stops of   *)
(* the web job, unless a batch could not be received or completed: then the  *)
(* loop ends.                                                                *)
FeedbackConsumed ==
    \A m \in Copies : queue[m] = "queued" ~> feedback[m] = "consumed" \/ processor = "stopped"

(* What a comment says, and the interleaving refutes.                        *)

(* DeviceLogic.UpdateDeviceFromDeviceInfoPacketAsync is to "Save the command *)
(* history [...] of the existing device": its save drops no command and      *)
(* changes no result.                                                        *)
DeviceInfoKeepsHistory ==
    [][\A e \in Editors : pc[e] = "save" /\ pc'[e] # "save" =>
         \A c \in Commands : history[c] # "absent" => history'[c] = history[c]]_vars

=============================================================================
