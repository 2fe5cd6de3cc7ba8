---------------------------- MODULE AtomicDevices ----------------------------
(***************************************************************************)
(* What the device registry looks like to the callers of DeviceLogic: an   *)
(* operation changes the entry of its device in one step, and an operation *)
(* that fails has not changed it.  The exceptions are the operations that  *)
(* still have something to do after the registry's write and roll nothing  *)
(* back when that fails: a removal (the rules) and an update (the twin).   *)
(***************************************************************************)
CONSTANTS
    Devices, NoDevice, Operators,
    Kinds,        \* the operations the callers use
    AddKinds,     \* those of them that register a device
    Enabled,      \* HubEnabledState of a document
    NewEnabled,   \* that of a new one
    Registered0   \* the registry at first

VARIABLES
    registered,   \* by device: HubEnabledState of its document, the empty set without one
    call          \* by operator: its operation, the device and how far it has come

Init ==
    /\ registered = Registered0
    /\ call = [o \in Operators |-> [kind |-> "none", dev |-> NoDevice, at |-> "idle"]]

Move(o, at) == call' = [call EXCEPT ![o].at = at]

Start(o) ==
    /\ call[o].at \notin {"open", "applied"}
    /\ \E k \in Kinds, d \in Devices :
         call' = [call EXCEPT ![o] = [kind |-> k, dev |-> d, at |-> "open"]]
    /\ UNCHANGED registered

\* what an operation makes of its device's entry
Change(k, before, after) ==
    \/ k \in AddKinds /\ before = {} /\ \E v \in NewEnabled : after = {v}
    \/ k = "remove" /\ before # {} /\ after = {}
    \/ k \in {"enable", "info"} /\ before # {} /\ after = {"on"}
    \/ k = "disable" /\ before # {} /\ after = {"off"}
    \/ k = "save" /\ before # {} /\ after = before

Apply(o) ==
    /\ call[o].at = "open"
    /\ \E after \in SUBSET Enabled :
         /\ Change(call[o].kind, registered[call[o].dev], after)
         /\ registered' = [registered EXCEPT ![call[o].dev] = after]
    /\ Move(o, "applied")

Return(o) ==
    /\ \/ call[o].at = "applied" /\ Move(o, "ok")
       \/ call[o].at = "open" /\ Move(o, "failed")
       \/ call[o].at = "applied" /\ call[o].kind \in {"remove", "save", "info"} /\ Move(o, "failed")
    /\ UNCHANGED registered

Stop(o) ==
    /\ call[o].at \in {"open", "applied"}
    /\ Move(o, "crashed")
    /\ UNCHANGED registered

\* a step takes one operation further
Next ==
    \E o \in Operators :
        /\ call'[o].at # call[o].at
        /\ Start(o) \/ Apply(o) \/ Return(o) \/ Stop(o)

Spec == Init /\ [][Next]_<<registered, call>>
=============================================================================
