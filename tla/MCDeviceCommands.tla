-------------------------- MODULE MCDeviceCommands --------------------------
(***************************************************************************)
(* DeviceCommands for TLC: the sets of failures the runs allow.            *)
(***************************************************************************)
EXTENDS DeviceCommands, TLC

Symmetric == Permutations(Commands)

NoFaults == {}

\* everything that may fail
Everything == AllFaults

\* the web job neither stops nor drops a record that was read
TasksFinish == AllFaults \ {"read", "save", "saved", "process"}

=============================================================================
