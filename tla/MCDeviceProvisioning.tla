------------------------ MODULE MCDeviceProvisioning ------------------------
(* Fault sets for the runs of DeviceProvisioning. *)
EXTENDS DeviceProvisioning, TLC

HubCalls == {"hubAdd", "hubGet", "hubRemove", "hubUpdate"}

NoFaults == {}

\* a call is refused and has no effect
Refused == ((HubCalls \union {"rules"}) \X {"transient", "permanent"})
           \union ({"docRead", "docSave", "docDelete", "keys", "sim"} \X {"permanent"})

\* answers are lost, twin updates fail and processes stop
Everything == Refused
              \union (HubCalls \X {"lost"})
              \union ({"docSave", "docDelete", "sim"} \X {"lost"})
              \union ({"hubTwin", "tag"} \X {"permanent", "lost"})
              \union {<<"process", "crash">>}

Orderly == Everything \ OrderBreakers

TwinUpdateFails == {<<"hubTwin", "permanent">>}

\* callers are interchangeable; the run checks no liveness
Callers == Permutations(Operators)
=============================================================================
