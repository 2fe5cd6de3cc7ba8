--------------------------- MODULE MCDeviceRules ---------------------------
(* DeviceRules for TLC: the failures allowed and the symmetry. *)
EXTENDS DeviceRules, TLC

Everything == AllFaults

Symmetric == Permutations(Ids) \union Permutations(Operators)
             \union Permutations(Fields) \union Permutations(Values)
=============================================================================
