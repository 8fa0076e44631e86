-------------------------- MODULE MCAttachedClients --------------------------
(* AttachedClients on small instances.                                     *)
EXTENDS AttachedClients, TLC

Symmetry ==
  Permutations(Sessions) \cup Permutations(Refreshes) \cup Permutations(DeviceIds)

=============================================================================
