------------------------------ MODULE MCVpuIo ------------------------------
(* Instances of VpuIo.  Processes are interchangeable model values.         *)
EXTENDS VpuIo, TLC

ProcessSymmetry == Permutations(Clients)
=============================================================================
