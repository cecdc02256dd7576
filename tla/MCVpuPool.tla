----------------------------- MODULE MCVpuPool -----------------------------
(* Instances of VpuPool: clients are interchangeable model values, and the *)
(* requests are empty, fit, fill a block, or are larger than one.          *)
EXTENDS VpuPool, TLC

ClientSymmetry == Permutations(Clients)
RequestSizes == 0..BlockPages+1
=============================================================================
