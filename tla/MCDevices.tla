------------------------------ MODULE MCDevices ------------------------------
(* TLC: devices that share a folder are interchangeable. *)
EXTENDS DeviceProperties, TLC

DeviceSymmetry == Permutations(Devices)
=============================================================================
