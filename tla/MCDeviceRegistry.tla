-------------------------- MODULE MCDeviceRegistry --------------------------
(***************************************************************************)
(* Small instances of DeviceRegistry: at most two processes and a package  *)
(* "app" that imports "lib".                                               *)
(***************************************************************************)
EXTENDS DeviceRegistry, TLC

\* Every package file imports only what the constant says; "app" imports "lib".
ImportsAppLib == [f \in File |-> IF f = "app" THEN {"lib"} ELSE {}]

\* The processes run one program: exchanging them changes nothing.
ProcSymmetry == Permutations(Proc)
=============================================================================
