---------------------------- MODULE MCGpuContext ----------------------------
(* Small instances of GpuContext: one thread overlaps its submissions, the     *)
(* other runs graphs and chains and waits.                                     *)
EXTENDS GpuContext, TLC

CONSTANTS c1, c2

Sizes == {1, 2}
SplitKinds == c1 :> {"submit", "fetch"} @@ c2 :> {"run", "batch", "chain"}
=============================================================================
