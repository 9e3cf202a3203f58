---------------------------- MODULE MCPosixMq ----------------------------
(* Small instances of PosixMq. *)
EXTENDS PosixMqRefines, TLC

CONSTANTS t1, t2, t3, a, b, c

MCPrio == (a :> 1) @@ (b :> 0) @@ (c :> 1)
MCStaticPrio == (t1 :> 1) @@ (t2 :> 0) @@ (t3 :> 1)
==========================================================================
