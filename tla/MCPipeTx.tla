------------------------------ MODULE MCPipeTx ------------------------------
(* Small instances of PipeTx for TLC. *)
EXTENDS PipeTx

MCLens     == {1, 2}          \* with BufSize = 3: short of a full TX buffer
MCLensFull == {2, 3}          \* with BufSize = 3: a full TX buffer
=============================================================================
