---------------------------- MODULE SharedMemory ----------------------------
(***************************************************************************)
(* Abstract specification of the 4 KB that the Arc and core 0 share, as    *)
(* PipeRx, PipeTx and PodulePages take it to be: the Arc reads or writes a *)
(* byte in one step, in the order of its program; what it writes below     *)
(* RomSize is lost; core 0 writes wherever it likes, at any time.          *)
(***************************************************************************)
EXTENDS Naturals

CONSTANTS
  Bits,       \* D0 to D7
  MemSize,    \* 4096, scaled down: bytes in podule_space
  RomSize     \* 2048, scaled down: of which the first are read-only to the Arc

VARIABLES mem, op, got    \* got: the byte the Arc read last

Byte  == SUBSET Bits      \* the lines that are high
Addrs == 0 .. MemSize - 1

NoOp == [kind |-> "none", addr |-> 0, data |-> {}]

Init == mem = [a \in Addrs |-> {}] /\ op = NoOp /\ got = {}

\* The Arc starts an access.
Ask(kind, a, d) ==
  /\ op.kind = "none"
  /\ op' = [kind |-> kind, addr |-> a, data |-> d]
  /\ UNCHANGED <<mem, got>>

\* The access takes effect.
Read ==
  /\ op.kind = "read"
  /\ op' = [kind |-> "done", addr |-> op.addr, data |-> mem[op.addr]]
  /\ UNCHANGED <<mem, got>>

Write ==
  /\ op.kind = "write"
  /\ mem' = IF op.addr >= RomSize THEN [mem EXCEPT ![op.addr] = op.data] ELSE mem
  /\ op' = NoOp
  /\ UNCHANGED got

\* The Arc has the byte it asked for.
Return ==
  /\ op.kind = "done"
  /\ got' = op.data
  /\ op' = NoOp
  /\ UNCHANGED mem

Core0Write(a, d) ==
  /\ mem' = [mem EXCEPT ![a] = d]
  /\ UNCHANGED <<op, got>>

Next ==
  \/ \E a \in Addrs : Ask("read", a, {})
  \/ \E a \in Addrs, d \in Byte : Ask("write", a, d) \/ Core0Write(a, d)
  \/ Read \/ Write \/ Return

Spec == Init /\ [][Next]_<<mem, op, got>>
=============================================================================
