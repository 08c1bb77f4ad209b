------------------------------ MODULE PipeRegs ------------------------------
(***************************************************************************)
(* What the podule firmware (podule_regs.h, pipe_packet.c) and the RISC OS *)
(* module (mod_pipe/pipe_packet.S) have in common: the two descriptor      *)
(* queues, the one data buffer each way, and the framing of a packet on    *)
(* the USB serial link.                                                    *)
(***************************************************************************)
EXTENDS Integers, Sequences

CONSTANTS
  NumDescrs,    \* PR_NUM_DESCRS: descriptors in each queue
  BufSize,      \* PR_RX_TX_BUFSZ, scaled down: bytes in each data buffer
  HdrSize       \* PKT_HDR_SIZE, scaled down: bytes of CID and length

ASSUME RegsAssumption ==
  /\ NumDescrs \in Nat \ {0}
  /\ BufSize \in Nat \ {0}
  /\ HdrSize \in Nat \ {0}

Slots == 0 .. NumDescrs - 1

\* Mutant: a queue index that is never wrapped.
NextSlot_NoMask(i) == i + 1

\* (i + 1) & PR_DESCRS_MASK: the podule for its indices, the Arc for its own.
NextSlot(i) == (i + 1) % NumDescrs

(***************************************************************************)
(* A byte is known by the packet it belongs to and by its offset in the    *)
(* framed packet: the first HdrSize bytes are the header, the rest payload.*)
(***************************************************************************)
Bytes(id, len) ==
  [k \in 1 .. HdrSize + len |-> [id |-> id, len |-> len, off |-> k - 1]]

Byte == [id : Nat, len : Nat, off : Nat]

Blank == [id |-> 0, len |-> 0, off |-> 0]   \* a buffer byte never written

\* A framed packet without its header.
Payload(frame, total) == SubSeq(frame, HdrSize + 1, total)

\* A packet as either end sees it: its channel and its payload.
Content(id, len) ==
  [cid |-> id, data |-> Payload(Bytes(id, len), HdrSize + len)]
=============================================================================
