----------------------------- MODULE Descriptor -----------------------------
(***************************************************************************)
(* The descriptor word of the pipe, bit by bit.  One side builds it and    *)
(* the other takes it apart, each in its own way: the podule by masks and  *)
(* shifts of a word (podule_regs.h), the Arc by pairs of shifts of a       *)
(* register that it stores and loads as four bytes (pipe_packet.S).        *)
(* PipeTx and PipeRx take for granted that the fields arrive.              *)
(*                                                                         *)
(* A number is the set of its bits that are 1.  A size is the packet's     *)
(* length less one: {} is a packet of 1 byte, 0 .. 8 one of 512.           *)
(***************************************************************************)
EXTENDS Integers

Bit  == 0 .. 31
Word == SUBSET Bit

\* Shifts of a register: what leaves it is lost.
Lsl(w, n) == {b \in Bit : b - n \in w}
Lsr(w, n) == {b \in Bit : b + n \in w}

-----------------------------------------------------------------------------
(* podule_regs.h: PR_DESCR_* *)

Ready    == {31}
AddrMask == 0 .. 8
SizeMask == 12 .. 20
CidMask  == 24 .. 30

IsReady(x)   == x \cap Ready # {}
DescrAddr(x) == x \cap AddrMask
DescrSize(x) == Lsr(x \cap SizeMask, 12)     \* the macro then adds 1
DescrCid(x)  == Lsr(x \cap CidMask, 24)

\* pipe_rx_packet: the word it stores.  cid has 8 bits; size is (uint32_t)(len-1).
PostedWord(cid, size) == Lsl(cid, 24) \cup Lsl(size, 12) \cup Ready

\* pipe_tx_done: PR_TX_DESCR & ~PR_DESCR_READY.
Cleared(x) == x \ Ready

-----------------------------------------------------------------------------
(* The shared memory: a word of the podule's is four bytes of the Arc's *)

ByteAt(x, k) == {b \in 0 .. 7 : b + 8 * k \in x}

\* What the podule reads after four byte stores.
WordOf(bytes) == {b \in Bit : \E k \in 0 .. 3 : b - 8 * k \in bytes[k]}

-----------------------------------------------------------------------------
(* mod_pipe/pipe_packet.S *)

\* pipe_packet_tx: r9, made of lsl #23 / lsr #11 of the length less one and
\* lsl #25 / lsr #1 of the CID.
TxWord(cid, size) ==
  Lsr(Lsl(size, 23), 23 - 12) \cup Lsr(Lsl(cid, 25), 25 - 24) \cup Ready

\* Four strb, each of the low byte, with lsr #8 in between.
TxBytes(cid, size) == [k \in 0 .. 3 |-> ByteAt(Lsr(TxWord(cid, size), 8 * k), 0)]

\* The polls of both calls look at bit 7 of the last byte.
SeenReady(bytes) == 7 \in bytes[3]

\* pipe_packet_rx: r4, or-ed together from four ldrb.
Loaded(bytes) ==
  bytes[0] \cup Lsl(bytes[1], 8) \cup Lsl(bytes[2], 16) \cup Lsl(bytes[3], 24)

RxSize(r4) == Lsr(Lsl(r4, 32 - 12 - 9), 32 - 9)   \* then 1 is added
RxCid(r4)  == Lsr(Lsl(r4, 32 - 24 - 7), 32 - 7)
\* lsr #32-7 of a field of 9 bits: two of them are lost.
RxAddr(r4) == Lsr(Lsl(r4, 32 - 0 - 9), 32 - 7)

\* The descriptor the podule has posted, as the Arc loads it.
RxLoaded(cid, size) ==
  Loaded([k \in 0 .. 3 |-> ByteAt(PostedWord(cid, size), k)])

\* The descriptor the Arc has stored, as the podule loads it.
TxLoaded(cid, size) == WordOf(TxBytes(cid, size))
=============================================================================
