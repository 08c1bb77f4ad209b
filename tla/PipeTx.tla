------------------------------- MODULE PipeTx -------------------------------
(***************************************************************************)
(* The transmit direction of the pipe: the Arc fills the one TX buffer     *)
(* byte by byte, makes a descriptor READY and polls until READY clears     *)
(* (mod_pipe/pipe_packet.S, pipe_packet_tx); the podule sees READY, copies *)
(* the packet behind a header into tx_buf, feeds it to USB as the FIFO has *)
(* room, and then takes READY away (pipe_packet.c, pipe_tx_start ff).      *)
(*                                                                         *)
(* Podule core 0 and the Arc run concurrently on the registers txDescr and *)
(* txMem; TX_TAIL is written by the podule and read by nobody else.  Every *)
(* access the other side could observe is a step of its own: the Arc's     *)
(* byte stores, the podule's memcpy, and the load and the store in which   *)
(* pipe_tx_done clears READY.                                              *)
(***************************************************************************)
EXTENDS PipeRegs

CONSTANTS
  Lens,         \* lengths of the packets the Arc sends
  FifoSize,     \* CFG_TUD_CDC_TX_BUFSIZE, scaled down
  MaxPackets,   \* bound: packets the Arc sends
  MaxBreaks     \* bound: times the USB connection is lost

ASSUME TxAssumption ==
  /\ Lens \subseteq 1 .. BufSize
  /\ FifoSize \in Nat \ {0}
  /\ MaxPackets \in Nat
  /\ MaxBreaks \in Nat

VARIABLES
  connected,    \* tud_cdc_n_connected(0)
  breaks,       \* connections lost so far
  fifo,         \* bytes in the TinyUSB transmit FIFO
  hostBuf,      \* bytes of the frame the host is reading
  delivered,    \* history: packets the host read
  podPc,        \* where core 0 is in the transmit half of pipe_poll
  podDescr,     \* the descriptor word core 0 loaded last
  txBuf,        \* state.tx_buf[0 .. state.tx_total - 1], as far as it is built
  txPos,        \* state.tx_pos
  txOngoing,    \* state.tx_ongoing
  submitted,    \* history: packets given whole to the USB FIFO
  offline,      \* history: CIDs consumed with no host connected
  dropped,      \* history: CIDs dropped as off the end of the buffer
  txDescr,      \* register: the TX descriptors
  txMem,        \* register: the TX buffer
  txTail,       \* register: PR_TX_TAIL
  resetReq,     \* r[PR_RESET] != reset_generation
  arcPc,        \* where the Arc is in pipe_packet_tx
  arcPkt,       \* the packet it was called with
  arcK,         \* loop counter: payload bytes, then descriptor bytes stored
  txHead,       \* WS_TX_HEAD in the module's workspace
  asked,        \* history: packets pipe_packet_tx was called with
  reported      \* history: CIDs it returned success for

hostVars == <<hostBuf, delivered>>
usbVars  == <<connected, breaks, fifo>>
podVars  == <<podPc, podDescr, txBuf, txPos, txOngoing, txTail>>
histVars == <<submitted, offline, dropped>>
regVars  == <<txDescr, txMem>>
arcVars  == <<arcPc, arcPkt, arcK, txHead, asked, reported>>
vars     == <<hostVars, usbVars, podVars, histVars, regVars, resetReq, arcVars>>

NoDescr == [ready |-> FALSE, cid |-> 0, len |-> 1]

\* The registers after init_podule_space, the module's workspace after init,
\* and a host that may have opened the serial port already.
Init ==
  /\ connected \in BOOLEAN /\ breaks = 0 /\ fifo = <<>>
  /\ hostBuf = <<>> /\ delivered = <<>>
  /\ podPc = "poll" /\ podDescr = NoDescr
  /\ txBuf = <<>> /\ txPos = 0 /\ txOngoing = FALSE
  /\ submitted = <<>> /\ offline = {} /\ dropped = {}
  /\ txDescr = [i \in Slots |-> NoDescr]
  /\ txMem = [k \in 1 .. BufSize |-> Blank]
  /\ txTail = 0 /\ resetReq = FALSE
  /\ arcPc = "idle" /\ arcPkt = [id |-> 0, len |-> 1] /\ arcK = 0
  /\ txHead = 0
  /\ asked = <<>> /\ reported = {}

-----------------------------------------------------------------------------
(* Host and USB: external, modelled from how pipe_poll uses TinyUSB *)

\* A byte leaves the FIFO and reaches the host, which cuts the stream into
\* packets by their headers.  tud_task runs between calls of pipe_poll.
UsbDrain ==
  /\ podPc = "poll" /\ connected
  /\ fifo # <<>>
  /\ fifo' = Tail(fifo)
  /\ LET frame == Append(hostBuf, Head(fifo))
         total == HdrSize + frame[1].len
     IN  IF Len(frame) >= total
           THEN /\ hostBuf' = <<>>
                /\ delivered' = Append(delivered,
                     [cid |-> frame[1].id, data |-> Payload(frame, total)])
           ELSE hostBuf' = frame /\ UNCHANGED delivered
  /\ UNCHANGED <<connected, breaks, podVars, histVars, regVars, resetReq, arcVars>>

\* The host opens the port, and reads from the start of a frame.
UsbConnect ==
  /\ podPc = "poll" /\ ~connected
  /\ connected' = TRUE
  /\ hostBuf' = <<>>
  /\ UNCHANGED <<breaks, fifo, delivered, podVars, histVars, regVars, resetReq,
                 arcVars>>

\* The host closes the port (the FIFO survives) or the cable is pulled (it is
\* cleared).
UsbDisconnect ==
  /\ podPc = "poll" /\ connected
  /\ breaks < MaxBreaks
  /\ connected' = FALSE /\ breaks' = breaks + 1
  /\ fifo' \in {fifo, <<>>}
  /\ UNCHANGED <<hostVars, podVars, histVars, regVars, resetReq, arcVars>>

-----------------------------------------------------------------------------
(* Podule, core 0: pipe_tx_start, pipe_tx_continue, pipe_tx_done *)

\* Mutant: with no host connected descriptors are left for later.
TxLook_OnlineOnly ==
  /\ podPc = "poll" /\ ~txOngoing
  /\ txDescr[txTail].ready /\ connected
  /\ podDescr' = txDescr[txTail]
  /\ podPc' = "start"
  /\ UNCHANGED <<hostVars, usbVars, txBuf, txPos, txOngoing, txTail, histVars,
                 regVars, resetReq, arcVars>>

\* A descriptor is READY at the tail: start on it, or with no host connected
\* consume it immediately.
TxLook ==
  /\ podPc = "poll" /\ ~txOngoing
  /\ txDescr[txTail].ready
  /\ podDescr' = txDescr[txTail]
  /\ IF connected
       THEN podPc' = "start" /\ UNCHANGED offline
       ELSE podPc' = "load" /\ offline' = offline \cup {txDescr[txTail].cid}
  /\ UNCHANGED <<hostVars, usbVars, txBuf, txPos, txOngoing, txTail, submitted,
                 dropped, regVars, resetReq, arcVars>>

\* addr + len >= PR_RX_TX_BUFSZ, and the Arc always writes address 0.
TxOffEnd(descr) == descr.len >= BufSize

\* "TX off end of buffer! ... dropping packet".
TxDrop ==
  /\ podPc = "start"
  /\ TxOffEnd(podDescr)
  /\ podPc' = "load"
  /\ dropped' = dropped \cup {podDescr.cid}
  /\ UNCHANGED <<hostVars, usbVars, podDescr, txBuf, txPos, txOngoing, txTail,
                 submitted, offline, regVars, resetReq, arcVars>>

\* The "little header before the data".
TxHeader ==
  /\ podPc = "start"
  /\ ~TxOffEnd(podDescr)
  /\ txBuf' = SubSeq(Bytes(podDescr.cid, podDescr.len), 1, HdrSize)
  /\ podPc' = "copy"
  /\ UNCHANGED <<hostVars, usbVars, podDescr, txPos, txOngoing, txTail, histVars,
                 regVars, resetReq, arcVars>>

\* Mutant: tx_total without the header.
TxTotal_NoHeader == podDescr.len

TxTotal == HdrSize + podDescr.len      \* state.tx_total

\* The memcpy of the payload, a byte at a time.
TxCopy ==
  /\ podPc = "copy"
  /\ Len(txBuf) < TxTotal
  /\ txBuf' = Append(txBuf, txMem[Len(txBuf) - HdrSize + 1])
  /\ UNCHANGED <<hostVars, usbVars, podPc, podDescr, txPos, txOngoing, txTail,
                 histVars, regVars, resetReq, arcVars>>

\* tud_cdc_n_write from position pos takes what the FIFO has room for.  When
\* that is all of it the packet is done (and tx_pos dead), else it goes on in
\* later polls.
TxSubmit(pos) ==
  LET room == FifoSize - Len(fifo)
      left == Len(txBuf) - pos
      n    == IF room < left THEN room ELSE left
  IN  /\ fifo' = fifo \o SubSeq(txBuf, pos + 1, pos + n)
      /\ txPos' = pos + n
      /\ txOngoing' = (pos + n < Len(txBuf))
      /\ IF txOngoing'
           THEN podPc' = "poll" /\ UNCHANGED submitted
           ELSE /\ podPc' = "load"
                /\ submitted' = Append(submitted,
                     [cid |-> txBuf[1].id, data |-> Payload(txBuf, Len(txBuf))])

TxFirst ==
  /\ podPc = "copy"
  /\ Len(txBuf) = TxTotal
  /\ TxSubmit(0)
  /\ UNCHANGED <<hostVars, connected, breaks, podDescr, txBuf, txTail, offline,
                 dropped, regVars, resetReq, arcVars>>

\* Mutant: the rest of a packet is sent from its beginning.
TxContinue_Restarts ==
  /\ podPc = "poll" /\ txOngoing
  /\ connected
  /\ TxSubmit(0)
  /\ UNCHANGED <<hostVars, connected, breaks, podDescr, txBuf, txTail, offline,
                 dropped, regVars, resetReq, arcVars>>

TxContinue ==
  /\ podPc = "poll" /\ txOngoing
  /\ connected
  /\ TxSubmit(txPos)
  /\ UNCHANGED <<hostVars, connected, breaks, podDescr, txBuf, txTail, offline,
                 dropped, regVars, resetReq, arcVars>>

\* The connection went while a packet was going out.  Its descriptor is still
\* READY: the next poll consumes it, or sends all of it again if by then the
\* host is back.
TxAbort ==
  /\ podPc = "poll" /\ txOngoing
  /\ ~connected
  /\ txOngoing' = FALSE
  /\ UNCHANGED <<hostVars, usbVars, podPc, podDescr, txBuf, txPos, txTail,
                 histVars, regVars, resetReq, arcVars>>

\* pipe_tx_done: descr = descr & ~READY is a load and a store, then the tail.
TxDoneLoad ==
  /\ podPc = "load"
  /\ podDescr' = txDescr[txTail]
  /\ podPc' = "store"
  /\ UNCHANGED <<hostVars, usbVars, txBuf, txPos, txOngoing, txTail, histVars,
                 regVars, resetReq, arcVars>>

TxDoneStore ==
  /\ podPc = "store"
  /\ txDescr' = [txDescr EXCEPT ![txTail] = [podDescr EXCEPT !.ready = FALSE]]
  /\ podPc' = "advance"
  /\ UNCHANGED <<hostVars, usbVars, podDescr, txBuf, txPos, txOngoing, txTail,
                 histVars, txMem, resetReq, arcVars>>

\* Mutant: the tail stays where it is.
TxAdvance_Stays ==
  /\ podPc = "advance"
  /\ podPc' = "poll"
  /\ UNCHANGED <<hostVars, usbVars, podDescr, txBuf, txPos, txOngoing, txTail,
                 histVars, regVars, resetReq, arcVars>>

TxAdvance ==
  /\ podPc = "advance"
  /\ txTail' = NextSlot(txTail)
  /\ podPc' = "poll"
  /\ UNCHANGED <<hostVars, usbVars, podDescr, txBuf, txPos, txOngoing, histVars,
                 regVars, resetReq, arcVars>>

\* Mutant: the tail survives the reset.
PipeInit_KeepsTail ==
  /\ podPc = "poll"
  /\ resetReq
  /\ resetReq' = FALSE
  /\ txDescr' = [i \in Slots |-> NoDescr]
  /\ txOngoing' = FALSE /\ txPos' = 0
  /\ UNCHANGED <<hostVars, usbVars, podPc, podDescr, txBuf, txTail, histVars,
                 txMem, arcVars>>

\* pipe_init (its TX half), called by podule_poll when PR_RESET has changed.
PipeInit ==
  /\ podPc = "poll"
  /\ resetReq
  /\ resetReq' = FALSE
  /\ txDescr' = [i \in Slots |-> NoDescr]
  /\ txTail' = 0
  /\ txOngoing' = FALSE /\ txPos' = 0
  /\ UNCHANGED <<hostVars, usbVars, podPc, podDescr, txBuf, histVars, txMem,
                 arcVars>>

-----------------------------------------------------------------------------
(* Arc: pipe_packet_tx, and the life of the module *)

\* A command sends a packet.  Each has a CID of its own, to tell them apart.
ArcTxCall(len) ==
  /\ arcPc = "idle"
  /\ Len(asked) < MaxPackets
  /\ arcPkt' = [id |-> Len(asked) + 1, len |-> len]
  /\ asked' = Append(asked, Content(Len(asked) + 1, len))
  /\ arcK' = 0
  /\ arcPc' = "fill"
  /\ UNCHANGED <<hostVars, usbVars, podVars, histVars, regVars, resetReq, txHead,
                 reported>>

\* One byte into the TX buffer at index 0; no look at what is there.
ArcTxFill ==
  /\ arcPc = "fill"
  /\ txMem' = [txMem EXCEPT ![arcK + 1] =
                 Bytes(arcPkt.id, arcPkt.len)[HdrSize + arcK + 1]]
  /\ IF arcK + 1 < arcPkt.len
       THEN arcK' = arcK + 1 /\ UNCHANGED arcPc
       ELSE arcK' = 0 /\ arcPc' = "descr"
  /\ UNCHANGED <<hostVars, usbVars, podVars, histVars, txDescr, resetReq, arcPkt,
                 txHead, asked, reported>>

\* Mutant: the byte with READY goes first.
DescrStores_TopFirst == <<"top", "size">>

\* "Write descriptor LSB-first": the bytes that hold the length, then the top
\* byte with the CID and READY.
DescrStores == <<"size", "top">>

ArcTxStore ==
  /\ arcPc = "descr"
  /\ txDescr' = [txDescr EXCEPT ![txHead] =
       IF DescrStores[arcK + 1] = "size"
         THEN [@ EXCEPT !.len = arcPkt.len]
         ELSE [@ EXCEPT !.ready = TRUE, !.cid = arcPkt.id]]
  /\ IF arcK + 1 < Len(DescrStores)
       THEN arcK' = arcK + 1 /\ UNCHANGED arcPc
       ELSE arcK' = 0 /\ arcPc' = "wait"
  /\ UNCHANGED <<hostVars, usbVars, podVars, histVars, txMem, resetReq, arcPkt,
                 txHead, asked, reported>>

\* Mutant: the poll's result is not looked at.
ArcTxSent_NoPoll ==
  /\ arcPc = "wait"
  /\ txHead' = NextSlot(txHead)
  /\ reported' = reported \cup {arcPkt.id}
  /\ arcPc' = "idle"
  /\ UNCHANGED <<hostVars, usbVars, podVars, histVars, regVars, resetReq, arcPkt,
                 arcK, asked>>

\* The poll of the top byte finds READY clear: move on, and return success.
ArcTxSent ==
  /\ arcPc = "wait"
  /\ ~txDescr[txHead].ready
  /\ txHead' = NextSlot(txHead)
  /\ reported' = reported \cup {arcPkt.id}
  /\ arcPc' = "idle"
  /\ UNCHANGED <<hostVars, usbVars, podVars, histVars, regVars, resetReq, arcPkt,
                 arcK, asked>>

\* 0x100000 polls and still READY: an error, the head and the descriptor stay.
ArcTxTimeout ==
  /\ arcPc = "wait"
  /\ txDescr[txHead].ready
  /\ arcPc' = "idle"
  /\ UNCHANGED <<hostVars, usbVars, podVars, histVars, regVars, resetReq, arcPkt,
                 arcK, txHead, asked, reported>>

\* The Arc resets: the loader increments PR_RESET, RISC OS starts again.
ArcReset ==
  /\ arcPc' = "off"
  /\ resetReq' = TRUE
  /\ UNCHANGED <<hostVars, usbVars, podVars, histVars, regVars, arcPkt, arcK,
                 txHead, asked, reported>>

\* The module's init, loaded through the ROM window that the podule serves
\* from the same loop that runs pipe_init.
ModuleInit ==
  /\ arcPc = "off"
  /\ ~resetReq
  /\ txHead' = 0
  /\ arcPc' = "idle"
  /\ UNCHANGED <<hostVars, usbVars, podVars, histVars, regVars, resetReq, arcPkt,
                 arcK, asked, reported>>

\* Or it starts again without a reset (RMReInit): "workspace already claimed &
\* we're re-initing".  The podule is not told.
ModuleReInit ==
  /\ arcPc = "idle"
  /\ txHead' = 0
  /\ UNCHANGED <<hostVars, usbVars, podVars, histVars, regVars, resetReq, arcPc,
                 arcPkt, arcK, asked, reported>>

-----------------------------------------------------------------------------
(* Specifications *)

PoduleNext ==
  \/ TxLook \/ TxDrop \/ TxHeader \/ TxCopy \/ TxFirst \/ TxContinue \/ TxAbort
  \/ TxDoneLoad \/ TxDoneStore \/ TxAdvance

ArcStep == ArcTxFill \/ ArcTxStore \/ ArcTxSent

\* One connection, an Arc that waits as long as it takes, no reset.
LinkNext ==
  \/ UsbDrain
  \/ PoduleNext
  \/ \E len \in Lens : ArcTxCall(len)
  \/ ArcStep

BreakNext == UsbConnect \/ UsbDisconnect
ResetNext == ArcReset \/ PipeInit \/ ModuleInit

\* An Arc that waits as long as it takes: "Long timeout".
PatientNext == LinkNext \/ BreakNext \/ ResetNext

Next == PatientNext \/ ArcTxTimeout

Spec        == Init /\ [][Next]_vars
PatientSpec == Init /\ [][PatientNext]_vars

\* A module that is initialised again at any time between its commands.
ReInitNext == Next \/ ModuleReInit
ReInitSpec == Init /\ [][ReInitNext]_vars

\* The host has opened the serial port.
ConnectedInit == Init /\ connected

LinkSpec == ConnectedInit /\ [][LinkNext]_vars

\* Core 0 never leaves its main loop, the host takes what it is sent, and a
\* call of pipe_packet_tx runs on.  Nobody has to send a packet, or to connect.
Fairness == WF_vars(PoduleNext) /\ WF_vars(UsbDrain) /\ WF_vars(ArcStep)

FairLinkSpec    == LinkSpec /\ Fairness
FairPatientSpec == PatientSpec /\ Fairness

\* Core 0 goes round its main loop and can do nothing: the FIFO is full, or no
\* READY descriptor is where it looks.
Stalled ==
  podPc = "poll" /\ IF txOngoing THEN Len(fifo) = FifoSize
                                 ELSE ~txDescr[txTail].ready

\* One connection, and the Arc gives up only on a podule that is stalled.
FairStallSpec ==
  ConnectedInit /\ [][LinkNext \/ (Stalled /\ ArcTxTimeout)]_vars /\ Fairness

-----------------------------------------------------------------------------
(* Properties *)

PodPcs == {"poll", "start", "copy", "load", "store", "advance"}
ArcPcs == {"off", "idle", "fill", "descr", "wait"}
Descr  == [ready : BOOLEAN, cid : Nat, len : 1 .. BufSize]

\* Every variable holds a value of its C or assembler type.
TypeOK ==
  /\ connected \in BOOLEAN /\ breaks \in 0 .. MaxBreaks
  /\ fifo \in Seq(Byte) /\ Len(fifo) <= FifoSize
  /\ hostBuf \in Seq(Byte)
  /\ delivered \in Seq([cid : Nat, data : Seq(Byte)])
  /\ podPc \in PodPcs /\ podDescr \in Descr
  /\ txBuf \in Seq(Byte) /\ txOngoing \in BOOLEAN
  /\ txPos \in Nat /\ (txOngoing => txPos < Len(txBuf))
  /\ submitted \in Seq([cid : Nat, data : Seq(Byte)])
  /\ offline \subseteq Nat /\ dropped \subseteq Nat
  /\ txDescr \in [Slots -> Descr] /\ txTail \in Slots
  /\ txMem \in [1 .. BufSize -> Byte]
  /\ resetReq \in BOOLEAN
  /\ arcPc \in ArcPcs /\ arcPkt \in [id : Nat, len : Lens \cup {1}]
  /\ arcK \in (0 .. BufSize - 1) \cup {0, 1}
  /\ txHead \in Slots
  /\ asked \in Seq([cid : Nat, data : Seq(Byte)])
  /\ reported \subseteq Nat

Ready(i) == txDescr[i].ready

\* The slot the podule looks at next: it moves TX_TAIL only after it has
\* cleared READY, when the Arc may already be filling the next packet.
TailToBe == IF podPc = "advance" THEN NextSlot(txTail) ELSE txTail

\* The Arc keeps the head in its workspace, the podule the tail in a register
\* the Arc never reads.  Whatever the podule is in the middle of, with breaks
\* and resets, the two queue ends meet: the slot the Arc writes next is the
\* slot the podule looks at next, and a READY slot is the one the Arc waits on.
SlotAgreement ==
  /\ arcPc \in {"idle", "fill", "descr"} => txHead = TailToBe
  /\ arcPc = "wait" => IF Ready(txHead) THEN txHead = TailToBe
                                        ELSE NextSlot(txHead) = TailToBe

\* There is one TX buffer: at no moment is more than one packet outstanding,
\* and that one in the slot at the Arc's head.  Timeouts do not change this.
OneOutstanding == arcPc # "off" => \A i \in Slots : Ready(i) => i = txHead

\* The podule reads the TX buffer only while the Arc leaves it alone: what it
\* submits to USB is, whole and untorn, a packet pipe_packet_tx was called
\* with, and no packet is submitted twice or out of order.
SubmitsWhatWasAsked ==
  /\ \A n \in 1 .. Len(submitted) :
       /\ submitted[n].cid \in 1 .. Len(asked)
       /\ submitted[n] = asked[submitted[n].cid]
  /\ \A m, n \in 1 .. Len(submitted) :
       m < n => submitted[m].cid < submitted[n].cid

\* The podule is at rest and looks at a slot that the Arc does not write.
Wedged ==
  /\ arcPc # "off" /\ ~resetReq
  /\ podPc = "poll" /\ ~txOngoing /\ ~Ready(txTail)
  /\ txHead # txTail
  /\ arcPc = "wait" => Ready(txHead)

\* After that no packet is sent, consumed or reported any more, whatever the
\* commands and the host do, until a reset, or until the module starts again.
WedgedForGood ==
  [][Wedged => \/ ArcReset \/ ModuleReInit
               \/ Wedged' /\ UNCHANGED <<histVars, reported>>]_vars

Submitted == {submitted[n].cid : n \in 1 .. Len(submitted)}

\* "Reliable transport for packets from 1-512 bytes": a packet that fills the TX
\* buffer is never given to USB, whole or in part, as the podule takes it to run
\* off the end; pipe_packet_tx returns success for it all the same.
LongestNeverGoes ==
  /\ txOngoing => Len(txBuf) < HdrSize + BufSize
  /\ \A n \in 1 .. Len(submitted) : Len(submitted[n].data) < BufSize

\* pipe_packet_tx returns success only for a packet that the podule has dealt
\* with: given to USB whole, or consumed because there is no host connected or
\* because the podule thinks it too long.  READY going away never means another
\* packet, or a reset.
ReportedWasHandled == reported \subseteq Submitted \cup offline \cup dropped

\* The host is in step with the framing: what it has read of a frame is the
\* beginning of a packet, and what it has read before are the packets asked for.
Framed ==
  /\ \A k \in 1 .. Len(hostBuf) :
       hostBuf[k] = [hostBuf[1] EXCEPT !.off = k - 1]
  /\ \A n \in 1 .. Len(delivered) :
       \E m \in 1 .. Len(asked) : delivered[n] = asked[m]

\* End to end: with one connection and a patient Arc the transmit path is the
\* reliable, ordered channel of the README.
Channel == INSTANCE PacketChannel
             WITH Packets   <- {Content(i, l) : i \in 1 .. MaxPackets, l \in Lens},
                  sent      <- asked,
                  delivered <- delivered

ImplementsChannel == Channel!Spec

\* Every packet reaches the host, though the FIFO is shorter than two frames
\* and the podule has to come back to finish one.
EveryPacketArrives ==
  \A n \in 1 .. MaxPackets : (Len(asked) >= n) ~> (Len(delivered) >= n)

\* The Arc is not left waiting: however the connection comes and goes, a call
\* of pipe_packet_tx comes to its end, unless the Arc is reset in the middle.
EveryCallReturns == arcPc \in {"fill", "descr", "wait"} ~> arcPc \in {"idle", "off"}

\* "Descriptor written.  The card will now send the packet!": a READY descriptor
\* does not stay READY for ever.
CardWillSend == \A i \in Slots : Ready(i) ~> ~Ready(i)
=============================================================================
