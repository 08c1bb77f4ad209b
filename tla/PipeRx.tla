------------------------------- MODULE PipeRx -------------------------------
(***************************************************************************)
(* The receive direction of the pipe: bytes the host writes to the USB     *)
(* serial port are reassembled by the podule (pipe_packet.c, pipe_rx) and  *)
(* placed in the one RX buffer behind a READY descriptor                   *)
(* (pipe_rx_packet); the Arc polls the descriptor, copies the buffer out   *)
(* byte by byte and clears READY (mod_pipe/pipe_packet.S, pipe_packet_rx). *)
(*                                                                         *)
(* Podule core 0 and the Arc (whose bus cycles core 1 turns into memory    *)
(* accesses) run concurrently on the registers rxDescr and rxMem; RX_HEAD  *)
(* is written by the podule and read by nobody else.  Every access to      *)
(* shared memory that the other side could observe is a step of its own.   *)
(***************************************************************************)
EXTENDS PipeRegs

CONSTANTS
  Lens,         \* payload lengths the server sends
  GarbageLen,   \* length decoded from bytes that are not a packet header
  Spaced,       \* TRUE: the host starts a packet only on a drained link
  MaxPackets    \* bound: packets the host sends

ASSUME RxAssumption ==
  /\ Lens \subseteq Nat
  /\ GarbageLen \in Nat
  /\ Spaced \in BOOLEAN
  /\ MaxPackets \in Nat

VARIABLES
  hostQ,        \* bytes the server wrote that have not crossed USB yet
  fifo,         \* bytes in the TinyUSB receive FIFO
  connected,    \* tud_cdc_n_connected(0)
  podPc,        \* where core 0 is in pipe_rx
  rxBuf,        \* state.rx_buf[0 .. state.rx_pos - 1]
  rxTotal,      \* state.rx_total
  rxLast,       \* state.rx_last_descr
  rxPending,    \* state.rx_packet_pending
  rxDescr,      \* register: the RX descriptors
  rxHead,       \* register: PR_RX_HEAD
  rxMem,        \* register: the RX buffer
  resetReq,     \* r[PR_RESET] != reset_generation
  arcPc,        \* where the Arc is in pipe_packet_rx
  rxTail,       \* WS_RX_TAIL in the module's workspace
  arcDescr,     \* the descriptor as the Arc read it
  arcGot,       \* bytes the Arc has copied out of the RX buffer
  sent,         \* history: packets the host sent
  posted,       \* history: packets made READY since the last pipe_init
  received      \* history: packets the Arc consumed since then

hostVars  == <<hostQ, fifo, connected, sent>>
podVars   == <<podPc, rxBuf, rxTotal, rxLast, rxPending, rxHead, posted>>
regVars   == <<rxDescr, rxMem>>
arcVars   == <<arcPc, rxTail, arcDescr, arcGot, received>>
vars      == <<hostVars, podVars, regVars, resetReq, arcVars>>

RxCap == HdrSize + BufSize             \* sizeof(state.rx_buf)

AllOnes == -1                          \* CID field of a descriptor of length 0

NoDescr == [ready |-> FALSE, cid |-> 0, len |-> 1]

\* The registers after init_podule_space, the module's workspace after init.
Init ==
  /\ hostQ = <<>> /\ fifo = <<>> /\ connected = FALSE
  /\ podPc = "poll" /\ rxBuf = <<>> /\ rxTotal = 0
  /\ rxLast = 0 /\ rxPending = FALSE
  /\ rxDescr = [i \in Slots |-> NoDescr] /\ rxHead = 0
  /\ rxMem = [k \in 1 .. BufSize |-> Blank]
  /\ resetReq = FALSE
  /\ arcPc = "idle" /\ rxTail = 0 /\ arcDescr = NoDescr /\ arcGot = <<>>
  /\ sent = <<>> /\ posted = <<>> /\ received = <<>>

-----------------------------------------------------------------------------
(* Host and USB: external, modelled from how the server and pipe_poll use them *)

\* The server's response enters the serial port (send_packet, process_output).
HostSend(len) ==
  /\ connected
  /\ Len(sent) < MaxPackets
  /\ Spaced => hostQ = <<>> /\ fifo = <<>>
  /\ hostQ' = hostQ \o Bytes(Len(sent) + 1, len)
  /\ sent' = Append(sent, Content(Len(sent) + 1, len))
  /\ UNCHANGED <<fifo, connected, podVars, regVars, resetReq, arcVars>>

\* tud_task moves some bytes into the FIFO, in chunks of any size.  It runs
\* in the main loop, never inside pipe_poll.
UsbDeliver ==
  /\ podPc = "poll" /\ connected
  /\ \E n \in 1 .. Len(hostQ) :
       /\ fifo' = fifo \o SubSeq(hostQ, 1, n)
       /\ hostQ' = SubSeq(hostQ, n + 1, Len(hostQ))
  /\ UNCHANGED <<connected, sent, podVars, regVars, resetReq, arcVars>>

UsbConnect ==
  /\ podPc = "poll" /\ ~connected
  /\ connected' = TRUE
  /\ UNCHANGED <<hostQ, fifo, sent, podVars, regVars, resetReq, arcVars>>

\* The server closes the port (the FIFO survives) or the cable is pulled (it
\* is cleared); what the host had still to send is gone either way.
UsbDisconnect ==
  /\ podPc = "poll" /\ connected
  /\ connected' = FALSE
  /\ hostQ' = <<>>
  /\ fifo' \in {fifo, <<>>}
  /\ UNCHANGED <<sent, podVars, regVars, resetReq, arcVars>>

-----------------------------------------------------------------------------
(* Podule, core 0: pipe_rx and pipe_rx_packet *)

\* data_len, as decoded from the bytes where a header should be.
HeaderLen(buf) == IF buf[1].off = 0 THEN buf[1].len ELSE GarbageLen

\* Mutant: SIZE is the length itself.
MkDescr_Size(cid, len) ==
  [ready |-> TRUE, cid |-> cid, len |-> (len % BufSize) + 1]

\* The SIZE field holds length - 1 in 9 bits; the uint32_t that (len - 1)
\* becomes when len is 0 sets every bit above it as well.
MkDescr(cid, len) ==
  [ready |-> TRUE,
   cid   |-> IF len = 0 THEN AllOnes ELSE cid,
   len   |-> ((len - 1) % BufSize) + 1]

\* Mutant: a held packet alone is no reason to call pipe_rx.
RxHasWork_UsbOnly == connected /\ fifo # <<>>

\* pipe_poll calls pipe_rx when there is USB data, or a packet held back.
RxHasWork == (connected /\ fifo # <<>>) \/ rxPending

\* Mutant: USB is read over a packet that is held.
RxRoom_Unheld == RxCap - Len(rxBuf)

\* How much tud_cdc_n_read may return: nothing is read over a held packet.
RxRoom == IF rxPending THEN 0 ELSE RxCap - Len(rxBuf)

\* Read, then find out whether the packet at the bottom of rx_buf is complete.
RxRead ==
  /\ podPc = "poll"
  /\ RxHasWork
  /\ LET n   == IF RxRoom < Len(fifo) THEN RxRoom ELSE Len(fifo)
         buf == rxBuf \o SubSeq(fifo, 1, n)
     IN  /\ rxBuf' = buf
         /\ fifo' = SubSeq(fifo, n + 1, Len(fifo))
         /\ rxTotal' = IF Len(buf) >= HdrSize
                         THEN HdrSize + HeaderLen(buf) ELSE rxTotal
         /\ podPc' = IF Len(buf) >= HdrSize /\ Len(buf) >= rxTotal'
                       THEN "packet" ELSE "poll"
  /\ UNCHANGED <<hostQ, connected, sent, rxLast, rxPending, rxHead, posted,
                 regVars, resetReq, arcVars>>

\* Mutant: only the descriptor about to be written is looked at.
RxNoRoom_Head == rxDescr[rxHead].ready

\* "It makes sure there are no unconsumed RX descriptors (checking that the
\* last created has been consumed)".
RxNoRoom == rxDescr[rxLast].ready

\* Mutant: a packet that is not accepted is thrown away.
RxStall_Drops ==
  /\ podPc = "packet"
  /\ RxNoRoom
  /\ rxBuf' = <<>>
  /\ podPc' = "poll"
  /\ UNCHANGED <<hostVars, rxTotal, rxLast, rxPending, rxHead, posted, regVars,
                 resetReq, arcVars>>

\* Not accepted: keep the packet, stop reading USB until it is delivered.
RxStall ==
  /\ podPc = "packet"
  /\ RxNoRoom
  /\ rxPending' = TRUE
  /\ podPc' = "poll"
  /\ UNCHANGED <<hostVars, rxBuf, rxTotal, rxLast, rxHead, posted, regVars,
                 resetReq, arcVars>>

\* Accepted: a payload larger than the RX buffer is dropped, any other copied.
RxAccept ==
  /\ podPc = "packet"
  /\ ~RxNoRoom
  /\ podPc' = IF rxTotal - HdrSize > BufSize THEN "trim" ELSE "copy"
  /\ UNCHANGED <<hostVars, rxBuf, rxTotal, rxLast, rxPending, rxHead, posted,
                 regVars, resetReq, arcVars>>

\* memcpy into the RX buffer; what lies beyond the payload keeps its old value.
RxCopy ==
  /\ podPc = "copy"
  /\ LET data == Payload(rxBuf, rxTotal)
     IN  rxMem' = [k \in 1 .. BufSize |->
                     IF k <= Len(data) THEN data[k] ELSE rxMem[k]]
  /\ podPc' = "post"
  /\ UNCHANGED <<hostVars, rxBuf, rxTotal, rxLast, rxPending, rxHead, posted,
                 rxDescr, resetReq, arcVars>>

\* "Once data is in place, construct the descriptor -- making it ready": one
\* word store, seen whole by the Arc.
RxPost ==
  /\ podPc = "post"
  /\ rxDescr' = [rxDescr EXCEPT ![rxHead] =
                   MkDescr(rxBuf[1].id, rxTotal - HdrSize)]
  /\ rxLast' = rxHead
  /\ rxHead' = NextSlot(rxHead)
  /\ posted' = Append(posted, [cid  |-> rxBuf[1].id,
                               data |-> Payload(rxBuf, rxTotal)])
  /\ podPc' = "trim"
  /\ UNCHANGED <<hostVars, rxBuf, rxTotal, rxPending, rxMem, resetReq, arcVars>>

\* Start afresh after an exact read.  With bytes of a next packet in rx_buf
\* the length passed to memmove, rx_total - rx_pos as an unsigned int, is just
\* short of 2^32: the copy runs off the end of RAM and core 0 hard-faults.
RxTrim ==
  /\ podPc = "trim"
  /\ rxPending' = FALSE
  /\ IF Len(rxBuf) > rxTotal
       THEN podPc' = "fault" /\ UNCHANGED rxBuf
       ELSE podPc' = "poll" /\ rxBuf' = <<>>
  /\ UNCHANGED <<hostVars, rxTotal, rxLast, rxHead, posted, regVars, resetReq,
                 arcVars>>

\* pipe_init (its RX half), called by podule_poll when PR_RESET has changed.
PipeInit ==
  /\ podPc = "poll"
  /\ resetReq
  /\ resetReq' = FALSE
  /\ rxDescr' = [i \in Slots |-> NoDescr]
  /\ rxHead' = 0
  /\ rxBuf' = <<>> /\ rxLast' = 0 /\ rxPending' = FALSE
  /\ posted' = <<>> /\ received' = <<>>
  /\ UNCHANGED <<hostVars, podPc, rxTotal, rxMem, arcPc, rxTail, arcDescr,
                 arcGot>>

-----------------------------------------------------------------------------
(* Arc: pipe_packet_rx, and the life of the module *)

ArcRxCall ==
  /\ arcPc = "idle"
  /\ arcPc' = "wait"
  /\ UNCHANGED <<hostVars, podVars, regVars, resetReq, rxTail, arcDescr, arcGot,
                 received>>

\* The poll loop sees READY in the top byte, then reads the other three.
ArcRxReady ==
  /\ arcPc = "wait"
  /\ rxDescr[rxTail].ready
  /\ arcDescr' = rxDescr[rxTail]
  /\ arcGot' = <<>>
  /\ arcPc' = "read"
  /\ UNCHANGED <<hostVars, podVars, regVars, resetReq, rxTail, received>>

\* 0x100000 polls without READY: an error, and the tail stays where it is.
ArcRxTimeout ==
  /\ arcPc = "wait"
  /\ ~rxDescr[rxTail].ready
  /\ arcPc' = "idle"
  /\ UNCHANGED <<hostVars, podVars, regVars, resetReq, rxTail, arcDescr, arcGot,
                 received>>

ArcRxCopy ==
  /\ arcPc = "read"
  /\ Len(arcGot) < arcDescr.len
  /\ arcGot' = Append(arcGot, rxMem[Len(arcGot) + 1])
  /\ UNCHANGED <<hostVars, podVars, regVars, resetReq, arcPc, rxTail, arcDescr,
                 received>>

\* All copied: the Arc may give the slot back.
ArcRxCopied == Len(arcGot) = arcDescr.len

\* "Finally, consume the packet by clearing descr top bit", then advance.
ArcRxConsume ==
  /\ arcPc = "read"
  /\ ArcRxCopied
  /\ rxDescr' = [rxDescr EXCEPT ![rxTail].ready = FALSE, ![rxTail].cid = 0]
  /\ rxTail' = NextSlot(rxTail)
  /\ received' = Append(received, [cid |-> arcDescr.cid, data |-> arcGot])
  /\ arcPc' = "idle"
  /\ UNCHANGED <<hostVars, podVars, rxMem, resetReq, arcDescr, arcGot>>

\* The Arc resets: the loader increments PR_RESET, RISC OS starts again.
ArcReset ==
  /\ arcPc' = "off"
  /\ resetReq' = TRUE
  /\ UNCHANGED <<hostVars, podVars, regVars, rxTail, arcDescr, arcGot, received>>

\* Mutant: the workspace keeps the tail of before the reset.
ModuleInit_KeepsTail ==
  /\ arcPc = "off"
  /\ ~resetReq
  /\ arcPc' = "idle"
  /\ UNCHANGED <<hostVars, podVars, regVars, resetReq, rxTail, arcDescr, arcGot,
                 received>>

\* The module's init.  It is loaded through the ROM window, whose pages the
\* podule serves from the same loop that runs pipe_init.
ModuleInit ==
  /\ arcPc = "off"
  /\ ~resetReq
  /\ rxTail' = 0
  /\ arcPc' = "idle"
  /\ UNCHANGED <<hostVars, podVars, regVars, resetReq, arcDescr, arcGot, received>>

\* Or it starts again without a reset (RMReInit): "workspace already claimed &
\* we're re-initing".  The podule is not told.
ModuleReInit ==
  /\ arcPc = "idle"
  /\ rxTail' = 0
  /\ UNCHANGED <<hostVars, podVars, regVars, resetReq, arcPc, arcDescr, arcGot,
                 received>>

-----------------------------------------------------------------------------
(* Specifications *)

PoduleNext == RxRead \/ RxStall \/ RxAccept \/ RxCopy \/ RxPost \/ RxTrim

ArcProgress == ArcRxCall \/ ArcRxReady \/ ArcRxCopy \/ ArcRxConsume

\* An unbroken connection and no reset: only the Arc's timeouts go wrong.
LinkNext ==
  \/ \E len \in Lens : HostSend(len)
  \/ UsbConnect
  \/ UsbDeliver
  \/ PoduleNext
  \/ ArcProgress
  \/ ArcRxTimeout

ResetNext == ArcReset \/ PipeInit \/ ModuleInit

Next == LinkNext \/ UsbDisconnect \/ ResetNext

Spec     == Init /\ [][Next]_vars
LinkSpec == Init /\ [][LinkNext]_vars

\* A module that is initialised again at any time between its commands.
ReInitNext == Next \/ ModuleReInit
ReInitSpec == Init /\ [][ReInitNext]_vars

\* The main loop of core 0 never stops, USB moves what the host has written,
\* and the Arc goes on asking for packets (each command that expects a
\* response does).  The host owes nothing.
Fairness ==
  /\ WF_vars(UsbConnect) /\ WF_vars(UsbDeliver)
  /\ WF_vars(PoduleNext)
  /\ WF_vars(ArcProgress)

FairLinkSpec == LinkSpec /\ Fairness

-----------------------------------------------------------------------------
(* Properties *)

PodPcs == {"poll", "packet", "copy", "post", "trim", "fault"}
ArcPcs == {"off", "idle", "wait", "read"}
Cid    == Nat \cup {AllOnes}
Descr  == [ready : BOOLEAN, cid : Cid, len : 1 .. BufSize]

\* Every variable holds a value of its C or assembler type.
TypeOK ==
  /\ hostQ \in Seq(Byte) /\ fifo \in Seq(Byte) /\ connected \in BOOLEAN
  /\ podPc \in PodPcs
  /\ rxBuf \in Seq(Byte) /\ rxTotal \in Nat
  /\ rxLast \in Slots /\ rxPending \in BOOLEAN
  /\ rxDescr \in [Slots -> Descr] /\ rxHead \in Slots
  /\ rxMem \in [1 .. BufSize -> Byte]
  /\ resetReq \in BOOLEAN
  /\ arcPc \in ArcPcs /\ rxTail \in Slots
  /\ arcDescr \in Descr /\ arcGot \in Seq(Byte)
  /\ sent \in Seq([cid : Nat, data : Seq(Byte)])
  /\ posted \in Seq([cid : Nat, data : Seq(Byte)])
  /\ received \in Seq([cid : Cid, data : Seq(Byte)])

\* The podule and the Arc keep their queue indices separately (RX_HEAD in a
\* register the Arc never reads, RX_TAIL in the module's workspace).  Outside a
\* reset they always agree: the one READY slot is the one the Arc polls, and
\* with none READY the podule's next slot is the one the Arc polls.
SlotAgreement ==
  arcPc # "off" =>
    IF \E i \in Slots : rxDescr[i].ready
      THEN \A i \in Slots : rxDescr[i].ready => i = rxTail
      ELSE rxHead = rxTail

\* There is one RX buffer for all descriptors.  While any descriptor is READY,
\* however often the Arc times out, disconnects and resets included, the podule
\* neither rewrites the buffer nor creates another READY descriptor.
BufferStable ==
  [][(\E i \in Slots : rxDescr[i].ready)
       => /\ rxMem' = rxMem
          /\ \A i \in Slots : rxDescr'[i].ready => rxDescr[i].ready]_vars

\* What the Arc copies out is what the podule put in: packet by packet the
\* same channel and the same bytes, none torn, lost, repeated or out of order.
\* (Empty packets excepted: RegisterProofs!EmptyIsLongest.)
ReadsWhatWasPosted ==
  /\ Len(received) <= Len(posted)
  /\ \A n \in 1 .. Len(received) : received[n] = posted[n]

\* A packet that claims more than the RX buffer holds is at the bottom of rx_buf.
TooLong == Len(rxBuf) >= HdrSize /\ HeaderLen(rxBuf) > BufSize

\* "Packet size %d is too large! Dropping": it is not dropped, as it can never be
\* complete in rx_buf; it stays there, and nothing is posted any more, whatever
\* the host and the Arc do, until pipe_init.
TooLongBlocks ==
  [][TooLong => PipeInit \/ (TooLong' /\ posted' = posted)]_vars

\* A header stands at the bottom of rx_buf, and it is of one packet.
WholeHeader ==
  /\ HdrSize <= Len(rxBuf)
  /\ \A k \in 1 .. HdrSize : rxBuf[k].id = rxBuf[1].id /\ rxBuf[k].off = k - 1

\* rx_buf holds the start of a packet, the rest of which will not come: all that is
\* on its way is of others.
Torn ==
  /\ podPc = "poll" /\ ~rxPending
  /\ WholeHeader /\ Len(rxBuf) < HdrSize + HeaderLen(rxBuf)
  /\ \A k \in 1 .. Len(fifo)  : fifo[k].id # rxBuf[1].id
  /\ \A k \in 1 .. Len(hostQ) : hostQ[k].id # rxBuf[1].id

\* A packet is delivered, or held back, whose payload is not all its own.
Mixed ==
  /\ podPc \in {"packet", "copy", "post"} \/ (podPc = "poll" /\ rxPending)
  /\ \E k \in HdrSize + 1 .. rxTotal : rxBuf[k].id # rxBuf[1].id

\* pipe_poll looks whether a host is connected, and not whether it still is the one
\* that began the packet in rx_buf.  If that one goes, and the cable with it, before
\* the packet is whole, then the next that is posted has its header, and payload
\* bytes of another, whatever else happens before that, unless pipe_init runs.
CutShortIsPosted ==
  [][/\ UsbDisconnect /\ fifo' = <<>> /\ ~rxPending /\ WholeHeader => Torn'
     /\ Torn => PipeInit \/ Torn' \/ Mixed'
     /\ Mixed => \/ PipeInit \/ Mixed'
                 \/ /\ Len(posted') = Len(posted) + 1
                    /\ LET p == posted'[Len(posted')]
                       IN  \E k \in 1 .. Len(p.data) : p.data[k].id # p.cid]_vars

\* The Arc waits for another slot than the podule uses.
Apart ==
  /\ arcPc \in {"idle", "wait"} /\ ~resetReq
  /\ IF \E i \in Slots : rxDescr[i].ready THEN ~rxDescr[rxTail].ready ELSE rxHead # rxTail

\* Queue ends that are apart stay apart, and the Arc receives nothing, whatever the
\* host and the commands do, until a reset, or until the module starts again.
ApartForGood ==
  [][Apart => ArcReset \/ ModuleReInit \/ (Apart' /\ received' = received)]_vars

\* Core 0 never hard-faults in pipe_rx.
NoFault == podPc # "fault"

\* End to end: with an unbroken connection and a host that spaces its packets,
\* the receive path is the reliable, ordered channel of the README.
Channel == INSTANCE PacketChannel
             WITH Packets   <- {Content(i, l) : i \in 1 .. MaxPackets, l \in Lens},
                  sent      <- sent,
                  delivered <- received

ImplementsChannel == Channel!Spec

\* A packet held back because the Arc was not listening is not forgotten:
\* every packet sent is received, even if no other USB data ever arrives.
EveryPacketArrives ==
  \A n \in 1 .. MaxPackets : (Len(sent) >= n) ~> (Len(received) >= n)
=============================================================================
