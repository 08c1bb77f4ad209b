------------------------------- MODULE Server -------------------------------
(***************************************************************************)
(* The server on the host computer (server/main.c): it reads requests from *)
(* the serial port, which gives them in pieces, has them answered, and     *)
(* writes the answers, which the serial port takes in pieces.  One loop    *)
(* does it all: poll, then process_input unless an answer is waiting, then *)
(* process_output if one is.  When the port hangs up the file is closed    *)
(* and the device is opened again; the buffers are left as they are.       *)
(***************************************************************************)
EXTENDS RawFile

CONSTANTS
  HdrSize,      \* sizeof(pkt_header_t), scaled down
  RxBufSize,    \* sizeof(rx_buffer), scaled down
  PortRooms,    \* bytes the serial port may take before write says EAGAIN
  Requests,     \* the requests clients make
  MaxRequests,  \* bound: requests made
  MaxBreaks     \* bound: times the port hangs up

ASSUME ServerAssumption ==
  /\ HdrSize \in Nat \ {0}
  /\ RxBufSize \in Nat \ {0}
  /\ PortRooms \subseteq Nat \ {0}
  /\ Requests \subseteq Request
  /\ MaxRequests \in Nat
  /\ MaxBreaks \in Nat

VARIABLES
  requests,     \* history: the requests made
  toSend,       \* bytes of them on their way through podule and USB
  portRoom,     \* bytes the serial port takes
  inq,          \* bytes the serial port has for the server
  outq,         \* bytes the serial port has from the server
  got,          \* bytes of an answer that have come back
  answers,      \* history: answers that have come back whole
  lost,         \* history: requests under way when the port hung up
  hup,          \* the port has hung up
  breaks,       \* times it has
  pc,           \* where service_loop is
  rxBuf,        \* rx_buffer[0 .. rx_pos - 1]
  txBuf,        \* tx_buffer[0 .. tx_len - 1], of the last answer
  txPos,        \* tx_pos
  txBusy,       \* tx_len # -1
  channel,      \* current_file and read_buff
  log           \* history: what was dispatched: packets, and reopenings as 0

clientVars == <<requests, toSend, got, answers, lost>>
portVars   == <<portRoom, inq, outq, hup, breaks>>
txVars     == <<txBuf, txPos, txBusy>>
vars       == <<clientVars, portVars, pc, rxBuf, txVars, channel, log>>

\* A byte of a framed message of len bytes, at offset off, header included.
Frame(msg, len) ==
  [k \in 1 .. HdrSize + len |-> [msg |-> msg, len |-> len, off |-> k - 1]]

\* Lengths of the packets, scaled down: 257 and 16 bytes for a name and for a
\* block's place, 1 for the others; 36 and 16 for the answers but a block.
RequestLen(rq) == IF rq.op \in {"init", "read"} THEN 2 ELSE 1
ReplyLen(rp)   == IF rp.kind = "block" THEN Len(rp.data) ELSE 2

Init ==
  /\ requests = <<>> /\ toSend = <<>> /\ got = <<>> /\ answers = <<>> /\ lost = {}
  /\ portRoom \in PortRooms
  /\ inq = <<>> /\ outq = <<>> /\ hup = FALSE /\ breaks = 0
  /\ pc = "poll" /\ rxBuf = <<>>
  /\ txBuf = <<>> /\ txPos = 0 /\ txBusy = FALSE
  /\ channel = RawfileInit
  /\ log = <<>>

-----------------------------------------------------------------------------
(* Clients, podule and serial port: external *)

\* Nothing is under way between client and server.
Quiet ==
  /\ toSend = <<>> /\ inq = <<>> /\ ~txBusy
  /\ outq = <<>> /\ got = <<>> /\ pc = "poll" /\ ~hup

Answered(n) == \E m \in 1 .. Len(answers) : answers[m].req = n

\* What of the requests is on its way or in rx_buffer, byte by byte.
Stream == rxBuf \o inq \o toSend

\* No answer is due: none is on its way, nor a request that may be given one.
Settled ==
  /\ ~txBusy /\ outq = <<>> /\ got = <<>>
  /\ \A k \in 1 .. Len(Stream) : Silent(requests[Stream[k].msg])

Send(rq) ==
  /\ ~hup
  /\ Len(requests) < MaxRequests
  /\ requests' = Append(requests, rq)
  /\ toSend' = Frame(Len(requests) + 1, RequestLen(rq))
  /\ UNCHANGED <<got, answers, lost, portVars, pc, rxBuf, txVars, channel, log>>

SendWhenQuiet(rq)   == Quiet /\ Send(rq)

\* As the commands do: a packet that has no answer as soon as the one before has
\* gone, one that may have when no answer is due.
SendWhenAllowed(rq) == toSend = <<>> /\ (Silent(rq) \/ Settled) /\ Send(rq)

\* USB brings any number of bytes at a time.
UsbIn ==
  /\ ~hup
  /\ \E n \in 1 .. Len(toSend) :
       /\ inq' = inq \o SubSeq(toSend, 1, n)
       /\ toSend' = SubSeq(toSend, n + 1, Len(toSend))
  /\ UNCHANGED <<requests, got, answers, lost, portRoom, outq, hup, breaks, pc, rxBuf,
                 txVars, channel, log>>

\* A byte of an answer goes out; the podule cuts the stream into packets.
UsbOut ==
  /\ ~hup
  /\ outq # <<>>
  /\ outq' = Tail(outq)
  /\ LET frame == Append(got, Head(outq))
     IN  IF Len(frame) >= HdrSize + frame[1].len
           THEN /\ got' = <<>>
                /\ answers' = Append(answers,
                     [req   |-> frame[1].msg.req,
                      reply |-> frame[1].msg.reply,
                      whole |-> frame = Frame(frame[1].msg, frame[1].len)])
           ELSE got' = frame /\ UNCHANGED answers
  /\ UNCHANGED <<requests, toSend, lost, portRoom, inq, hup, breaks, pc, rxBuf,
                 txVars, channel, log>>

\* The port hangs up: what it holds is gone, and so is what was on its way.
HangUp ==
  /\ ~hup /\ breaks < MaxBreaks
  /\ hup' = TRUE /\ breaks' = breaks + 1
  /\ lost' = IF Quiet THEN lost ELSE lost \cup {Len(requests)}
  /\ toSend' = <<>> /\ inq' = <<>> /\ outq' = <<>> /\ got' = <<>>
  /\ UNCHANGED <<requests, answers, portRoom, pc, rxBuf, txVars, channel, log>>

-----------------------------------------------------------------------------
(* service_loop *)

\* poll returns for input, never because there is room for output.  Input is
\* left alone while an answer is waiting.
PollIn ==
  /\ pc = "poll" /\ ~hup
  /\ inq # <<>>
  /\ pc' = IF txBusy THEN "output" ELSE "input"
  /\ UNCHANGED <<clientVars, portVars, rxBuf, txVars, channel, log>>

\* Mutant: the file stays open.
Reopen_Keeps ==
  /\ pc = "poll" /\ hup
  /\ hup' = FALSE
  /\ log' = Append(log, [req |-> 0, whole |-> TRUE])
  /\ UNCHANGED <<clientVars, portRoom, inq, outq, breaks, pc, rxBuf, txVars, channel>>

\* poll returns for the hang-up.  The main loop opens the device again, which
\* service_loop begins by closing the file.
Reopen ==
  /\ pc = "poll" /\ hup
  /\ hup' = FALSE
  /\ channel' = RawfileReopen(channel)
  /\ log' = Append(log, [req |-> 0, whole |-> TRUE])
  /\ UNCHANGED <<clientVars, portRoom, inq, outq, breaks, pc, rxBuf, txVars>>

\* send_packet: whatever tx_buffer holds is overwritten.
SendPacket(n, rp) ==
  /\ txBuf' = Frame([req |-> n, reply |-> rp], ReplyLen(rp))
  /\ txPos' = 0
  /\ txBusy' = TRUE

\* process_packet of the packet at the start of buf, which is the n-th request
\* if all of its bytes are.
ProcessPacket(buf, dend) ==
  LET n  == buf[1].msg
      rq == requests[n]
  IN  /\ log' = Append(log, [req   |-> n,
                             whole |-> Len(buf) >= dend /\
                               SubSeq(buf, 1, dend) = Frame(n, RequestLen(rq))])
      /\ channel' = AfterRequest(channel, rq)
      /\ LET rps == Replies(channel', rq)
         IN  IF rps = <<>> THEN UNCHANGED txVars ELSE SendPacket(n, rps[1])

\* What the reads so far make of a request.
PacketLen(buf) == HdrSize + buf[1].len

\* Mutant: the packet is taken when its last byte has not come.
Complete_Early(buf) == Len(buf) > HdrSize /\ Len(buf) >= PacketLen(buf) - 1

Complete(buf) == Len(buf) > HdrSize /\ Len(buf) >= PacketLen(buf)

\* Mutant: the read buffer is not reset.
RxLeft_All(buf) == buf

\* "Reset read buffer".
RxLeft(buf) == IF Len(buf) > HdrSize /\ Len(buf) = PacketLen(buf) THEN <<>> ELSE buf
Excess(buf) == Len(buf) > HdrSize /\ Len(buf) > PacketLen(buf)

\* What a read into &rx_buffer[rx_pos] of k bytes gets.
InputRoom(k) == IF k <= RxBufSize - Len(rxBuf) THEN k ELSE RxBufSize - Len(rxBuf)

\* One turn of process_input's loop: read what there is, and if that makes a
\* packet, dispatch it.  A read that goes on into the next packet is fatal: the
\* excess is computed the wrong way round, and memmove is given its length.
InputRead ==
  /\ pc = "input" /\ ~hup
  /\ InputRoom(Len(inq)) > 0
  /\ LET n   == InputRoom(Len(inq))
         buf == rxBuf \o SubSeq(inq, 1, n)
     IN  /\ inq' = SubSeq(inq, n + 1, Len(inq))
         /\ IF Complete(buf)
              THEN ProcessPacket(buf, PacketLen(buf))
              ELSE UNCHANGED <<txVars, channel, log>>
         /\ rxBuf' = RxLeft(buf)
         /\ pc' = IF Excess(buf) THEN "crashed" ELSE pc
  /\ UNCHANGED <<clientVars, portRoom, outq, hup, breaks>>

\* Mutant: output is looked at only when there was no input.
InputEnd_NoOutput ==
  /\ pc = "input"
  /\ hup \/ InputRoom(Len(inq)) = 0
  /\ pc' = "poll"
  /\ UNCHANGED <<clientVars, portVars, rxBuf, txVars, channel, log>>

\* read returns 0 or EAGAIN.
InputEnd ==
  /\ pc = "input"
  /\ hup \/ InputRoom(Len(inq)) = 0
  /\ pc' = IF txBusy THEN "output" ELSE "poll"
  /\ UNCHANGED <<clientVars, portVars, rxBuf, txVars, channel, log>>

\* Mutant: write is not told where the rest begins.
TxRest_Whole == txBuf

TxRest == SubSeq(txBuf, txPos + 1, Len(txBuf))      \* &tx_buffer[tx_pos] ...

\* One turn of process_output's loop: the port takes what it has room for.
OutputWrite ==
  /\ pc = "output" /\ ~hup
  /\ Len(outq) < portRoom
  /\ LET room == portRoom - Len(outq)
         n    == IF Len(TxRest) <= room THEN Len(TxRest) ELSE room
     IN  /\ outq' = outq \o SubSeq(TxRest, 1, n)
         /\ txPos' = txPos + n
         /\ txBusy' = (txPos + n # Len(txBuf))
  /\ pc' = IF txBusy' THEN "output" ELSE "poll"
  /\ UNCHANGED <<clientVars, portRoom, inq, hup, breaks, rxBuf, txBuf, channel, log>>

\* write returns an error, EAGAIN or another: back to poll.
OutputEnd ==
  /\ pc = "output"
  /\ hup \/ Len(outq) = portRoom
  /\ pc' = "poll"
  /\ UNCHANGED <<clientVars, portVars, rxBuf, txVars, channel, log>>

ServerNext ==
  PollIn \/ Reopen \/ InputRead \/ InputEnd \/ OutputWrite \/ OutputEnd

-----------------------------------------------------------------------------
(* Specifications *)

WireNext == UsbIn \/ UsbOut \/ ServerNext

\* Clients that leave the link alone until it is quiet; the port hangs up while
\* no part of a packet is in the server's buffers.
CleanHangUp == HangUp /\ rxBuf = <<>> /\ ~txBusy

Next == WireNext \/ (\E rq \in Requests : SendWhenQuiet(rq)) \/ CleanHangUp
Spec == Init /\ [][Next]_vars

\* Clients that send as the commands do.
CommandNext == WireNext \/ (\E rq \in Requests : SendWhenAllowed(rq)) \/ CleanHangUp
CommandSpec == Init /\ [][CommandNext]_vars

\* Every packet that was dispatched was one that a client had sent, and the header
\* in rx_buffer, as far as it has come, is of one packet.
InStep ==
  /\ \A i \in 1 .. Len(log) : log[i].whole
  /\ \A k \in 1 .. Len(rxBuf) : k <= HdrSize => rxBuf[k].msg = rxBuf[1].msg

\* Clients that send at any time, whatever is due, and a port that hangs up at any
\* time: in the middle of a request or of its header, and with an answer, or the rest
\* of one, in tx_buffer.  What a packet or a header put together of two is taken for is
\* left open: it is where the behaviour ends.
AnyNext ==
  /\ InStep
  /\ WireNext \/ (\E rq \in Requests : toSend = <<>> /\ Send(rq)) \/ HangUp
AnySpec == Init /\ [][AnyNext]_vars

\* The server runs, USB moves bytes.  No client has to send anything.
Fairness == WF_vars(ServerNext) /\ WF_vars(UsbIn) /\ WF_vars(UsbOut)

FairSpec == Spec /\ Fairness

-----------------------------------------------------------------------------
(* Properties *)

ByteOf(msgs) == [msg : msgs, len : Nat, off : Nat]
Answer       == [req : Nat, reply : Response]

\* Every variable holds a value of its C type; neither buffer is overrun.
TypeOK ==
  /\ requests \in Seq(Requests) /\ lost \subseteq 0 .. MaxRequests
  /\ toSend \in Seq(ByteOf(Nat)) /\ inq \in Seq(ByteOf(Nat))
  /\ rxBuf \in Seq(ByteOf(Nat)) /\ Len(rxBuf) <= RxBufSize
  /\ outq \in Seq(ByteOf(Answer)) /\ Len(outq) <= portRoom
  /\ got \in Seq(ByteOf(Answer)) /\ txBuf \in Seq(ByteOf(Answer))
  /\ answers \in Seq([req : Nat, reply : Response, whole : BOOLEAN])
  /\ portRoom \in PortRooms
  /\ hup \in BOOLEAN /\ breaks \in 0 .. MaxBreaks
  /\ pc \in {"poll", "input", "output", "crashed"}
  /\ txPos \in 0 .. Len(txBuf) /\ txBusy \in BOOLEAN
  /\ channel \in Channel
  /\ log \in Seq([req : Nat, whole : BOOLEAN])

\* "We read some of the next request too.  Hacky, but shuffle that down to index
\* 0": the server survives whatever it is sent, in whatever pieces.
NoFault == pc # "crashed"

\* The server keeps in step with the framing: it dispatches whole requests, each
\* at most once, in the order in which they were made.
DispatchesWhatWasSent ==
  /\ \A i \in 1 .. Len(log) : log[i].whole
  /\ \A i, j \in 1 .. Len(log) :
       i < j /\ log[i].req # 0 /\ log[j].req # 0 => log[i].req < log[j].req

\* What the i-th dispatch should be answered with, told from the ones before it:
\* the file is that of the last request to open one, unless a close, a failure
\* to open, or a reopening of the port came after it.
Dispatched(i) == requests[log[i].req]
IsOpen(i)     == log[i].req # 0 /\ Dispatched(i).op = "init"
IsClose(i)    == log[i].req = 0 \/ Dispatched(i).op = "close"

FileAt(i, f) ==
  \E k \in 1 .. i :
    /\ IsOpen(k) /\ Search(Dispatched(k).name) = f
    /\ \A j \in k + 1 .. i : ~IsOpen(j) /\ ~IsClose(j)

\* The size and attributes of f: the time stamp and the addresses are its own.
RightFile(f, rp) ==
  /\ rp.size = FileLen[f]
  /\ rp.attr.kind = IF TagOf[f] = "addr" THEN "addr" ELSE "type"
  /\ rp.attr.of = IF TagOf[f] = "none" THEN NoFile ELSE f

RightReply(i, rp) ==
  CASE Dispatched(i).op = "info" -> rp.kind = "info"
    [] Dispatched(i).op = "init" ->
         /\ rp.kind = "init"
         /\ rp.ok <=> Search(Dispatched(i).name) # NoFile
         /\ rp.ok => RightFile(Search(Dispatched(i).name), rp)
    [] Dispatched(i).op = "read" ->
         /\ rp.kind = "block" /\ Len(rp.data) = Dispatched(i).size
         /\ \E f \in Files :
              /\ FileAt(i, f)
              /\ \A k \in 1 .. Len(rp.data) :
                   Dispatched(i).off + k <= FileLen[f] =>
                     rp.data[k] = [file |-> f, pos |-> Dispatched(i).off + k]
    [] OTHER -> FALSE

\* Every answer comes whole, though the port may take it in pieces, and is the
\* right one to the request it is for, in the order of the requests, and once.
AnswersAreRight ==
  /\ \A m \in 1 .. Len(answers) : answers[m].whole
  /\ \A m \in 1 .. Len(answers) :
       \E i \in 1 .. Len(log) :
         /\ log[i].req = answers[m].req /\ log[i].req # 0
         /\ RightReply(i, answers[m].reply)
  /\ \A m, n \in 1 .. Len(answers) : m < n => answers[m].req < answers[n].req

\* rx_buffer holds the start of a packet, the rest of which will not come: all that
\* is on its way is of others.
Torn ==
  /\ rxBuf # <<>> /\ Len(rxBuf) < PacketLen(rxBuf)
  /\ \A k \in 1 .. Len(inq)    : inq[k].msg # rxBuf[1].msg
  /\ \A k \in 1 .. Len(toSend) : toSend[k].msg # rxBuf[1].msg

\* A port that hangs up in the middle of a packet leaves rx_pos where it was, and no
\* reopening of the device mends that: the next packet to be dispatched, or already the
\* header of it, is put together of the one that was cut short and of those that come
\* after it.
CutShortStaysCutShort ==
  [][/\ HangUp /\ rxBuf # <<>> /\ pc # "crashed" => Torn'
     /\ Torn => Torn' \/ ~InStep']_vars

\* The packets of the stream: one that has come in part is still to be served.
Running == pc # "crashed"
Packets ==
  IF Stream = <<>> \/ ~Running THEN <<>>
  ELSE [k \in 1 .. Len(requests) - Stream[1].msg + 1 |->
          [req |-> Stream[1].msg + k - 1, rq |-> requests[Stream[1].msg + k - 1]]]

\* An answer is on its way when the last of it is in the serial port, and waits
\* until then.
Outgoing  == got \o outq
Returning == IF txBusy \/ Outgoing = <<>> THEN <<>> ELSE <<Outgoing[1].msg>>
Waiting   == IF txBusy /\ Running THEN <<txBuf[1].msg>> ELSE <<>>

\* The file that the next request will find open.
Opened ==
  CASE ~Running       -> RawfileInit
    [] hup /\ Running -> RawfileReopen(channel)
    [] OTHER          -> channel

Service == INSTANCE PacketService WITH
  asked <- Len(requests), toHost <- Packets, toArc <- Returning, held <- Waiting,
  channel <- Opened, alive <- Running

\* The bytes that the server moves, in pieces, are the packets of a service that
\* handles each of them at once.
ImplementsService == Service!Spec

\* The port takes the longest answer at once.
Roomy == portRoom >= HdrSize + 2 /\ portRoom >= HdrSize + BlkSize

\* With such a port, a request that calls for an answer gets it, unless the port hangs up while
\* it is under way: host information and an open always, a block if the file
\* is open.
Deserves(n) ==
  \E i \in 1 .. Len(log) :
    /\ log[i].req = n
    /\ \/ Dispatched(i).op \in {"info", "init"}
       \/ Dispatched(i).op = "read" /\ \E f \in Files : FileAt(i, f)

Handled(n) == \E i \in 1 .. Len(log) : log[i].req = n

EveryRequestAnswered ==
  \A n \in 1 .. MaxRequests :
    (Roomy /\ Len(requests) >= n) ~>
      (n \in lost \/ (Handled(n) /\ (Deserves(n) => Answered(n))))
=============================================================================
