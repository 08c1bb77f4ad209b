------------------------------ MODULE Commands ------------------------------
(***************************************************************************)
(* The commands of the RISC OS module (mod_pipe/commands.S and             *)
(* commands_rawfile.S) and the server they talk to, packet by packet: *PT  *)
(* sends a packet that nobody answers, *PI asks for host information, and  *)
(* *PCPL copies a file from the host, a request and its answer at a time,  *)
(* through one buffer.                                                     *)
(*                                                                         *)
(* The pipe is two queues of whole packets, which is what PipeRx and       *)
(* PipeTx implement.  Any call of it may end in a timeout, and so may the  *)
(* answer come when nobody waits for it any more.                          *)
(***************************************************************************)
EXTENDS RawFile

CONSTANTS
  NoName,       \* no file name
  TxTimeouts,   \* sending, too, may time out
  MaxCommands,  \* bound: commands typed
  MaxBreaks     \* bound: hang-ups and restarts of the server

ASSUME CommandsAssumption ==
  /\ Names # {} /\ NoName \notin Names
  /\ TxTimeouts \in BOOLEAN
  /\ MaxCommands \in Nat /\ MaxBreaks \in Nat

VARIABLES
  pc,           \* where the command is; "idle" between commands
  name,         \* r10 of *PCPL: the host's file name
  size,         \* r8: length of the remote file
  pos,          \* r5: file position
  attr,         \* r6, r7: its load and exec address
  scratch,      \* WS_SCRATCH: requests and responses
  local,        \* the local file
  handle,       \* it is open
  failed,       \* an error is saved in r8
  result,       \* how the last *PCPL ended
  shown,        \* kinds of response *PI has printed
  toHost,       \* packets on their way to the server
  toArc,        \* and back
  held,         \* tx_buffer: at most one answer
  channel,      \* current_file and read_buff
  alive,        \* the server is running
  sent,         \* history: requests sent
  commands,     \* commands typed
  breaks        \* hang-ups and restarts

fileVars   == <<name, size, pos, attr, local, handle, failed, result>>
serverVars == <<held, channel, alive, breaks>>
vars == <<pc, fileVars, scratch, shown, toHost, toArc, serverVars, sent, commands>>

NewAttr  == [kind |-> "new", of |-> NoFile]
Lengths  == {FileLen[f] : f \in Files}

\* The request of a packet, whatever bytes of it the channel does not look at.
Rq(op, file, off, n) == [op |-> op, name |-> file, off |-> off, size |-> n]
AnyName == CHOOSE n \in Names : TRUE

Init ==
  /\ pc = "idle" /\ name = NoName /\ size = 0 /\ pos = 0 /\ attr = NewAttr
  /\ scratch = [k \in 1 .. BlkSize |-> BlankCell]
  /\ local = [data |-> <<>>, attr |-> NewAttr] /\ handle = FALSE
  /\ failed = FALSE /\ result = "none" /\ shown = {}
  /\ toHost = <<>> /\ toArc = <<>> /\ held = <<>>
  /\ channel = RawfileInit /\ alive = TRUE
  /\ sent = 0 /\ commands = 0 /\ breaks = 0

-----------------------------------------------------------------------------
(* The pipe, as the commands see it *)

\* pipe_packet_tx: it sends the packet and returns, or times out, when the
\* podule may yet have sent it.  A request is put together in the buffer.
Transmit(rq, ok) ==
  LET packet == [req |-> sent + 1, rq |-> rq]
  IN  /\ ok \/ TxTimeouts
      /\ sent' = sent + 1
      /\ \/ toHost' = Append(toHost, packet)
         \/ ~ok /\ UNCHANGED toHost
      /\ scratch' = [scratch EXCEPT ![1] = BlankCell]
      /\ UNCHANGED <<toArc, serverVars, shown, commands>>

\* pipe_packet_rx, to the buffer.  An empty packet arrives as a full one, of
\* nobody's bytes; the head of other responses is no part of a file.
Receive ==
  /\ toArc # <<>>
  /\ toArc' = Tail(toArc)
  /\ LET reply == Head(toArc).reply
     IN  scratch' = [k \in 1 .. BlkSize |->
           IF k <= Len(reply.data) THEN reply.data[k]
           ELSE IF Len(reply.data) = 0 THEN BlankCell ELSE scratch[k]]
  /\ UNCHANGED <<toHost, serverVars, sent, commands>>

\* Neither call has anything to do with the other's queue.
RxTimeout ==
  UNCHANGED <<scratch, toHost, toArc, serverVars, sent, shown, commands>>

-----------------------------------------------------------------------------
(* *PT and *PI: errors are ignored *)

TestSend ==
  /\ pc = "test" /\ pc' = "idle"
  /\ \E ok \in BOOLEAN : Transmit(Rq("ignore", AnyName, 0, 0), ok)
  /\ UNCHANGED fileVars

InfoSend ==
  /\ pc = "info" /\ pc' = "infoWait"
  /\ \E ok \in BOOLEAN : Transmit(Rq("info", AnyName, 0, 0), ok)
  /\ UNCHANGED fileVars

\* Mutant: a wait without a limit.
InfoAnswer_Forever ==
  /\ pc = "infoWait" /\ pc' = "idle"
  /\ Receive /\ shown' = shown \cup {Head(toArc).reply.kind}
  /\ UNCHANGED fileVars

\* Whatever comes is printed, or after a timeout whatever is in the buffer.
InfoAnswer ==
  /\ pc = "infoWait" /\ pc' = "idle"
  /\ \/ Receive /\ shown' = shown \cup {Head(toArc).reply.kind}
     \/ RxTimeout
  /\ UNCHANGED fileVars

-----------------------------------------------------------------------------
(* *PCPL *)

Return(how) == pc' = "idle" /\ name' = NoName /\ result' = how

\* An error after the local file is there: cmd_pipe_copy_to_local_err_cleanup.
Cleanup == pc' = "close" /\ failed' = TRUE

OpenSend ==
  /\ pc = "open"
  /\ \/ Transmit(Rq("init", name, 0, 0), TRUE) /\ pc' = "openWait" /\ UNCHANGED <<name, result>>
     \/ Transmit(Rq("init", name, 0, 0), FALSE) /\ Return("error")
  /\ UNCHANGED <<size, pos, attr, local, handle, failed>>

\* What the first bytes of a packet say when taken for the answer to an open:
\* the version number of host information is an error, a block may say anything.
Opened(reply) ==
  CASE reply.kind = "init"  -> {[ok |-> reply.ok, size |-> reply.size, attr |-> reply.attr]}
    [] reply.kind = "info"  -> {[ok |-> FALSE, size |-> 0, attr |-> DataAttr]}
    [] reply.kind = "block" -> [ok : BOOLEAN, size : Lengths, attr : {DataAttr}]

\* The answer to the open: an error is printed and is not one of the command;
\* otherwise the local file is created, which may fail.
OpenAnswer ==
  /\ pc = "openWait"
  /\ Receive /\ UNCHANGED shown
  /\ \E o \in Opened(Head(toArc).reply) :
       \/ /\ ~o.ok
          /\ Return("refused")
          /\ UNCHANGED <<size, pos, attr, local, handle, failed>>
       \/ /\ o.ok
          /\ size' = o.size /\ attr' = o.attr /\ pos' = 0
          /\ \/ /\ local' = [data |-> <<>>, attr |-> NewAttr]
                /\ handle' = TRUE /\ pc' = "block" /\ UNCHANGED failed
             \/ Cleanup /\ UNCHANGED <<local, handle>>
          /\ UNCHANGED <<name, result>>

\* The local file is not there yet, and the host is not told.
OpenTimeout ==
  /\ pc = "openWait"
  /\ RxTimeout /\ Return("error")
  /\ UNCHANGED <<size, pos, attr, local, handle, failed>>

\* Mutant: all there is.
BlockLen_Rest == size - pos

BlockLen == IF size - pos > BlkSize THEN BlkSize ELSE size - pos

BlockSend ==
  /\ pc = "block"
  /\ \/ /\ Transmit(Rq("read", AnyName, pos, BlockLen), TRUE)
        /\ pc' = "blockWait" /\ UNCHANGED failed
     \/ Transmit(Rq("read", AnyName, pos, BlockLen), FALSE) /\ Cleanup
  /\ UNCHANGED <<name, size, pos, attr, local, handle, result>>

\* OS_GBPB 1 of n bytes from the buffer.
Written(n) ==
  [local EXCEPT !.data =
     [k \in 1 .. (IF Len(@) > pos + n THEN Len(@) ELSE pos + n) |->
        IF k \in pos + 1 .. pos + n THEN scratch'[k - pos]
        ELSE IF k <= Len(@) THEN @[k] ELSE BlankCell]]

NextBlock == pos + BlkSize < size

\* A block, or what comes in its place, is written; the disc may fill up.
BlockAnswer ==
  /\ pc = "blockWait"
  /\ Receive /\ UNCHANGED shown
  /\ \/ /\ local' = Written(BlockLen)
        /\ pos' = pos + BlkSize
        /\ pc' = IF NextBlock THEN "block" ELSE "attr"
        /\ UNCHANGED failed
     \/ /\ \E n \in 0 .. BlockLen : local' = Written(n)
        /\ Cleanup /\ UNCHANGED pos
  /\ UNCHANGED <<name, size, attr, handle, result>>

\* Mutant: the block is asked for again.
BlockTimeout_Retry ==
  /\ pc = "blockWait" /\ pc' = "block"
  /\ RxTimeout /\ UNCHANGED fileVars

BlockTimeout ==
  /\ pc = "blockWait"
  /\ RxTimeout /\ Cleanup
  /\ UNCHANGED <<name, size, pos, attr, local, handle, result>>

\* OS_File 18 or 1, as the top of the load address says.
SetAttr ==
  /\ pc = "attr"
  /\ \/ local' = [local EXCEPT !.attr = attr] /\ pc' = "close" /\ UNCHANGED failed
     \/ Cleanup /\ UNCHANGED local
  /\ UNCHANGED <<name, size, pos, attr, handle, result, scratch, shown, toHost, toArc,
                 serverVars, sent, commands>>

\* Mutant: an error returns at once.
Close_Leak ==
  /\ pc = "close"
  /\ handle' = failed
  /\ \E ok \in BOOLEAN : Transmit(Rq("close", AnyName, 0, 0), ok)
  /\ Return(IF failed THEN "error" ELSE "done")
  /\ UNCHANGED <<size, pos, attr, local, failed>>

\* Close the local file, then tell the host, whether it is told or not.
Close ==
  /\ pc = "close"
  /\ handle' = FALSE
  /\ \E ok \in BOOLEAN : Transmit(Rq("close", AnyName, 0, 0), ok)
  /\ Return(IF failed THEN "error" ELSE "done")
  /\ UNCHANGED <<size, pos, attr, local, failed>>

CommandStep ==
  \/ TestSend \/ InfoSend \/ InfoAnswer
  \/ OpenSend \/ OpenAnswer \/ OpenTimeout
  \/ BlockSend \/ BlockAnswer \/ BlockTimeout
  \/ SetAttr \/ Close

\* A user types a command.
Type(at, file) ==
  /\ pc = "idle" /\ commands < MaxCommands
  /\ commands' = commands + 1
  /\ pc' = at /\ name' = file /\ failed' = FALSE
  /\ result' = IF at = "open" THEN "none" ELSE result
  /\ UNCHANGED <<size, pos, attr, scratch, local, handle, shown, toHost, toArc, serverVars,
                 sent>>

TypeAny ==
  Type("test", NoName) \/ Type("info", NoName) \/ \E n \in Names : Type("open", n)

-----------------------------------------------------------------------------
(* The server *)

clientVars == <<pc, fileVars, scratch, shown, sent, commands>>

\* send_packet: the answer before, if it has not gone, is overwritten.
SendPacket(packet, rps) ==
  IF rps = <<>> THEN held ELSE <<[req |-> packet.req, reply |-> rps[1]]>>

\* A turn of process_input's loop: a packet, and its answer into tx_buffer.
Serve ==
  /\ alive /\ toHost # <<>>
  /\ toHost' = Tail(toHost)
  /\ LET packet == Head(toHost)
     IN  /\ channel' = AfterRequest(channel, packet.rq)
         /\ held' = SendPacket(packet, Replies(channel', packet.rq))
  /\ UNCHANGED <<clientVars, toArc, alive, breaks>>

\* A read that brings two packets is fatal; what the server held is gone with it.
ReadTogether ==
  /\ alive /\ Len(toHost) >= 2
  /\ alive' = FALSE
  /\ toHost' = <<>> /\ held' = <<>> /\ channel' = RawfileInit
  /\ UNCHANGED <<clientVars, toArc, breaks>>

\* process_output, the port having room.
Output ==
  /\ alive /\ held # <<>>
  /\ toArc' = Append(toArc, held[1]) /\ held' = <<>>
  /\ UNCHANGED <<clientVars, toHost, channel, alive, breaks>>

\* The port hangs up and is opened again: packets under way are gone, but one
\* in the RX buffer, and one in tx_buffer, which goes out on the new connection.
Reopen ==
  /\ alive /\ breaks < MaxBreaks
  /\ breaks' = breaks + 1
  /\ channel' = RawfileReopen(channel)
  /\ toHost' = <<>> /\ (toArc' = <<>> \/ UNCHANGED toArc)
  /\ UNCHANGED <<clientVars, held, alive>>

\* The server is killed, or has crashed, and is started again.
Restart ==
  /\ breaks < MaxBreaks
  /\ breaks' = breaks + 1
  /\ alive' = TRUE /\ channel' = RawfileInit /\ held' = <<>>
  /\ UNCHANGED <<clientVars, toHost, toArc>>

ServerTurn == Serve \/ ReadTogether \/ Output

-----------------------------------------------------------------------------
(* Specifications *)

\* Nothing of an earlier command is under way, nor an answer nobody fetched.
Quiet == toHost = <<>> /\ held = <<>> /\ toArc = <<>>

Wire == CommandStep \/ ServerTurn \/ Reopen \/ Restart

\* Users who type a command when the link is quiet.
Next == Wire \/ (Quiet /\ TypeAny)
Spec == Init /\ [][Next]_vars

\* Users who do not know about the link.
AnyNext == Wire \/ TypeAny
AnySpec == Init /\ [][AnyNext]_vars

\* A command's loops all end, if only by a timeout.
FairSpec == Spec /\ WF_vars(CommandStep)

-----------------------------------------------------------------------------
(* Properties *)

Packet == [req : Nat, rq : Request]
Answer == [req : Nat, reply : Response]

TypeOK ==
  /\ pc \in {"idle", "test", "info", "infoWait", "open", "openWait", "block",
             "blockWait", "attr", "close"}
  /\ name \in Names \cup {NoName}
  /\ size \in Nat /\ pos \in Nat /\ attr \in Attr \cup {NewAttr}
  /\ scratch \in [1 .. BlkSize -> Cell]
  /\ local.data \in Seq(Cell) /\ local.attr \in Attr \cup {NewAttr}
  /\ handle \in BOOLEAN /\ failed \in BOOLEAN
  /\ result \in {"none", "done", "refused", "error"}
  /\ shown \subseteq {"info", "init", "block"}
  /\ toHost \in Seq(Packet) /\ toArc \in Seq(Answer) /\ sent \in Nat
  /\ held \in Seq(Answer) /\ Len(held) <= 1 /\ channel \in Channel /\ alive \in BOOLEAN

\* The remote files as a user thinks of them: a name stands for the file that says
\* most about itself, with the bytes of that file, in order.
Says(f)  == CASE TagOf[f] = "type" -> 2 [] TagOf[f] = "addr" -> 1 [] OTHER -> 0
Meant(n) == {f \in Files : BaseOf[f] = n /\
               \A g \in Files : BaseOf[g] = n => Says(g) <= Says(f)}
Remote   == [n \in {BaseOf[f] : f \in Files} |->
               LET f == CHOOSE g \in Meant(n) : TRUE
               IN  [data |-> [k \in 1 .. FileLen[f] |-> [file |-> f, pos |-> k]],
                    attr |-> IF TagOf[f] = "none" THEN DataAttr
                             ELSE [kind |-> TagOf[f], of |-> f]]]

Copy == INSTANCE FileCopy WITH asked <- name

\* *PCPL does what it promises, though any call may time out, discs fill up, and
\* the server be restarted at any point.
ImplementsCopy == Copy!Spec

Service == INSTANCE PacketService WITH asked <- sent

\* Users who type when the link is quiet are clients the server is made for: no
\* command asks for an answer while one is due, whatever has timed out.
ImplementsService == Service!Spec

\* A response a command takes is the one to the request it made last: the channel
\* and the request are not in it to tell by.
TakesItsAnswer == [][Receive => Head(toArc).req = sent]_vars

\* "Yarrrgh!  TX busy!": no answer is overwritten in tx_buffer.
NothingOverwritten ==
  [][held # <<>> /\ held' # held => held' = <<>>]_vars

\* No command returns with the local file open, whatever went wrong.
NothingLeftOpen == pc = "idle" => ~handle

\* "Copies a file from the remote pipe server to a local path": a copy reported
\* as complete is one of the file named.
CopyIsTrue ==
  [][Close /\ result' = "done" => name \in DOMAIN Remote /\ local = Remote[name]]_vars

\* Every command comes back, if the server is there or not.
EveryCommandReturns == pc # "idle" ~> pc = "idle"
=============================================================================
