--------------------------- MODULE CommandsProofs ---------------------------
(***************************************************************************)
(* Proofs about Commands for any files, any size of block, and any number  *)
(* of commands, hang-ups and restarts: *PCPL implements FileCopy.          *)
(***************************************************************************)
EXTENDS Commands, SequenceTheorems, TLAPS

USE FileAssumption, CommandsAssumption

-----------------------------------------------------------------------------
(* The remote files *)

LEMMA SomeName == AnyName \in Names
BY DEF AnyName

\* The server opens the file that the user means.
LEMMA SearchIsMeant ==
  ASSUME NEW n \in Names
  PROVE  /\ Search(n) \in Files \cup {NoFile}
         /\ n \in DOMAIN Remote <=> Search(n) # NoFile
         /\ n \in DOMAIN Remote =>
              /\ Search(n) \in Files
              /\ Remote[n].attr = AttrOf(Search(n))
              /\ Remote[n].data =
                   [k \in 1 .. FileLen[Search(n)] |-> [file |-> Search(n), pos |-> k]]
              /\ Remote[n] = [data |-> Remote[n].data, attr |-> Remote[n].attr]
<1> DEFINE typed == Glob(n, "type")
           addr  == Glob(n, "addr")
           plain == Glob(n, "none")
           found == IF typed # {} THEN typed ELSE IF addr # {} THEN addr ELSE plain
<1>1. Search(n) = FirstOf(found)
  BY DEF Search
<1>2. found = Meant(n) /\ found \subseteq Files
  BY DEF Glob, Meant, Says
<1>3. n \in DOMAIN Remote <=> \E f \in Files : BaseOf[f] = n
  BY DEF Remote
<1>4. (\E f \in Files : BaseOf[f] = n) <=> found # {}
  BY DEF Glob
<1>5. CASE found = {}
  BY <1>1, <1>3, <1>4, <1>5 DEF FirstOf
<1>6. CASE found # {}
  <2> DEFINE f == CHOOSE g \in Meant(n) : TRUE
  <2>1. Search(n) = f /\ f \in Files
    BY <1>1, <1>2, <1>6 DEF FirstOf
  <2>2. n \in DOMAIN Remote
    BY <1>3, <1>4, <1>6
  <2>3. Remote[n] = [data |-> [k \in 1 .. FileLen[f] |-> [file |-> f, pos |-> k]],
                     attr |-> IF TagOf[f] = "none" THEN DataAttr
                              ELSE [kind |-> TagOf[f], of |-> f]]
    BY <2>2 DEF Remote
  <2> HIDE DEF f, found
  <2>4. f # NoFile
    BY <2>1
  <2>5. Remote[n].data = [k \in 1 .. FileLen[f] |-> [file |-> f, pos |-> k]]
    BY <2>3
  <2>6. Remote[n].attr = AttrOf(f)
    BY <2>3, <2>4 DEF AttrOf
  <2>7. Remote[n] = [data |-> Remote[n].data, attr |-> Remote[n].attr]
    BY <2>3
  <2> QED
    BY <2>1, <2>2, <2>4, <2>5, <2>6, <2>7
<1> QED
  BY <1>5, <1>6

LEMMA AttrType == ASSUME NEW f \in Files \cup {NoFile} PROVE AttrOf(f) \in Attr
BY DEF AttrOf, Attr, DataAttr

-----------------------------------------------------------------------------
(* The server *)

\* A request that says nothing is not answered, another at most once.
LEMMA ServerTypes ==
  ASSUME NEW ch \in Channel, NEW rq \in Request
  PROVE  /\ AfterRequest(ch, rq) \in Channel
         /\ Replies(AfterRequest(ch, rq), rq) \in Seq(Response)
         /\ Len(Replies(AfterRequest(ch, rq), rq)) <= 1
         /\ Silent(rq) => Replies(AfterRequest(ch, rq), rq) = <<>>
<1> DEFINE c == AfterRequest(ch, rq)
<1>1. c \in Channel
  <2>1. CASE rq.op = "init"
    BY <2>1, SearchIsMeant DEF AfterRequest, CrfOpenRead, Channel, Request
  <2>2. CASE rq.op = "read" /\ ch.file # NoFile
    <3>1. c = Pread(ch, rq.off, rq.size)
      BY <2>2 DEF AfterRequest
    <3>2. Pread(ch, rq.off, rq.size).buff \in [1 .. BlkSize -> Cell]
      BY <2>2 DEF Pread, Channel, Cell, Request
    <3> QED
      BY <3>1, <3>2 DEF Pread, Channel
  <2>3. CASE rq.op = "close"
    BY <2>3 DEF AfterRequest, CrfClose, Channel
  <2>4. CASE rq.op \notin {"init", "read", "close"} \/ (rq.op = "read" /\ ch.file = NoFile)
    BY <2>4 DEF AfterRequest
  <2> QED
    BY <2>1, <2>2, <2>3, <2>4
<1> HIDE DEF c
<1>2. rq.size \in 0 .. BlkSize /\ rq.size \in Nat
  BY DEF Request
<1>3. c.buff \in Seq(Cell) /\ Len(c.buff) = BlkSize /\ c.file \in Files \cup {NoFile}
  BY <1>1, IsASeq DEF Channel
<1>4. SubSeq(c.buff, 1, rq.size) \in Seq(Cell)
  BY <1>2, <1>3, SubSeqProperties
<1>5. AttrOf(c.file) \in Attr /\ DataAttr \in Attr /\ <<>> \in Seq(Cell)
  BY <1>3, AttrType DEF DataAttr, Attr
<1>6. ASSUME NEW r \in Response PROVE <<r>> \in Seq(Response) /\ Len(<<r>>) = 1
  OBVIOUS
<1>7. CASE rq.op = "info"
  <2>1. Replies(c, rq) = <<[kind |-> "info", ok |-> TRUE, size |-> 0, attr |-> DataAttr, data |-> <<>>]>>
    BY <1>7 DEF Replies, Reply
  <2>2. [kind |-> "info", ok |-> TRUE, size |-> 0, attr |-> DataAttr, data |-> <<>>] \in Response
    BY <1>5 DEF Response
  <2> QED
    BY <1>1, <1>6, <1>7, <2>1, <2>2 DEF c, Silent
<1>8. CASE rq.op = "init"
  <2> DEFINE r == [kind |-> "init", ok |-> c.file # NoFile,
                   size |-> IF c.file # NoFile THEN FileLen[c.file] ELSE 0,
                   attr |-> AttrOf(c.file), data |-> <<>>]
  <2>1. Replies(c, rq) = <<r>>
    BY <1>8 DEF Replies, Reply
  <2>2. r \in Response
    BY <1>3, <1>5 DEF Response
  <2> QED
    BY <1>1, <1>6, <1>8, <2>1, <2>2 DEF c, Silent
<1>9. CASE rq.op = "read" /\ c.file # NoFile
  <2> DEFINE r == [kind |-> "block", ok |-> TRUE, size |-> rq.size, attr |-> DataAttr,
                   data |-> SubSeq(c.buff, 1, rq.size)]
  <2>1. Replies(c, rq) = <<r>>
    BY <1>9 DEF Replies, Reply
  <2>2. r \in Response
    BY <1>2, <1>4, <1>5 DEF Response
  <2> QED
    BY <1>1, <1>6, <1>9, <2>1, <2>2 DEF c, Silent
<1>10. CASE rq.op \notin {"info", "init", "read"} \/ (rq.op = "read" /\ c.file = NoFile)
  <2>1. Replies(c, rq) = <<>>
    BY <1>10 DEF Replies
  <2> QED
    BY <1>1, <2>1 DEF c
<1> QED
  BY <1>7, <1>8, <1>9, <1>10

-----------------------------------------------------------------------------
(* The inductive invariant *)

\* At most one request under way is to be answered, or one answer is: behind it
\* there may be what *PCPL sends last, which is not answered.
Alone ==
  /\ Len(toHost) <= 2 /\ Len(toArc) <= 1
  /\ Len(toHost) = 2 => pc = "idle" /\ Silent(toHost[2].rq)
  /\ held # <<>> \/ toArc # <<>> => \A k \in 1 .. Len(toHost) : Silent(toHost[k].rq)
  /\ held = <<>> \/ toArc = <<>>

\* A request is made with nothing under way.
Undisturbed == pc \in {"test", "info", "open", "block", "attr"} => Quiet

Waiting == pc \in {"infoWait", "openWait", "blockWait"}

\* The request whose answer is waited for.
Wanted ==
  CASE pc = "infoWait" -> Rq("info", AnyName, 0, 0)
    [] pc = "openWait" -> Rq("init", name, 0, 0)
    [] OTHER           -> Rq("read", AnyName, pos, BlockLen)

\* The first n bytes of the file meant, as far as there are any.
Bytes(from, n) == [k \in 1 .. n |-> [file |-> Search(name), pos |-> from + k]]

\* What the server says of that file.
Right(reply) ==
  /\ pc = "openWait" =>
       /\ reply.kind = "init" /\ (reply.ok <=> Search(name) # NoFile)
       /\ reply.ok => /\ reply.size = FileLen[Search(name)]
                      /\ reply.attr = AttrOf(Search(name))
  /\ pc = "blockWait" => reply.kind = "block" /\ reply.data = Bytes(pos, BlockLen)

\* What is under way while a command waits is what it waits for.
Awaited ==
  Waiting =>
    /\ \A k \in 1 .. Len(toHost) : toHost[k] = [req |-> sent, rq |-> Wanted]
    /\ held # <<>> => held[1].req = sent /\ Right(held[1].reply)
    /\ toArc # <<>> => toArc[1].req = sent /\ Right(toArc[1].reply)

\* Once the server has opened the file it has that one open, or none.
Opening ==
  (pc = "openWait" /\ toHost = <<>>) \/ pc \in {"block", "blockWait"} =>
    channel.file \in {Search(name), NoFile}

\* How far the copy has got.
Copying ==
  /\ IF pc \in {"idle", "test", "info", "infoWait"} THEN name = NoName ELSE name \in Names
  /\ pc \in {"block", "blockWait", "attr"} =>
       /\ name \in DOMAIN Remote /\ size = FileLen[Search(name)]
       /\ attr = AttrOf(Search(name)) /\ local.attr = NewAttr
  /\ pc \in {"block", "blockWait"} => pos <= size /\ local.data = Bytes(0, pos)
  /\ pc = "attr" => local.data = Bytes(0, size)
  /\ pc = "close" => name \in DOMAIN Remote /\ (failed \/ local = Remote[name])
  /\ local = [data |-> local.data, attr |-> local.attr]
  /\ handle => pc \in {"block", "blockWait", "attr", "close"}

CopyInv == TypeOK /\ Alone /\ Undisturbed /\ Awaited /\ Opening /\ Copying

-----------------------------------------------------------------------------
(* The pipe *)

LEMMA RqType ==
  ASSUME NEW op \in Ops, NEW n \in Names, NEW off \in Nat, NEW len \in 0 .. BlkSize
  PROVE  Rq(op, n, off, len) \in Request
BY DEF Rq, Request

LEMMA BlockLenType == ASSUME TypeOK, pos <= size
                      PROVE  BlockLen \in 0 .. BlkSize /\ BlockLen \in Nat
                             /\ pos + BlockLen <= size
BY DEF TypeOK, BlockLen

\* What pipe_packet_tx leaves behind.
LEMMA TransmitLeaves ==
  ASSUME TypeOK, NEW rq \in Request, NEW ok \in BOOLEAN, Transmit(rq, ok)
  PROVE  /\ sent' \in Nat /\ sent' = sent + 1
         /\ scratch' \in [1 .. BlkSize -> Cell]
         /\ toHost' \in Seq(Packet)
         /\ \/ /\ Len(toHost') = Len(toHost) + 1
               /\ toHost'[Len(toHost) + 1] = [req |-> sent', rq |-> rq]
               /\ \A k \in 1 .. Len(toHost) : toHost'[k] = toHost[k]
            \/ ~ok /\ toHost' = toHost
         /\ UNCHANGED <<toArc, held, channel, alive, breaks, shown, commands>>
<1> DEFINE packet == [req |-> sent + 1, rq |-> rq]
<1>1. packet \in Packet
  BY DEF TypeOK, Packet
<1>2. /\ sent' = sent + 1 /\ scratch' = [scratch EXCEPT ![1] = BlankCell]
      /\ UNCHANGED <<toArc, held, channel, alive, breaks, shown, commands>>
      /\ toHost' = Append(toHost, packet) \/ (~ok /\ toHost' = toHost)
  BY DEF Transmit, serverVars
<1>3. sent' \in Nat /\ scratch' \in [1 .. BlkSize -> Cell] /\ toHost \in Seq(Packet)
  BY <1>2 DEF TypeOK, BlankCell, Cell
<1>4. CASE toHost' = Append(toHost, packet)
  BY <1>1, <1>2, <1>3, <1>4, AppendProperties
<1>5. CASE ~ok /\ toHost' = toHost
  BY <1>2, <1>3, <1>5
<1> QED
  BY <1>2, <1>4, <1>5

\* A response that has come, for a command that waits: nothing else is under way.
LEMMA ReceiveLeaves ==
  ASSUME CopyInv, Waiting, Receive
  PROVE  /\ toArc # <<>> /\ Len(toArc) = 1 /\ Head(toArc) = toArc[1] /\ toArc[1] \in Answer
         /\ toArc' = <<>> /\ toHost = <<>> /\ held = <<>> /\ Quiet'
         /\ scratch' \in [1 .. BlkSize -> Cell]
         /\ \A k \in 1 .. BlkSize :
              k <= Len(toArc[1].reply.data) => scratch'[k] = toArc[1].reply.data[k]
         /\ UNCHANGED <<toHost, held, channel, alive, breaks, sent, commands>>
<1>1. TypeOK /\ Alone /\ Awaited
  BY DEF CopyInv
<1>2. Len(toArc) = 1 /\ toArc # <<>> /\ toArc \in Seq(Answer)
  <2>1. toArc \in Seq(Answer) /\ toArc # <<>> /\ Len(toArc) <= 1
    BY <1>1 DEF TypeOK, Alone, Receive
  <2>2. Len(toArc) \in Nat /\ Len(toArc) # 0
    BY <2>1, EmptySeq, LenProperties
  <2>3. \A n \in Nat : n # 0 /\ n <= 1 => n = 1
    OBVIOUS
  <2> QED
    BY <2>1, <2>2, <2>3, Zenon
<1>3. Head(toArc) = toArc[1] /\ toArc[1] \in Answer /\ Tail(toArc) = <<>>
  BY <1>2, HeadTailProperties, ElementOfSeq, EmptySeq
<1>4. toHost = <<>>
  <2>1. \A k \in 1 .. Len(toHost) : Silent(toHost[k].rq) /\ toHost[k].rq = Wanted
    BY <1>1, <1>2 DEF Alone, Awaited
  <2>2. ~Silent(Wanted)
    BY DEF Wanted, Silent, Rq, Waiting
  <2>3. ~(1 \in 1 .. Len(toHost))
    BY <2>1, <2>2
  <2> QED
    BY <1>1, <2>3 DEF TypeOK
<1>5. /\ toArc' = Tail(toArc) /\ UNCHANGED <<toHost, held, channel, alive, breaks, sent, commands>>
      /\ scratch' = [k \in 1 .. BlkSize |->
           IF k <= Len(toArc[1].reply.data) THEN toArc[1].reply.data[k]
           ELSE IF Len(toArc[1].reply.data) = 0 THEN BlankCell ELSE scratch[k]]
  BY <1>3 DEF Receive, serverVars
<1>6. toArc[1].reply.data \in Seq(Cell)
  BY <1>3 DEF Answer, Response
<1>7. scratch' \in [1 .. BlkSize -> Cell]
  <2>1. \A k \in 1 .. BlkSize : scratch[k] \in Cell
    BY <1>1 DEF TypeOK
  <2>2. \A k \in 1 .. BlkSize :
          k <= Len(toArc[1].reply.data) => toArc[1].reply.data[k] \in Cell
    BY <1>6, ElementOfSeq
  <2>3. BlankCell \in Cell
    BY DEF BlankCell, Cell
  <2> QED
    BY <1>5, <2>1, <2>2, <2>3
<1> QED
  BY <1>1, <1>2, <1>3, <1>4, <1>5, <1>7 DEF Alone, Quiet

-----------------------------------------------------------------------------
(* The local file *)

LEMMA BytesType ==
  ASSUME name \in Names, Search(name) \in Files, NEW from \in Nat, NEW n \in Nat
  PROVE  /\ Bytes(from, n) \in Seq(Cell) /\ Len(Bytes(from, n)) = n
         /\ \A k \in 1 .. n : Bytes(from, n)[k] = [file |-> Search(name), pos |-> from + k]
<1>1. Bytes(from, n) \in [1 .. n -> Cell]
  BY DEF Bytes, Cell
<1> QED
  BY <1>1, IsASeq DEF Bytes

\* A block taken from the buffer continues the copy.
LEMMA WrittenIs ==
  ASSUME TypeOK, name \in Names, Search(name) \in Files,
         local.data = Bytes(0, pos), local = [data |-> local.data, attr |-> local.attr],
         NEW n \in Nat,
         \A k \in 1 .. n : scratch'[k] = [file |-> Search(name), pos |-> pos + k]
  PROVE  Written(n) = [data |-> Bytes(0, pos + n), attr |-> local.attr]
<1>1. pos \in Nat /\ Len(local.data) = pos
  BY BytesType DEF TypeOK
<1>2. \A k \in 1 .. pos : local.data[k] = [file |-> Search(name), pos |-> 0 + k]
  <2>1. \A k \in 1 .. pos : Bytes(0, pos)[k] = [file |-> Search(name), pos |-> 0 + k]
    BY <1>1, 0 \in Nat, BytesType
  <2> QED
    BY <2>1
<1> DEFINE d == [k \in 1 .. (IF Len(local.data) > pos + n THEN Len(local.data) ELSE pos + n) |->
                   IF k \in pos + 1 .. pos + n THEN scratch'[k - pos]
                   ELSE IF k <= Len(local.data) THEN local.data[k] ELSE BlankCell]
<1>3. d = Bytes(0, pos + n)
  <2>1. d = [k \in 1 .. pos + n |->
               IF k \in pos + 1 .. pos + n THEN scratch'[k - pos]
               ELSE IF k <= pos THEN local.data[k] ELSE BlankCell]
    BY <1>1
  <2>2. ASSUME NEW k \in 1 .. pos + n
        PROVE  (IF k \in pos + 1 .. pos + n THEN scratch'[k - pos]
                ELSE IF k <= pos THEN local.data[k] ELSE BlankCell)
                 = [file |-> Search(name), pos |-> 0 + k]
    <3>1. CASE k \in pos + 1 .. pos + n
      <4>1. k - pos \in 1 .. n /\ pos + (k - pos) = 0 + k
        BY <1>1, <3>1
      <4> QED
        BY <3>1, <4>1
    <3>2. CASE k \notin pos + 1 .. pos + n
      <4>1. k \in 1 .. pos
        BY <1>1, <3>2
      <4> QED
        BY <1>2, <3>2, <4>1
    <3> QED
      BY <3>1, <3>2
  <2> HIDE DEF d
  <2> QED
    BY <2>1, <2>2 DEF Bytes
<1>4. Written(n) = [local EXCEPT !.data = d]
  BY DEF Written
<1> HIDE DEF d
<1>5. [local EXCEPT !.data = d] = [data |-> d, attr |-> local.attr]
  OBVIOUS
<1> QED
  BY <1>3, <1>4, <1>5

-----------------------------------------------------------------------------
(* The commands' steps *)

\* A step of FileCopy, or none.
CopyStep == Copy!Next \/ UNCHANGED <<name, local, result>>

LEMMA EmptyLen == ASSUME NEW S, NEW s \in Seq(S) PROVE Len(s) \in Nat /\ (s = <<>> <=> Len(s) = 0)
BY EmptySeq, LenProperties

\* A request made with nothing under way.
LEMMA TransmitQuiet ==
  ASSUME TypeOK, Quiet, NEW rq \in Request, NEW ok \in BOOLEAN, Transmit(rq, ok)
  PROVE  /\ sent' \in Nat /\ scratch' \in [1 .. BlkSize -> Cell]
         /\ toHost' \in Seq(Packet) /\ Len(toHost') <= 2 /\ Len(toHost') # 2
         /\ \A k \in 1 .. Len(toHost') : toHost'[k] = [req |-> sent', rq |-> rq]
         /\ toHost' = <<>> => ~ok
         /\ held' = <<>> /\ toArc' = <<>>
         /\ UNCHANGED <<held, toArc, channel, alive, breaks, shown, commands>>
<1>1. toHost = <<>> /\ Len(toHost) = 0 /\ held = <<>> /\ toArc = <<>>
  BY DEF Quiet
<1>2. sent' \in Nat /\ scratch' \in [1 .. BlkSize -> Cell] /\ toHost' \in Seq(Packet)
      /\ UNCHANGED <<toArc, held, channel, alive, breaks, shown, commands>>
  BY TransmitLeaves
<1>3. \/ Len(toHost') = 1 /\ toHost'[1] = [req |-> sent', rq |-> rq]
      \/ ~ok /\ Len(toHost') = 0
  <2>1. \/ Len(toHost') = Len(toHost) + 1
           /\ toHost'[Len(toHost) + 1] = [req |-> sent', rq |-> rq]
        \/ ~ok /\ toHost' = toHost
    BY TransmitLeaves
  <2>2. Len(toHost) + 1 = 1
    BY <1>1
  <2> QED
    BY <1>1, <2>1, <2>2, Zenon
<1>4. \A k \in 1 .. 1 : k = 1
  OBVIOUS
<1>5. \A k : k \notin 1 .. 0
  OBVIOUS
<1>6. Len(toHost') <= 2 /\ Len(toHost') # 2
      /\ (\A k \in 1 .. Len(toHost') : toHost'[k] = [req |-> sent', rq |-> rq])
      /\ (Len(toHost') = 0 => ~ok)
  <2>1. CASE Len(toHost') = 1 /\ toHost'[1] = [req |-> sent', rq |-> rq]
    <3>1. Len(toHost') <= 2 /\ Len(toHost') # 2 /\ Len(toHost') # 0
      BY <2>1
    <3>2. \A k \in 1 .. Len(toHost') : toHost'[k] = [req |-> sent', rq |-> rq]
      BY <1>4, <2>1, Zenon
    <3> QED
      BY <3>1, <3>2
  <2>2. CASE ~ok /\ Len(toHost') = 0
    <3>1. Len(toHost') <= 2 /\ Len(toHost') # 2
      BY <2>2
    <3>2. \A k \in 1 .. Len(toHost') : toHost'[k] = [req |-> sent', rq |-> rq]
      BY <1>5, <2>2, Zenon
    <3> QED
      BY <2>2, <3>1, <3>2
  <2> QED
    BY <1>3, <2>1, <2>2
<1>7. toHost' = <<>> => Len(toHost') = 0
  OBVIOUS
<1> QED
  BY <1>1, <1>2, <1>6, <1>7

LEMMA TestSendKeeps == CopyInv /\ TestSend => CopyInv' /\ CopyStep
<1> SUFFICES ASSUME CopyInv, TestSend PROVE CopyInv' /\ CopyStep
  OBVIOUS
<1> DEFINE rq == Rq("ignore", AnyName, 0, 0)
<1>1. /\ TypeOK /\ Quiet /\ name = NoName /\ local = [data |-> local.data, attr |-> local.attr]
      /\ pc = "test" /\ pc' = "idle" /\ ~handle
      /\ UNCHANGED <<name, size, pos, attr, local, handle, failed, result>>
  BY DEF CopyInv, Undisturbed, Copying, TestSend, fileVars
<1>2. rq \in Request /\ Silent(rq)
  BY RqType, SomeName DEF Ops, Silent, Rq
<1>3. PICK ok \in BOOLEAN : Transmit(rq, ok)
  BY DEF TestSend
<1> HIDE DEF rq
<1>4. /\ sent' \in Nat /\ scratch' \in [1 .. BlkSize -> Cell]
      /\ toHost' \in Seq(Packet) /\ Len(toHost') <= 2 /\ Len(toHost') # 2
      /\ \A k \in 1 .. Len(toHost') : toHost'[k] = [req |-> sent', rq |-> rq]
      /\ held' = <<>> /\ toArc' = <<>>
      /\ UNCHANGED <<held, toArc, channel, alive, breaks, shown, commands>>
  BY <1>1, <1>2, <1>3, TransmitQuiet
<1>5. TypeOK'
  BY <1>1, <1>4 DEF TypeOK
<1>6. Alone'
  BY <1>1, <1>2, <1>4, EmptySeq DEF Alone
<1>7. Undisturbed' /\ Awaited' /\ Opening' /\ Copying'
  BY <1>1 DEF Undisturbed, Awaited, Waiting, Opening, Copying
<1> QED
  BY <1>1, <1>5, <1>6, <1>7 DEF CopyInv, CopyStep

LEMMA InfoSendKeeps == CopyInv /\ InfoSend => CopyInv' /\ CopyStep
<1> SUFFICES ASSUME CopyInv, InfoSend PROVE CopyInv' /\ CopyStep
  OBVIOUS
<1> DEFINE rq == Rq("info", AnyName, 0, 0)
<1>1. /\ TypeOK /\ Quiet /\ name = NoName /\ local = [data |-> local.data, attr |-> local.attr]
      /\ pc = "info" /\ pc' = "infoWait" /\ ~handle
      /\ UNCHANGED <<name, size, pos, attr, local, handle, failed, result>>
  BY DEF CopyInv, Undisturbed, Copying, InfoSend, fileVars
<1>2. rq \in Request
  BY RqType, SomeName DEF Ops
<1>3. PICK ok \in BOOLEAN : Transmit(rq, ok)
  BY DEF InfoSend
<1>4. rq = Wanted'
  BY <1>1 DEF Wanted, Rq
<1> HIDE DEF rq
<1>5. /\ sent' \in Nat /\ scratch' \in [1 .. BlkSize -> Cell]
      /\ toHost' \in Seq(Packet) /\ Len(toHost') <= 2 /\ Len(toHost') # 2
      /\ \A k \in 1 .. Len(toHost') : toHost'[k] = [req |-> sent', rq |-> rq]
      /\ held' = <<>> /\ toArc' = <<>>
      /\ UNCHANGED <<held, toArc, channel, alive, breaks, shown, commands>>
  BY <1>1, <1>2, <1>3, TransmitQuiet
<1>6. TypeOK'
  BY <1>1, <1>5 DEF TypeOK
<1>7. Alone'
  BY <1>1, <1>5, EmptySeq DEF Alone
<1>8. Awaited'
  BY <1>4, <1>5 DEF Awaited
<1>9. Undisturbed' /\ Opening' /\ Copying'
  BY <1>1 DEF Undisturbed, Opening, Copying
<1> QED
  BY <1>1, <1>6, <1>7, <1>8, <1>9 DEF CopyInv, CopyStep

LEMMA InfoAnswerKeeps == CopyInv /\ InfoAnswer => CopyInv' /\ CopyStep
<1> SUFFICES ASSUME CopyInv, InfoAnswer PROVE CopyInv' /\ CopyStep
  OBVIOUS
<1>1. /\ TypeOK /\ Alone /\ Waiting /\ name = NoName
      /\ local = [data |-> local.data, attr |-> local.attr] /\ ~handle
      /\ pc = "infoWait" /\ pc' = "idle"
      /\ UNCHANGED <<name, size, pos, attr, local, handle, failed, result>>
  BY DEF CopyInv, Copying, InfoAnswer, fileVars, Waiting
<1>2. TypeOK' /\ Alone'
  <2>1. CASE Receive /\ shown' = shown \cup {Head(toArc).reply.kind}
    <3>1. /\ Head(toArc) = toArc[1] /\ toArc[1] \in Answer /\ toArc' = <<>> /\ toHost' = <<>>
          /\ scratch' \in [1 .. BlkSize -> Cell]
          /\ UNCHANGED <<toHost, held, channel, alive, breaks, sent, commands>>
      BY <1>1, <2>1, ReceiveLeaves
    <3>2. shown' \subseteq {"info", "init", "block"}
      BY <1>1, <2>1, <3>1 DEF TypeOK, Answer, Response
    <3>3. toArc' \in Seq(Answer)
      BY <3>1
    <3> QED
      BY <1>1, <3>1, <3>2, <3>3 DEF TypeOK, Alone
  <2>2. CASE RxTimeout
    BY <1>1, <2>2 DEF RxTimeout, TypeOK, Alone, serverVars
  <2> QED
    BY <2>1, <2>2 DEF InfoAnswer
<1>3. Undisturbed' /\ Awaited' /\ Opening' /\ Copying'
  BY <1>1 DEF Undisturbed, Awaited, Waiting, Opening, Copying
<1> QED
  BY <1>1, <1>2, <1>3 DEF CopyInv, CopyStep

LEMMA OpenSendKeeps == CopyInv /\ OpenSend => CopyInv' /\ CopyStep
<1> SUFFICES ASSUME CopyInv, OpenSend PROVE CopyInv' /\ CopyStep
  OBVIOUS
<1> DEFINE rq == Rq("init", name, 0, 0)
<1>1. /\ TypeOK /\ Quiet /\ name \in Names /\ local = [data |-> local.data, attr |-> local.attr]
      /\ pc = "open" /\ ~handle
      /\ UNCHANGED <<size, pos, attr, local, handle, failed>>
  BY DEF CopyInv, Undisturbed, Copying, OpenSend
<1>2. rq \in Request
  BY <1>1, RqType DEF Ops
<1>3. PICK ok \in BOOLEAN :
        /\ Transmit(rq, ok)
        /\ ok => pc' = "openWait" /\ UNCHANGED <<name, result>>
        /\ ~ok => Return("error")
  <2>1. CASE Transmit(rq, TRUE) /\ pc' = "openWait" /\ UNCHANGED <<name, result>>
    BY <2>1
  <2>2. CASE Transmit(rq, FALSE) /\ Return("error")
    BY <2>2
  <2> QED
    BY <2>1, <2>2 DEF OpenSend
<1>4. ok => rq = Wanted'
  BY <1>3 DEF Wanted, Rq
<1> HIDE DEF rq
<1>5. /\ sent' \in Nat /\ scratch' \in [1 .. BlkSize -> Cell]
      /\ toHost' \in Seq(Packet) /\ Len(toHost') <= 2 /\ Len(toHost') # 2
      /\ \A k \in 1 .. Len(toHost') : toHost'[k] = [req |-> sent', rq |-> rq]
      /\ toHost' = <<>> => ~ok
      /\ held' = <<>> /\ toArc' = <<>>
      /\ UNCHANGED <<held, toArc, channel, alive, breaks, shown, commands>>
  BY <1>1, <1>2, <1>3, TransmitQuiet
<1>6. Alone'
  BY <1>5 DEF Alone
<1>7. CASE ok
  <2>1. pc' = "openWait" /\ name' = name /\ result' = result
    BY <1>3, <1>7
  <2>2. TypeOK'
    BY <1>1, <1>5, <2>1 DEF TypeOK
  <2>3. Awaited'
    BY <1>4, <1>5, <1>7 DEF Awaited
  <2>4. Undisturbed' /\ Opening' /\ Copying'
    BY <1>1, <1>5, <1>7, <2>1 DEF Undisturbed, Opening, Copying
  <2> QED
    BY <1>1, <1>6, <2>1, <2>2, <2>3, <2>4 DEF CopyInv, CopyStep
<1>8. CASE ~ok
  <2>1. pc' = "idle" /\ name' = NoName /\ result' = "error"
    BY <1>3, <1>8 DEF Return
  <2>2. TypeOK'
    BY <1>1, <1>5, <2>1 DEF TypeOK
  <2>3. Undisturbed' /\ Awaited' /\ Opening' /\ Copying'
    BY <1>1, <2>1 DEF Undisturbed, Awaited, Waiting, Opening, Copying
  <2>4. Copy!End("error")
    BY <1>1, <2>1 DEF Copy!End
  <2> QED
    BY <1>6, <2>2, <2>3, <2>4 DEF CopyInv, CopyStep, Copy!Next, Copy!Fail
<1> QED
  BY <1>7, <1>8

LEMMA OpenTimeoutKeeps == CopyInv /\ OpenTimeout => CopyInv' /\ CopyStep
<1> SUFFICES ASSUME CopyInv, OpenTimeout PROVE CopyInv' /\ CopyStep
  OBVIOUS
<1>1. /\ TypeOK /\ Alone /\ name \in Names /\ local = [data |-> local.data, attr |-> local.attr]
      /\ ~handle /\ pc = "openWait" /\ pc' = "idle" /\ name' = NoName /\ result' = "error"
      /\ UNCHANGED <<size, pos, attr, local, handle, failed, scratch, toHost, toArc, held,
                     channel, alive, breaks, sent, shown, commands>>
  BY DEF CopyInv, Copying, OpenTimeout, RxTimeout, Return, serverVars
<1>2. TypeOK' /\ Alone'
  BY <1>1 DEF TypeOK, Alone
<1>3. Undisturbed' /\ Awaited' /\ Opening' /\ Copying'
  BY <1>1 DEF Undisturbed, Awaited, Waiting, Opening, Copying
<1>4. Copy!End("error")
  BY <1>1 DEF Copy!End
<1> QED
  BY <1>2, <1>3, <1>4 DEF CopyInv, CopyStep, Copy!Next, Copy!Fail

\* What has been copied is a beginning of the file meant.
LEMMA BeginningIs ==
  ASSUME name \in Names, name \in DOMAIN Remote, NEW n \in Nat,
         n <= FileLen[Search(name)], NEW a
  PROVE  Copy!Beginning([data |-> Bytes(0, n), attr |-> a])
<1> DEFINE whole == Remote[name].data
           len   == FileLen[Search(name)]
           d     == Bytes(0, n)
           part  == SubSeq(whole, 1, Len(d))
<1>1. Search(name) \in Files /\ len \in Nat
      /\ whole = [k \in 1 .. len |-> [file |-> Search(name), pos |-> k]]
  BY SearchIsMeant
<1>2. d \in Seq(Cell) /\ Len(d) = n
      /\ \A k \in 1 .. n : d[k] = [file |-> Search(name), pos |-> 0 + k]
  BY <1>1, BytesType, 0 \in Nat
<1>3. \A k \in 1 .. len : whole[k] = [file |-> Search(name), pos |-> k] /\ whole[k] \in Cell
  BY <1>1 DEF Cell
<1>4. whole \in [1 .. len -> Cell]
  BY <1>1, <1>3
<1>5. Len(whole) = len
  BY <1>1, <1>4
<1> HIDE DEF whole, len, d
<1>6. \A k \in 1 .. n : whole[k] \in Cell
  BY <1>1, <1>3 DEF len
<1>7. part \in Seq(Cell) /\ Len(part) = n /\ \A k \in 1 .. n : part[k] = whole[k]
  <2>1. /\ part \in Seq(Cell)
        /\ Len(part) = IF 1 <= n THEN n - 1 + 1 ELSE 0
        /\ \A k \in 1 .. n - 1 + 1 : part[k] = whole[1 + k - 1]
    BY <1>2, <1>6, SubSeqProperties, 1 \in Int, n \in Int
  <2>2. n - 1 + 1 = n /\ \A k \in 1 .. n : 1 + k - 1 = k
    OBVIOUS
  <2> QED
    BY <2>1, <2>2
<1>8. \A k \in 1 .. n : d[k] = part[k]
  BY <1>1, <1>2, <1>3, <1>7 DEF len
<1>9. d = part
  BY <1>2, <1>7, <1>8, SeqEqual
<1>10. n <= len
  BY DEF len
<1>11. Len(d) <= Len(whole) /\ d = SubSeq(whole, 1, Len(d))
  BY <1>2, <1>5, <1>9, <1>10
<1> QED
  BY <1>11 DEF Copy!Beginning, d, whole

LEMMA OpenAnswerKeeps == CopyInv /\ OpenAnswer => CopyInv' /\ CopyStep
<1> SUFFICES ASSUME CopyInv, OpenAnswer PROVE CopyInv' /\ CopyStep
  OBVIOUS
<1>1. /\ TypeOK /\ Awaited /\ Waiting /\ Receive /\ name \in Names /\ shown' = shown
      /\ local = [data |-> local.data, attr |-> local.attr] /\ ~handle /\ pc = "openWait"
  BY DEF CopyInv, Copying, OpenAnswer, Waiting
<1>2. /\ toArc # <<>> /\ Len(toArc) = 1 /\ Head(toArc) = toArc[1] /\ toArc[1] \in Answer
      /\ toArc' = <<>> /\ toHost' = <<>> /\ held' = <<>> /\ toHost = <<>> /\ Quiet'
      /\ scratch' \in [1 .. BlkSize -> Cell]
      /\ UNCHANGED <<toHost, held, channel, alive, breaks, sent, commands>>
  BY <1>1, ReceiveLeaves
<1> DEFINE r == toArc[1].reply
           s == Search(name)
<1>3. r.kind = "init" /\ (r.ok <=> s # NoFile)
      /\ (r.ok => r.size = FileLen[s] /\ r.attr = AttrOf(s))
  BY <1>1, <1>2 DEF Awaited, Right
<1>4. channel.file \in {s, NoFile}
  BY <1>1, <1>2 DEF CopyInv, Opening
<1> HIDE DEF r, s
<1>5. Opened(r) = {[ok |-> r.ok, size |-> r.size, attr |-> r.attr]}
  BY <1>3 DEF Opened
<1>6. Alone'
  BY <1>2, EmptySeq DEF Alone
<1>7. s \in Files \cup {NoFile} /\ (name \in DOMAIN Remote <=> s # NoFile)
  BY <1>1, SearchIsMeant DEF s
<1>8. toArc' \in Seq(Answer)
  BY <1>2
<1>9. CASE ~r.ok
  <2>1. /\ pc' = "idle" /\ name' = NoName /\ result' = "refused"
        /\ UNCHANGED <<size, pos, attr, local, handle, failed>>
    BY <1>2, <1>5, <1>9 DEF OpenAnswer, Return, r
  <2>2. TypeOK'
    BY <1>1, <1>2, <1>8, <2>1 DEF TypeOK
  <2>3. Undisturbed' /\ Awaited' /\ Opening' /\ Copying'
    BY <1>1, <2>1 DEF Undisturbed, Awaited, Waiting, Opening, Copying
  <2>4. Copy!Refuse
    BY <1>1, <1>3, <1>7, <1>9, <2>1 DEF Copy!Refuse, Copy!End
  <2> QED
    BY <1>6, <2>2, <2>3, <2>4 DEF CopyInv, CopyStep, Copy!Next
<1>10. CASE r.ok
  <2>1. /\ size' = r.size /\ attr' = r.attr /\ pos' = 0 /\ UNCHANGED <<name, result>>
        /\ \/ /\ local' = [data |-> <<>>, attr |-> NewAttr]
              /\ handle' = TRUE /\ pc' = "block" /\ failed' = failed
           \/ pc' = "close" /\ failed' = TRUE /\ UNCHANGED <<local, handle>>
    BY <1>2, <1>5, <1>10 DEF OpenAnswer, Cleanup, r
  <2>2. name \in DOMAIN Remote /\ s \in Files /\ size' = FileLen[s] /\ attr' = AttrOf(s)
    BY <1>3, <1>7, <1>10, <2>1
  <2>3. size' \in Nat /\ attr' \in Attr /\ <<>> \in Seq(Cell)
    BY <2>2, AttrType
  <2>4. TypeOK'
    <3>1. local'.data \in Seq(Cell) /\ local'.attr \in Attr \cup {NewAttr}
      <4>1. CASE local' = [data |-> <<>>, attr |-> NewAttr]
        <5>1. local'.data = <<>> /\ local'.attr = NewAttr
          BY <4>1
        <5> QED
          BY <2>3, <5>1
      <4>2. CASE local' = local
        BY <1>1, <4>2 DEF TypeOK
      <4> QED
        BY <2>1, <4>1, <4>2
    <3>2. pc' \in {"block", "close"} /\ handle' \in BOOLEAN /\ failed' \in BOOLEAN
      BY <1>1, <2>1 DEF TypeOK
    <3> QED
      BY <1>1, <1>2, <1>8, <2>1, <2>3, <3>1, <3>2 DEF TypeOK
  <2>5. Undisturbed' /\ Awaited'
    BY <1>2, <2>1 DEF Undisturbed, Awaited, Waiting
  <2>6. Opening'
    BY <1>2, <1>4, <2>1 DEF Opening, s
  <2>7. Bytes(0, 0) = <<>>
    <3>1. Bytes(0, 0) \in Seq(Cell) /\ Len(Bytes(0, 0)) = 0
      BY <1>1, <2>2, BytesType, 0 \in Nat DEF s
    <3> QED
      BY <3>1, EmptyLen
  <2>8. CASE pc' = "block" /\ local' = [data |-> <<>>, attr |-> NewAttr]
    <3>1. Bytes(0, pos)' = <<>>
      BY <2>1, <2>7 DEF Bytes
    <3>2. Copying'
      BY <1>1, <2>1, <2>2, <2>3, <2>8, <3>1 DEF Copying, s
    <3>3. 0 <= FileLen[Search(name)]
      BY <2>2 DEF s
    <3>4. Copy!Beginning(local')
      BY <1>1, <2>2, <2>7, <2>8, <3>3, BeginningIs, 0 \in Nat
    <3>5. Copy!Write
      BY <2>1, <2>2, <2>8, <3>4 DEF Copy!Write
    <3> QED
      BY <1>6, <2>4, <2>5, <2>6, <3>2, <3>5 DEF CopyInv, CopyStep, Copy!Next
  <2>9. CASE pc' = "close" /\ failed' = TRUE /\ UNCHANGED <<local, handle>>
    <3>1. Copying'
      BY <1>1, <2>1, <2>2, <2>9 DEF Copying
    <3> QED
      BY <1>6, <2>1, <2>4, <2>5, <2>6, <2>9, <3>1 DEF CopyInv, CopyStep
  <2> QED
    BY <2>1, <2>8, <2>9
<1> QED
  BY <1>9, <1>10

LEMMA BlockSendKeeps == CopyInv /\ BlockSend => CopyInv' /\ CopyStep
<1> SUFFICES ASSUME CopyInv, BlockSend PROVE CopyInv' /\ CopyStep
  OBVIOUS
<1> DEFINE rq == Rq("read", AnyName, pos, BlockLen)
<1>1. /\ TypeOK /\ Quiet /\ Copying /\ Opening /\ pc = "block" /\ pos \in Nat /\ pos <= size
      /\ UNCHANGED <<name, size, pos, attr, local, handle, result>>
  BY DEF CopyInv, Undisturbed, Copying, BlockSend, TypeOK
<1>2. rq \in Request
  BY <1>1, RqType, SomeName, BlockLenType DEF Ops
<1>3. PICK ok \in BOOLEAN :
        /\ Transmit(rq, ok)
        /\ ok => pc' = "blockWait" /\ failed' = failed
        /\ ~ok => pc' = "close" /\ failed' = TRUE
  <2>1. CASE Transmit(rq, TRUE) /\ pc' = "blockWait" /\ failed' = failed
    BY <2>1
  <2>2. CASE Transmit(rq, FALSE) /\ Cleanup
    BY <2>2 DEF Cleanup
  <2> QED
    BY <2>1, <2>2 DEF BlockSend
<1>4. ok => rq = Wanted'
  BY <1>1, <1>3 DEF Wanted, Rq, BlockLen
<1> HIDE DEF rq
<1>5. /\ sent' \in Nat /\ scratch' \in [1 .. BlkSize -> Cell]
      /\ toHost' \in Seq(Packet) /\ Len(toHost') <= 2 /\ Len(toHost') # 2
      /\ \A k \in 1 .. Len(toHost') : toHost'[k] = [req |-> sent', rq |-> rq]
      /\ toHost' = <<>> => ~ok
      /\ held' = <<>> /\ toArc' = <<>>
      /\ UNCHANGED <<held, toArc, channel, alive, breaks, shown, commands>>
  BY <1>1, <1>2, <1>3, TransmitQuiet
<1>6. Alone'
  BY <1>5 DEF Alone
<1>7. TypeOK'
  BY <1>1, <1>3, <1>5 DEF TypeOK
<1>8. Undisturbed' /\ Opening' /\ Copying'
  <2>1. Bytes(0, pos)' = Bytes(0, pos)
    BY <1>1 DEF Bytes
  <2> QED
    BY <1>1, <1>3, <1>5, <2>1 DEF Undisturbed, Opening, Copying
<1>9. Awaited'
  <2>1. CASE ok
    BY <1>4, <1>5, <2>1 DEF Awaited
  <2>2. CASE ~ok
    BY <1>3, <2>2 DEF Awaited, Waiting
  <2> QED
    BY <2>1, <2>2
<1> QED
  BY <1>1, <1>6, <1>7, <1>8, <1>9 DEF CopyInv, CopyStep

LEMMA BlockTimeoutKeeps == CopyInv /\ BlockTimeout => CopyInv' /\ CopyStep
<1> SUFFICES ASSUME CopyInv, BlockTimeout PROVE CopyInv' /\ CopyStep
  OBVIOUS
<1>1. /\ TypeOK /\ Alone /\ Copying /\ pc = "blockWait" /\ pc' = "close" /\ failed' = TRUE
      /\ UNCHANGED <<name, size, pos, attr, local, handle, result, scratch, toHost, toArc, held,
                     channel, alive, breaks, sent, shown, commands>>
  BY DEF CopyInv, BlockTimeout, RxTimeout, Cleanup, serverVars
<1>2. TypeOK' /\ Alone'
  BY <1>1 DEF TypeOK, Alone
<1>3. Undisturbed' /\ Awaited' /\ Opening' /\ Copying'
  BY <1>1 DEF Undisturbed, Awaited, Waiting, Opening, Copying
<1> QED
  BY <1>1, <1>2, <1>3 DEF CopyInv, CopyStep

LEMMA BlockAnswerKeeps == CopyInv /\ BlockAnswer => CopyInv' /\ CopyStep
<1> SUFFICES ASSUME CopyInv, BlockAnswer PROVE CopyInv' /\ CopyStep
  OBVIOUS
<1>1. /\ TypeOK /\ Awaited /\ Waiting /\ Receive /\ Copying /\ Opening /\ pc = "blockWait"
      /\ UNCHANGED <<shown, name, size, attr, handle, result>>
  BY DEF CopyInv, BlockAnswer, Waiting
<1>2. /\ toArc # <<>> /\ Len(toArc) = 1 /\ Head(toArc) = toArc[1] /\ toArc[1] \in Answer
      /\ toArc' = <<>> /\ toHost' = <<>> /\ held' = <<>> /\ toHost = <<>> /\ Quiet'
      /\ scratch' \in [1 .. BlkSize -> Cell]
      /\ \A k \in 1 .. BlkSize :
            k <= Len(toArc[1].reply.data) => scratch'[k] = toArc[1].reply.data[k]
      /\ UNCHANGED <<toHost, held, channel, alive, breaks, sent, commands>>
  BY <1>1, ReceiveLeaves
<1>3. /\ name \in Names /\ name \in DOMAIN Remote /\ size = FileLen[Search(name)]
      /\ attr = AttrOf(Search(name)) /\ local.attr = NewAttr /\ Search(name) \in Files
      /\ local = [data |-> local.data, attr |-> local.attr] /\ local.data = Bytes(0, pos)
      /\ pos \in Nat /\ size \in Nat /\ pos <= size
  BY <1>1, SearchIsMeant DEF Copying, TypeOK
<1>4. BlockLen \in 0 .. BlkSize /\ BlockLen \in Nat /\ pos + BlockLen <= size
  BY <1>1, <1>3, BlockLenType
<1>5. toArc[1].reply.data = Bytes(pos, BlockLen)
  BY <1>1, <1>2 DEF Awaited, Right
<1>6. \A k \in 1 .. BlockLen : scratch'[k] = [file |-> Search(name), pos |-> pos + k]
  <2>1. /\ Len(Bytes(pos, BlockLen)) = BlockLen
        /\ \A k \in 1 .. BlockLen :
             Bytes(pos, BlockLen)[k] = [file |-> Search(name), pos |-> pos + k]
    BY <1>3, <1>4, BytesType
  <2>2. \A k \in 1 .. BlockLen : k \in 1 .. BlkSize /\ k <= BlockLen
    BY <1>4
  <2> QED
    BY <1>2, <1>5, <2>1, <2>2, ZenonT(30)
<1>7. ASSUME NEW n \in 0 .. BlockLen
      PROVE  /\ Written(n) = [data |-> Bytes(0, pos + n), attr |-> NewAttr]
             /\ Copy!Beginning(Written(n)) /\ Bytes(0, pos + n) \in Seq(Cell)
  <2>1. n \in Nat /\ pos + n \in Nat /\ pos + n <= size
        /\ \A k \in 1 .. n : k \in 1 .. BlockLen
    BY <1>3, <1>4
  <2>2. Written(n) = [data |-> Bytes(0, pos + n), attr |-> NewAttr]
    BY <1>1, <1>3, <1>6, <2>1, WrittenIs
  <2>3. Copy!Beginning([data |-> Bytes(0, pos + n), attr |-> NewAttr])
    BY <1>3, <2>1, BeginningIs
  <2> QED
    BY <1>3, <2>1, <2>2, <2>3, BytesType, 0 \in Nat
<1>8. Alone'
  BY <1>2, EmptySeq DEF Alone
<1>9. toArc' \in Seq(Answer)
  BY <1>2
<1>10. Opening' /\ Undisturbed' /\ Awaited'
  <2>1. pc' \in {"block", "attr", "close"}
    BY DEF BlockAnswer, Cleanup
  <2> QED
    BY <1>1, <1>2, <2>1 DEF Opening, Undisturbed, Awaited, Waiting
<1>11. ASSUME NEW n \in 0 .. BlockLen, local' = Written(n) PROVE Copy!Write
  BY <1>1, <1>3, <1>7, <1>11 DEF Copy!Write
<1>12. CASE /\ local' = Written(BlockLen) /\ pos' = pos + BlkSize
            /\ pc' = IF NextBlock THEN "block" ELSE "attr"
            /\ failed' = failed
  <2>1. BlockLen \in 0 .. BlockLen /\ pos' \in Nat
    BY <1>3, <1>4, <1>12
  <2>2. local' = [data |-> Bytes(0, pos + BlockLen), attr |-> NewAttr]
        /\ Bytes(0, pos + BlockLen) \in Seq(Cell)
    BY <1>7, <1>12, <2>1
  <2>3. TypeOK'
    BY <1>1, <1>2, <1>9, <1>12, <2>1, <2>2 DEF TypeOK
  <2>4. CopyStep
    BY <1>11, <1>12, <2>1 DEF CopyStep, Copy!Next
  <2>5. CASE NextBlock
    <3>1. BlockLen = BlkSize /\ pos' <= size
      BY <1>3, <1>12, <2>5 DEF NextBlock, BlockLen
    <3>2. local'.data = Bytes(0, pos)'
      BY <1>1, <1>12, <2>2, <3>1 DEF Bytes
    <3>3. Copying'
      BY <1>1, <1>3, <1>12, <2>2, <2>5, <3>1, <3>2 DEF Copying
    <3> QED
      BY <1>8, <1>10, <2>3, <2>4, <3>3 DEF CopyInv
  <2>6. CASE ~NextBlock
    <3>1. pos + BlockLen = size
      BY <1>3, <2>6 DEF NextBlock, BlockLen
    <3>2. local'.data = Bytes(0, size)'
      BY <1>1, <2>2, <3>1 DEF Bytes
    <3>3. Copying'
      BY <1>1, <1>3, <1>12, <2>2, <2>6, <3>2 DEF Copying
    <3> QED
      BY <1>8, <1>10, <2>3, <2>4, <3>3 DEF CopyInv
  <2> QED
    BY <2>5, <2>6, <2>4
<1>13. CASE (\E n \in 0 .. BlockLen : local' = Written(n)) /\ Cleanup /\ pos' = pos
  <2>1. PICK n \in 0 .. BlockLen : local' = Written(n)
    BY <1>13
  <2>2. local' = [data |-> Bytes(0, pos + n), attr |-> NewAttr]
        /\ Bytes(0, pos + n) \in Seq(Cell)
    BY <1>7, <2>1
  <2>3. pc' = "close" /\ failed' = TRUE /\ pos' = pos
    BY <1>13 DEF Cleanup
  <2>4. TypeOK'
    BY <1>1, <1>2, <1>3, <1>9, <2>2, <2>3 DEF TypeOK
  <2>5. Copying'
    BY <1>1, <1>3, <2>2, <2>3 DEF Copying
  <2> QED
    BY <1>8, <1>10, <1>11, <2>1, <2>4, <2>5 DEF CopyInv, CopyStep, Copy!Next
<1> QED
  BY <1>12, <1>13 DEF BlockAnswer

LEMMA SetAttrKeeps == CopyInv /\ SetAttr => CopyInv' /\ CopyStep
<1> SUFFICES ASSUME CopyInv, SetAttr PROVE CopyInv' /\ CopyStep
  OBVIOUS
<1>1. /\ TypeOK /\ Alone /\ Copying /\ pc = "attr" /\ pc' = "close" /\ local.data = Bytes(0, size)
      /\ UNCHANGED <<name, size, pos, attr, handle, result, scratch, shown, toHost, toArc,
                     held, channel, alive, breaks, sent, commands>>
      /\ \/ local' = [local EXCEPT !.attr = attr] /\ failed' = failed
         \/ failed' = TRUE /\ local' = local
  BY DEF CopyInv, Copying, SetAttr, Cleanup, serverVars
<1>2. /\ name \in Names /\ name \in DOMAIN Remote /\ attr = AttrOf(Search(name))
      /\ local = [data |-> local.data, attr |-> local.attr]
      /\ size = FileLen[Search(name)] /\ Search(name) \in Files
  BY <1>1, SearchIsMeant DEF Copying
<1>3. Bytes(0, size) = [k \in 1 .. size |-> [file |-> Search(name), pos |-> k]]
  <2>1. \A k \in 1 .. size : 0 + k = k
    BY <1>1 DEF TypeOK
  <2> QED
    BY <2>1 DEF Bytes
<1>4. Remote[name] = [data |-> Bytes(0, size), attr |-> attr]
  BY <1>2, <1>3, SearchIsMeant
<1>5. CASE local' = [local EXCEPT !.attr = attr] /\ failed' = failed
  <2>1. local' = [data |-> Bytes(0, size), attr |-> attr]
    BY <1>1, <1>2, <1>5
  <2>2. local'.data = local.data /\ local'.attr = attr
    BY <1>1, <2>1
  <2>3. TypeOK'
    BY <1>1, <1>5, <2>2 DEF TypeOK
  <2>4. Alone' /\ Undisturbed' /\ Awaited' /\ Opening'
    BY <1>1 DEF Alone, Undisturbed, Awaited, Waiting, Opening
  <2>5. Copying'
    BY <1>1, <1>2, <1>4, <1>5, <2>1, <2>2 DEF Copying
  <2>6. size <= FileLen[Search(name)] /\ size \in Nat
    BY <1>1, <1>2 DEF TypeOK
  <2>7. Copy!Beginning(local')
    BY <1>2, <2>1, <2>6, BeginningIs
  <2>8. Copy!Write
    BY <1>1, <1>2, <1>4, <2>2, <2>7 DEF Copy!Write
  <2> QED
    BY <2>3, <2>4, <2>5, <2>8 DEF CopyInv, CopyStep, Copy!Next
<1>6. CASE failed' = TRUE /\ local' = local
  <2>1. TypeOK'
    BY <1>1, <1>6 DEF TypeOK
  <2>2. Alone' /\ Undisturbed' /\ Awaited' /\ Opening' /\ Copying'
    BY <1>1, <1>2, <1>6 DEF Alone, Undisturbed, Awaited, Waiting, Opening, Copying
  <2> QED
    BY <1>1, <1>6, <2>1, <2>2 DEF CopyInv, CopyStep
<1> QED
  BY <1>1, <1>5, <1>6

LEMMA CloseKeeps == CopyInv /\ Close => CopyInv' /\ CopyStep
<1> SUFFICES ASSUME CopyInv, Close PROVE CopyInv' /\ CopyStep
  OBVIOUS
<1> DEFINE rq == Rq("close", AnyName, 0, 0)
           n  == Len(toHost)
<1>1. /\ TypeOK /\ Alone /\ Copying /\ pc = "close" /\ pc' = "idle" /\ name' = NoName
      /\ handle' = FALSE /\ result' = (IF failed THEN "error" ELSE "done")
      /\ UNCHANGED <<size, pos, attr, local, failed>>
  BY DEF CopyInv, Close, Return
<1>2. rq \in Request /\ Silent(rq)
  BY RqType, SomeName DEF Ops, Silent, Rq
<1>3. PICK ok \in BOOLEAN : Transmit(rq, ok)
  BY DEF Close
<1> HIDE DEF rq
<1>4. /\ sent' \in Nat /\ scratch' \in [1 .. BlkSize -> Cell] /\ toHost' \in Seq(Packet)
      /\ \/ /\ Len(toHost') = n + 1 /\ toHost'[n + 1].rq = rq
            /\ \A k \in 1 .. n : toHost'[k] = toHost[k]
         \/ toHost' = toHost
      /\ UNCHANGED <<toArc, held, channel, alive, breaks, shown, commands>>
  <2>1. /\ sent' \in Nat /\ scratch' \in [1 .. BlkSize -> Cell] /\ toHost' \in Seq(Packet)
        /\ \/ /\ Len(toHost') = n + 1 /\ toHost'[n + 1] = [req |-> sent', rq |-> rq]
              /\ \A k \in 1 .. n : toHost'[k] = toHost[k]
           \/ toHost' = toHost
        /\ UNCHANGED <<toArc, held, channel, alive, breaks, shown, commands>>
    BY <1>1, <1>2, <1>3, TransmitLeaves, Zenon
  <2>2. [req |-> sent', rq |-> rq].rq = rq
    OBVIOUS
  <2> QED
    BY <2>1, <2>2
<1>5. TypeOK'
  BY <1>1, <1>4 DEF TypeOK
<1>6. n \in {0, 1} /\ Len(toArc) <= 1 /\ (held = <<>> \/ toArc = <<>>)
      /\ (held # <<>> \/ toArc # <<>> => \A k \in 1 .. n : Silent(toHost[k].rq))
  <2>1. toHost \in Seq(Packet) /\ n <= 2 /\ n # 2
    BY <1>1 DEF Alone, TypeOK
  <2>2. n \in Nat
    BY <2>1, LenProperties
  <2>3. n \in {0, 1}
    <3>1. \A m \in Nat : m <= 2 /\ m # 2 => m \in {0, 1}
      OBVIOUS
    <3> QED
      BY <2>1, <2>2, <3>1, Zenon
  <2> QED
    BY <1>1, <2>3 DEF Alone
<1>7. Alone'
  <2>1. CASE Len(toHost') = n + 1 /\ toHost'[n + 1].rq = rq
             /\ \A k \in 1 .. n : toHost'[k] = toHost[k]
    <3>1. Len(toHost') <= 2 /\ (Len(toHost') = 2 => n = 1 /\ toHost'[2].rq = rq)
      BY <1>6, <2>1
    <3>2. held # <<>> \/ toArc # <<>> => \A k \in 1 .. Len(toHost') : Silent(toHost'[k].rq)
      <4>1. \A k \in 1 .. Len(toHost') : k \in 1 .. n \/ k = n + 1
        BY <1>6, <2>1
      <4> QED
        BY <1>2, <1>6, <2>1, <4>1
    <3> QED
      BY <1>1, <1>2, <1>4, <1>6, <3>1, <3>2 DEF Alone
  <2>2. CASE toHost' = toHost
    BY <1>1, <1>4, <2>2 DEF Alone
  <2> QED
    BY <1>4, <2>1, <2>2
<1>8. Undisturbed' /\ Awaited' /\ Opening' /\ Copying'
  BY <1>1 DEF Undisturbed, Awaited, Waiting, Opening, Copying
<1>9. name \in Names /\ name \in DOMAIN Remote /\ name # NoName /\ (failed \/ local = Remote[name])
  BY <1>1 DEF Copying
<1>10. Copy!Done \/ Copy!Fail
  BY <1>1, <1>9 DEF Copy!Done, Copy!Fail, Copy!End
<1> QED
  BY <1>5, <1>7, <1>8, <1>10 DEF CopyInv, CopyStep, Copy!Next

LEMMA TypeKeeps ==
  ASSUME CopyInv, Quiet, TypeAny
  PROVE  CopyInv' /\ CopyStep
<1>1. PICK at \in {"test", "info", "open"}, file \in Names \cup {NoName} :
        Type(at, file) /\ (IF at = "open" THEN file \in Names ELSE file = NoName)
  BY DEF TypeAny
<1>2. /\ TypeOK /\ Alone /\ Copying /\ pc = "idle" /\ pc' = at /\ name' = file /\ failed' = FALSE
      /\ name = NoName /\ result' = (IF at = "open" THEN "none" ELSE result)
      /\ UNCHANGED <<size, pos, attr, scratch, local, handle, shown, toHost, toArc, held,
                     channel, alive, breaks, sent>>
  BY <1>1 DEF CopyInv, Copying, Type, serverVars
<1>3. TypeOK'
  BY <1>1, <1>2 DEF TypeOK
<1>4. Alone' /\ Undisturbed' /\ Awaited' /\ Opening'
  BY <1>1, <1>2, EmptySeq DEF Alone, Quiet, Undisturbed, Awaited, Waiting, Opening
<1>5. Copying'
  BY <1>1, <1>2 DEF Copying
<1>6. CASE at = "open"
  BY <1>1, <1>2, <1>3, <1>4, <1>5, <1>6 DEF CopyInv, CopyStep, Copy!Next, Copy!Begin
<1>7. CASE at # "open"
  BY <1>1, <1>2, <1>3, <1>4, <1>5, <1>7 DEF CopyInv, CopyStep
<1> QED
  BY <1>6, <1>7

-----------------------------------------------------------------------------
(* The server's steps *)

\* What the server's steps leave alone.
Client == UNCHANGED <<pc, name, size, pos, attr, local, handle, failed, result, scratch, shown,
                      sent, commands>>

\* What they must see to: the rest of the invariant is about the command.
LEMMA ClientKeeps ==
  ASSUME CopyInv, Client, Alone', Awaited', Opening',
         Quiet => Quiet',
         toHost' \in Seq(Packet), toArc' \in Seq(Answer), held' \in Seq(Answer),
         Len(held') <= 1, channel' \in Channel, alive' \in BOOLEAN
  PROVE  CopyInv' /\ CopyStep
<1>1. TypeOK'
  BY DEF CopyInv, TypeOK, Client
<1>2. Undisturbed'
  BY DEF CopyInv, Undisturbed, Client
<1>3. Copying'
  <2>1. Bytes(0, pos)' = Bytes(0, pos) /\ Bytes(0, size)' = Bytes(0, size)
    BY DEF Bytes, Client
  <2> QED
    BY <2>1 DEF CopyInv, Copying, Client
<1> QED
  BY <1>1, <1>2, <1>3 DEF CopyInv, CopyStep, Client

\* The wait is for the same.
LEMMA RightKeeps ==
  ASSUME Client, NEW r PROVE Wanted' = Wanted /\ (Right(r) => Right(r)')
<1>1. BlockLen' = BlockLen /\ Bytes(pos, BlockLen)' = Bytes(pos, BlockLen)
  BY DEF BlockLen, Bytes, Client
<1> QED
  BY <1>1 DEF Wanted, Right, Client

LEMMA OutputKeeps == CopyInv /\ Output => CopyInv' /\ CopyStep
<1> SUFFICES ASSUME CopyInv, Output PROVE CopyInv' /\ CopyStep
  OBVIOUS
<1>1. /\ TypeOK /\ Alone /\ Awaited /\ Opening /\ Client /\ held # <<>>
      /\ toArc' = Append(toArc, held[1]) /\ held' = <<>>
      /\ UNCHANGED <<toHost, channel, alive, breaks>>
  BY DEF CopyInv, Output, Client, clientVars, fileVars
<1>2. held \in Seq(Answer) /\ Len(held) \in Nat \ {0} /\ Len(held) <= 1
  BY <1>1, EmptySeq DEF TypeOK
<1>3. held[1] \in Answer
  BY <1>2, ElementOfSeq
<1>4. toArc = <<>>
  BY <1>1 DEF Alone
<1>5. toArc' = <<held[1]>> /\ Len(toArc') = 1 /\ toArc'[1] = held[1] /\ toArc' \in Seq(Answer)
  BY <1>1, <1>3, <1>4
<1>6. Alone'
  <2>1. \A k \in 1 .. Len(toHost) : Silent(toHost[k].rq)
    BY <1>1 DEF Alone
  <2> QED
    BY <1>1, <1>5, <2>1 DEF Alone, Client
<1>7. Awaited'
  BY <1>1, <1>5, RightKeeps DEF Awaited, Waiting, Client
<1>8. Opening'
  BY <1>1 DEF Opening, Client
<1>9. Quiet => Quiet'
  BY <1>1 DEF Quiet
<1> QED
  BY <1>1, <1>5, <1>6, <1>7, <1>8, <1>9, ClientKeeps, EmptySeq DEF TypeOK

LEMMA ReadTogetherKeeps == CopyInv /\ ReadTogether => CopyInv' /\ CopyStep
<1> SUFFICES ASSUME CopyInv, ReadTogether PROVE CopyInv' /\ CopyStep
  OBVIOUS
<1>1. /\ TypeOK /\ Alone /\ Client /\ Len(toHost) >= 2
      /\ toHost' = <<>> /\ held' = <<>> /\ channel' = RawfileInit /\ alive' = FALSE
      /\ UNCHANGED <<toArc, breaks>>
  BY DEF CopyInv, ReadTogether, Client, clientVars, fileVars
<1>2. pc = "idle" /\ pc' = "idle"
  <2>1. toHost \in Seq(Packet) /\ Len(toHost) <= 2
    BY <1>1 DEF TypeOK, Alone
  <2>2. Len(toHost) \in Nat
    BY <2>1, LenProperties
  <2>3. \A n \in Nat : n >= 2 /\ n <= 2 => n = 2
    OBVIOUS
  <2>4. Len(toHost) = 2
    BY <1>1, <2>1, <2>2, <2>3, Zenon
  <2> QED
    BY <1>1, <2>4 DEF Alone, Client
<1>3. Alone' /\ Awaited' /\ Opening'
  BY <1>1, <1>2 DEF Alone, Awaited, Waiting, Opening
<1>4. Quiet => Quiet'
  BY <1>1 DEF Quiet
<1>5. RawfileInit \in Channel
  BY DEF RawfileInit, Channel, BlankCell, Cell
<1>6. held' \in Seq(Answer) /\ Len(held') <= 1 /\ toHost' \in Seq(Packet)
  BY <1>1, EmptySeq
<1> QED
  BY <1>1, <1>3, <1>4, <1>5, <1>6, ClientKeeps DEF TypeOK

LEMMA ReopenKeeps == CopyInv /\ Reopen => CopyInv' /\ CopyStep
<1> SUFFICES ASSUME CopyInv, Reopen PROVE CopyInv' /\ CopyStep
  OBVIOUS
<1>1. /\ TypeOK /\ Alone /\ Awaited /\ Opening /\ Client
      /\ channel' = [channel EXCEPT !.file = NoFile] /\ toHost' = <<>>
      /\ toArc' = <<>> \/ toArc' = toArc
      /\ UNCHANGED <<held, alive>>
  BY DEF CopyInv, Reopen, RawfileReopen, Client, clientVars, fileVars
<1>2. channel' \in Channel /\ channel'.file = NoFile
  BY <1>1 DEF TypeOK, Channel
<1>3. toArc' \in Seq(Answer) /\ toHost' \in Seq(Packet)
  <2>1. toArc \in Seq(Answer) /\ <<>> \in Seq(Answer) /\ <<>> \in Seq(Packet)
    BY <1>1, EmptySeq DEF TypeOK
  <2> QED
    BY <1>1, <2>1, Zenon
<1>4. Alone'
  BY <1>1 DEF Alone
<1>5. Awaited'
  BY <1>1, RightKeeps DEF Awaited, Waiting, Client
<1>6. Opening'
  BY <1>2 DEF Opening
<1>7. Quiet => Quiet'
  BY <1>1 DEF Quiet
<1> QED
  BY <1>1, <1>2, <1>3, <1>4, <1>5, <1>6, <1>7, ClientKeeps DEF TypeOK

LEMMA RestartKeeps == CopyInv /\ Restart => CopyInv' /\ CopyStep
<1> SUFFICES ASSUME CopyInv, Restart PROVE CopyInv' /\ CopyStep
  OBVIOUS
<1>1. /\ TypeOK /\ Alone /\ Awaited /\ Opening /\ Client
      /\ channel' = RawfileInit /\ held' = <<>> /\ alive' = TRUE
      /\ UNCHANGED <<toHost, toArc>>
  BY DEF CopyInv, Restart, Client, clientVars, fileVars
<1>2. channel' \in Channel /\ channel'.file = NoFile
  BY <1>1 DEF RawfileInit, Channel, BlankCell, Cell
<1>3. Alone'
  BY <1>1 DEF Alone, Client
<1>4. Awaited'
  BY <1>1, RightKeeps DEF Awaited, Waiting, Client
<1>5. Opening'
  BY <1>2 DEF Opening
<1>6. Quiet => Quiet'
  BY <1>1 DEF Quiet
<1> QED
  BY <1>1, <1>2, <1>3, <1>4, <1>5, <1>6, ClientKeeps, EmptySeq DEF TypeOK

\* What the server says to an open.
LEMMA OpenReply ==
  ASSUME name \in Names, NEW ch \in Channel, NEW rq, rq = Rq("init", name, 0, 0),
         NEW c, c = AfterRequest(ch, rq)
  PROVE  /\ c.file = Search(name) /\ Len(Replies(c, rq)) = 1
         /\ Replies(c, rq)[1].kind = "init"
         /\ Replies(c, rq)[1].ok <=> Search(name) # NoFile
         /\ Replies(c, rq)[1].ok => /\ Replies(c, rq)[1].size = FileLen[Search(name)]
                                    /\ Replies(c, rq)[1].attr = AttrOf(Search(name))
<1>1. rq.op = "init" /\ rq.name = name
  BY DEF Rq
<1>2. c = [ch EXCEPT !.file = Search(name)]
  BY <1>1 DEF AfterRequest, CrfOpenRead
<1>3. c.file = Search(name)
  BY <1>2 DEF Channel
<1> DEFINE r == [kind |-> "init", ok |-> c.file # NoFile,
                 size |-> IF c.file # NoFile THEN FileLen[c.file] ELSE 0,
                 attr |-> AttrOf(c.file), data |-> <<>>]
<1>4. Replies(c, rq) = <<r>>
  BY <1>1 DEF Replies, Reply
<1>5. /\ r.kind = "init" /\ (r.ok <=> Search(name) # NoFile)
      /\ r.ok => r.size = FileLen[Search(name)] /\ r.attr = AttrOf(Search(name))
  BY <1>3
<1> HIDE DEF r
<1>6. <<r>>[1] = r /\ Len(<<r>>) = 1
  OBVIOUS
<1> QED
  BY <1>3, <1>4, <1>5, <1>6

\* And to a request for a block of the file it has open.
LEMMA BlockReply ==
  ASSUME name \in Names, Search(name) \in Files, NEW ch \in Channel,
         ch.file \in {Search(name), NoFile},
         pos \in Nat, NEW n \in 0 .. BlkSize, pos + n <= FileLen[Search(name)],
         NEW rq, rq = Rq("read", AnyName, pos, n), NEW c, c = AfterRequest(ch, rq)
  PROVE  /\ c.file = ch.file
         /\ \/ Replies(c, rq) = <<>>
            \/ /\ Len(Replies(c, rq)) = 1 /\ Replies(c, rq)[1].kind = "block"
               /\ Replies(c, rq)[1].data = Bytes(pos, n)
<1>1. rq.op = "read" /\ rq.off = pos /\ rq.size = n
  BY DEF Rq
<1>2. CASE ch.file = NoFile
  <2>1. c = ch
    BY <1>1, <1>2 DEF AfterRequest
  <2>2. Replies(c, rq) = <<>>
    BY <1>1, <1>2, <2>1 DEF Replies
  <2> QED
    BY <2>1, <2>2
<1>3. CASE ch.file # NoFile
  <2>1. ch.file = Search(name)
    BY <1>3
  <2>2. c = Pread(ch, pos, n)
    BY <1>1, <1>3 DEF AfterRequest
  <2>3. c.file = ch.file
        /\ c.buff = [k \in 1 .. BlkSize |-> IF k <= n /\ pos + k <= FileLen[ch.file]
                       THEN [file |-> ch.file, pos |-> pos + k] ELSE ch.buff[k]]
    BY <2>2 DEF Pread, Channel
  <2>4. Replies(c, rq) = <<[kind |-> "block", ok |-> TRUE, size |-> n, attr |-> DataAttr,
                            data |-> SubSeq(c.buff, 1, n)]>>
    BY <1>1, <1>3, <2>3 DEF Replies, Reply
  <2>5. n \in Nat /\ FileLen[Search(name)] \in Nat
    OBVIOUS
  <2>6. \A k \in 1 .. n : c.buff[k] = [file |-> Search(name), pos |-> pos + k] /\ c.buff[k] \in Cell
    <3>1. \A k \in 1 .. n : k \in 1 .. BlkSize /\ k <= n /\ pos + k <= FileLen[Search(name)]
                            /\ pos + k \in Nat
      BY <2>5
    <3> QED
      BY <2>1, <2>3, <3>1 DEF Cell
  <2>7. SubSeq(c.buff, 1, n) = Bytes(pos, n)
    <3> DEFINE d == SubSeq(c.buff, 1, n)
    <3>1. /\ d \in Seq(Cell) /\ Len(d) = IF 1 <= n THEN n - 1 + 1 ELSE 0
          /\ \A k \in 1 .. n - 1 + 1 : d[k] = c.buff[1 + k - 1]
      <4>1. \A k \in 1 .. n : c.buff[k] \in Cell
        BY <2>6, Zenon
      <4>2. 1 \in Int /\ n \in Int
        BY <2>5
      <4> QED
        BY <4>1, <4>2, SubSeqProperties
    <3> HIDE DEF d
    <3>2. n - 1 + 1 = n /\ \A k \in 1 .. n : 1 + k - 1 = k
      BY <2>5
    <3>3. Len(d) = n /\ \A k \in 1 .. n : d[k] = c.buff[k]
      BY <2>5, <3>1, <3>2
    <3>4. /\ Bytes(pos, n) \in Seq(Cell) /\ Len(Bytes(pos, n)) = n
          /\ \A k \in 1 .. n : Bytes(pos, n)[k] = [file |-> Search(name), pos |-> pos + k]
      BY <2>5, BytesType
    <3>5. \A k \in 1 .. n : d[k] = Bytes(pos, n)[k]
      BY <2>6, <3>3, <3>4
    <3>6. d = Bytes(pos, n)
      BY <3>1, <3>3, <3>4, <3>5, SeqEqual
    <3> QED
      BY <3>6 DEF d
  <2> QED
    BY <2>3, <2>4, <2>7
<1> QED
  BY <1>2, <1>3

LEMMA ServeKeeps == CopyInv /\ Serve => CopyInv' /\ CopyStep
<1> SUFFICES ASSUME CopyInv, Serve PROVE CopyInv' /\ CopyStep
  OBVIOUS
<1> DEFINE rq  == toHost[1].rq
           req == toHost[1].req
           rps == Replies(channel', rq)
<1>1. /\ TypeOK /\ Alone /\ Awaited /\ Opening /\ Copying /\ Client /\ toHost # <<>>
      /\ toHost' = Tail(toHost) /\ UNCHANGED <<toArc, alive, breaks>>
  BY DEF CopyInv, Serve, Client, clientVars, fileVars
<1>2. /\ toHost \in Seq(Packet) /\ Len(toHost) \in Nat \ {0} /\ Len(toHost) <= 2
      /\ toHost' \in Seq(Packet) /\ Len(toHost') = Len(toHost) - 1
      /\ \A k \in 1 .. Len(toHost') : toHost'[k] = toHost[k + 1]
  <2>1. toHost \in Seq(Packet) /\ toHost # <<>> /\ Len(toHost) <= 2
    BY <1>1 DEF TypeOK, Alone
  <2>2. Len(toHost) \in Nat \ {0}
    BY <2>1, EmptySeq
  <2> QED
    BY <1>1, <2>1, <2>2, HeadTailProperties
<1>3. 1 \in 1 .. Len(toHost) /\ toHost[1] \in Packet /\ Head(toHost) = toHost[1]
  BY <1>2, ElementOfSeq
<1>4. /\ channel' = AfterRequest(channel, rq)
      /\ held' = IF rps = <<>> THEN held ELSE <<[req |-> req, reply |-> rps[1]]>>
  BY <1>3 DEF Serve, SendPacket
<1>5. rq \in Request /\ req \in Nat /\ channel \in Channel
  BY <1>1, <1>3 DEF TypeOK, Packet
<1>6. /\ channel' \in Channel /\ rps \in Seq(Response) /\ Len(rps) <= 1
      /\ (Silent(rq) => rps = <<>>)
  BY <1>4, <1>5, ServerTypes
<1> HIDE DEF rq, req, rps
<1>7. rps # <<>> => rps[1] \in Response
  <2>1. rps # <<>> => Len(rps) \in Nat \ {0}
    BY <1>6, EmptySeq
  <2> QED
    BY <1>6, <2>1, ElementOfSeq
<1>8. held' \in Seq(Answer) /\ Len(held') <= 1
  <2>1. CASE rps = <<>>
    BY <1>1, <1>4, <2>1 DEF TypeOK
  <2>2. CASE rps # <<>>
    <3> DEFINE a == [req |-> req, reply |-> rps[1]]
    <3>1. a \in Answer
      BY <1>5, <1>7, <2>2 DEF Answer
    <3>2. held' = <<a>>
      BY <1>4, <2>2
    <3> HIDE DEF a
    <3> QED
      BY <3>1, <3>2
  <2> QED
    BY <2>1, <2>2
<1>9. \A k \in 1 .. Len(toHost') : k = 1 /\ Len(toHost) = 2 /\ toHost'[k] = toHost[2]
  <2>1. \A k \in 1 .. Len(toHost') : k = 1 /\ k + 1 = 2 /\ Len(toHost) = 2
    BY <1>2
  <2> QED
    BY <1>2, <2>1
<1>10. \A k \in 1 .. Len(toHost') : Silent(toHost'[k].rq) /\ pc = "idle"
  BY <1>1, <1>9 DEF Alone
<1>11. rps # <<>> => held = <<>> /\ toArc = <<>>
  BY <1>1, <1>3, <1>6 DEF Alone, rq
<1>12. Alone'
  <2>1. Len(toHost') <= 2 /\ Len(toHost') # 2
    BY <1>2
  <2>2. held' = <<>> \/ toArc' = <<>>
    BY <1>1, <1>4, <1>11 DEF Alone
  <2>3. Len(toArc') <= 1
    BY <1>1 DEF Alone
  <2> QED
    BY <1>10, <2>1, <2>2, <2>3 DEF Alone
<1>13. Quiet => Quiet'
  BY <1>1 DEF Quiet
<1>14. CASE ~Waiting
  <2>1. ~Waiting' /\ pc' = pc
    BY <1>1, <1>14 DEF Client, Waiting
  <2>2. pc # "block"
    BY <1>1 DEF CopyInv, Undisturbed, Quiet
  <2>3. Awaited' /\ Opening'
    BY <1>14, <2>1, <2>2 DEF Awaited, Opening, Waiting
  <2> QED
    BY <1>1, <1>2, <1>6, <1>8, <1>12, <1>13, <2>3, ClientKeeps DEF TypeOK
<1>15. CASE Waiting
  <2>1. rq = Wanted /\ req = sent
    <3>1. toHost[1] = [req |-> sent, rq |-> Wanted]
      BY <1>1, <1>3, <1>15 DEF Awaited
    <3> QED
      BY <3>1 DEF rq, req
  <2>2. held = <<>> /\ toArc = <<>>
    <3>1. ~Silent(rq)
      BY <1>15, <2>1 DEF Wanted, Silent, Rq, Waiting
    <3> QED
      BY <1>1, <1>3, <3>1 DEF Alone, rq
  <2>3. \A k \in 1 .. Len(toHost') : FALSE
    BY <1>10, <1>15 DEF Waiting
  <2>4. (rps # <<>> => Right(rps[1])) /\ Opening'
    <3>1. CASE pc = "infoWait"
      BY <1>1, <3>1 DEF Right, Opening, Client
    <3>2. CASE pc = "openWait"
      <4>1. name \in Names /\ rq = Rq("init", name, 0, 0)
        BY <1>1, <2>1, <3>2 DEF Copying, Wanted
      <4>2. /\ channel'.file = Search(name) /\ rps[1].kind = "init"
            /\ rps[1].ok <=> Search(name) # NoFile
            /\ rps[1].ok => /\ rps[1].size = FileLen[Search(name)]
                            /\ rps[1].attr = AttrOf(Search(name))
        BY <1>4, <1>5, <4>1, OpenReply DEF rps
      <4> QED
        BY <1>1, <3>2, <4>2 DEF Right, Opening, Client
    <3>3. CASE pc = "blockWait"
      <4>1. name \in Names /\ name \in DOMAIN Remote /\ size = FileLen[Search(name)] /\ pos <= size
        BY <1>1, <3>3 DEF Copying
      <4>2. Search(name) \in Files /\ pos \in Nat /\ channel.file \in {Search(name), NoFile}
        BY <1>1, <3>3, <4>1, SearchIsMeant DEF Opening, TypeOK
      <4>3. BlockLen \in 0 .. BlkSize /\ pos + BlockLen <= FileLen[Search(name)]
        BY <1>1, <4>1, BlockLenType
      <4>4. rq = Rq("read", AnyName, pos, BlockLen)
        BY <2>1, <3>3 DEF Wanted
      <4>5. /\ channel'.file = channel.file
            /\ rps = <<>> \/ (rps[1].kind = "block" /\ rps[1].data = Bytes(pos, BlockLen))
        BY <1>4, <1>5, <4>1, <4>2, <4>3, <4>4, BlockReply DEF rps
      <4> QED
        BY <1>1, <3>3, <4>2, <4>5 DEF Right, Opening, Client
    <3> QED
      BY <1>15, <3>1, <3>2, <3>3 DEF Waiting
  <2>5. Awaited'
    <3>1. rps = <<>> => held' = <<>>
      BY <1>4, <2>2
    <3>2. rps # <<>> => held' # <<>> /\ held'[1].req = sent /\ held'[1].reply = rps[1]
      BY <1>4, <2>1
    <3>3. sent' = sent /\ toArc' = <<>>
      BY <1>1, <2>2 DEF Client
    <3>4. rps # <<>> => Right(held[1].reply)'
      <4>1. Bytes(pos, BlockLen)' = Bytes(pos, BlockLen)
        BY <1>1 DEF Bytes, BlockLen, Client
      <4> QED
        BY <1>1, <2>4, <3>2, <4>1 DEF Right, Client
    <3>5. held' # <<>> => held'[1].req = sent' /\ Right(held[1].reply)'
      BY <3>1, <3>2, <3>3, <3>4
    <3> QED
      BY <2>3, <3>3, <3>5 DEF Awaited
  <2> QED
    BY <1>1, <1>2, <1>6, <1>8, <1>12, <1>13, <2>4, <2>5, ClientKeeps DEF TypeOK
<1> QED
  BY <1>14, <1>15

-----------------------------------------------------------------------------
(* Theorems *)

LEMMA CopyInit == Init => CopyInv /\ Copy!Init
<1> SUFFICES ASSUME Init PROVE CopyInv /\ Copy!Init
  OBVIOUS
<1> USE DEF Init
<1>1. scratch \in [1 .. BlkSize -> Cell] /\ channel \in Channel
  BY DEF RawfileInit, Channel, BlankCell, Cell
<1>2. toHost = <<>> /\ held = <<>> /\ toArc = <<>> /\ Len(held) <= 1
      /\ toHost \in Seq(Packet) /\ held \in Seq(Answer) /\ toArc \in Seq(Answer)
  BY EmptySeq
<1>3. local.data \in Seq(Cell) /\ local.attr = NewAttr
      /\ local = [data |-> local.data, attr |-> local.attr]
  BY EmptySeq
<1>4. TypeOK
  BY <1>1, <1>2, <1>3 DEF TypeOK
<1>5. Alone /\ Undisturbed /\ Awaited /\ Opening
  BY <1>2 DEF Alone, Undisturbed, Awaited, Waiting, Opening
<1>6. Copying
  BY <1>3 DEF Copying
<1> QED
  BY <1>4, <1>5, <1>6 DEF CopyInv, Copy!Init

LEMMA CopyNext == CopyInv /\ [Next]_vars => CopyInv' /\ CopyStep
<1> SUFFICES ASSUME CopyInv, [Next]_vars PROVE CopyInv' /\ CopyStep
  OBVIOUS
<1>1. CASE CommandStep
  BY <1>1, TestSendKeeps, InfoSendKeeps, InfoAnswerKeeps, OpenSendKeeps, OpenAnswerKeeps,
     OpenTimeoutKeeps, BlockSendKeeps, BlockAnswerKeeps, BlockTimeoutKeeps, SetAttrKeeps,
     CloseKeeps DEF CommandStep
<1>2. CASE ServerTurn
  BY <1>2, ServeKeeps, ReadTogetherKeeps, OutputKeeps DEF ServerTurn
<1>3. CASE Reopen \/ Restart
  BY <1>3, ReopenKeeps, RestartKeeps
<1>4. CASE Quiet /\ TypeAny
  BY <1>4, TypeKeeps
<1>5. CASE UNCHANGED vars
  <2>1. Client /\ UNCHANGED <<toHost, toArc, held, channel, alive, breaks>>
    BY <1>5 DEF vars, Client, fileVars, serverVars
  <2>2. Alone' /\ Opening' /\ (Quiet => Quiet')
    BY <2>1 DEF CopyInv, Alone, Opening, Quiet, Client
  <2>3. Awaited'
    BY <2>1, RightKeeps DEF CopyInv, Awaited, Waiting, Client
  <2> QED
    BY <2>1, <2>2, <2>3, ClientKeeps DEF CopyInv, TypeOK
<1> QED
  BY <1>1, <1>2, <1>3, <1>4, <1>5 DEF Next, Wire

\* One request is under way at most, and what a command waits for is the answer to
\* its own (users who type when the link is quiet).
THEOREM CopyInvariant == Spec => []CopyInv
BY CopyInit, CopyNext, PTL DEF Spec

\* Types.
THEOREM TypeCorrect == Spec => []TypeOK
<1>1. CopyInv => TypeOK
  BY DEF CopyInv
<1> QED
  BY <1>1, CopyInvariant, PTL

\* *PCPL ends with a true copy, or an error, or says that there is no such file:
\* it implements FileCopy (commands_rawfile.S against channel_rawfile.c).
THEOREM CopyImplemented == Spec => ImplementsCopy
<1>1. Init => Copy!Init
  BY CopyInit
<1>2. CopyInv /\ [Next]_vars => [Copy!Next]_(Copy!copyVars)
  BY CopyNext DEF CopyStep, Copy!copyVars
<1> QED
  BY <1>1, <1>2, CopyInvariant, PTL DEF Spec, ImplementsCopy, Copy!Spec

\* The response a command takes is the one to the request it made last.
THEOREM OwnAnswersTaken == Spec => TakesItsAnswer
<1>1. ASSUME CopyInv, [Next]_vars, Receive PROVE Head(toArc).req = sent
  <2>1. toArc # <<>> /\ toArc' = Tail(toArc) /\ UNCHANGED <<toHost, serverVars, sent, commands>>
    BY <1>1 DEF Receive
  <2>2. toArc \in Seq(Answer) /\ Tail(toArc) # toArc /\ Head(toArc) = toArc[1]
    <3>1. toArc \in Seq(Answer)
      BY <1>1 DEF CopyInv, TypeOK
    <3>2. Len(Tail(toArc)) = Len(toArc) - 1 /\ Len(toArc) \in Nat
      BY <2>1, <3>1, HeadTailProperties, LenProperties
    <3>3. Len(Tail(toArc)) # Len(toArc)
      <4>1. \A n \in Nat : n - 1 # n
        OBVIOUS
      <4> QED
        BY <3>2, <4>1, Zenon
    <3>4. Tail(toArc) # toArc
      BY <3>3, Zenon
    <3> QED
      BY <2>1, <3>1, <3>4
  <2>3. Waiting
    <3>1. CASE CommandStep
      BY <2>1, <2>2, <3>1 DEF CommandStep, Waiting, TestSend, InfoSend, InfoAnswer, OpenSend,
         OpenAnswer, OpenTimeout, BlockSend, BlockAnswer, BlockTimeout, SetAttr, Close, Transmit
    <3>2. CASE Quiet /\ TypeAny
      BY <2>1, <3>2 DEF Quiet
    <3>3. CASE Reopen \/ Restart
      <4>1. breaks' = breaks + 1 /\ breaks' = breaks
        BY <2>1, <3>3 DEF Reopen, Restart, serverVars
      <4> QED
        BY <4>1
    <3>4. CASE ServerTurn
      BY <2>1, <2>2, <3>4 DEF ServerTurn, Serve, ReadTogether, Output, serverVars
    <3>5. CASE UNCHANGED vars
      BY <2>1, <2>2, <3>5 DEF vars
    <3> QED
      BY <1>1, <3>1, <3>2, <3>3, <3>4, <3>5 DEF Next, Wire
  <2> QED
    BY <1>1, <2>1, <2>2, <2>3 DEF CopyInv, Awaited
<1>2. CopyInv /\ [Next]_vars => [Receive => Head(toArc).req = sent]_vars
  BY <1>1
<1> QED
  BY <1>2, CopyInvariant, PTL DEF Spec, TakesItsAnswer

\* No answer is overwritten in tx_buffer (main.c, send_packet).
THEOREM NothingIsOverwritten == Spec => NothingOverwritten
<1>1. ASSUME CopyInv, [Next]_vars, held # <<>>, held' # held PROVE held' = <<>>
  <2>1. CASE CommandStep
    BY <1>1, <2>1 DEF CommandStep, TestSend, InfoSend, InfoAnswer, OpenSend, OpenAnswer,
       OpenTimeout, BlockSend, BlockAnswer, BlockTimeout, SetAttr, Close, Transmit, Receive,
       RxTimeout, serverVars
  <2>2. CASE Serve
    <3>1. TypeOK /\ Alone /\ toHost \in Seq(Packet) /\ toHost # <<>>
      BY <1>1, <2>2 DEF Serve, CopyInv, TypeOK
    <3>2. Len(toHost) \in Nat \ {0}
      BY <3>1, EmptySeq
    <3>3. 1 \in 1 .. Len(toHost) /\ Head(toHost) = toHost[1] /\ toHost[1] \in Packet
      BY <3>1, <3>2, ElementOfSeq
    <3>4. Silent(toHost[1].rq)
      BY <1>1, <3>1, <3>3 DEF Alone
    <3>5. toHost[1].rq \in Request /\ channel \in Channel
      BY <3>1, <3>3 DEF Packet, TypeOK
    <3>6. Replies(channel', toHost[1].rq) = <<>>
      BY <2>2, <3>3, <3>4, <3>5, ServerTypes DEF Serve
    <3> QED
      BY <1>1, <2>2, <3>3, <3>6 DEF Serve, SendPacket
  <2>3. CASE ReadTogether \/ Output \/ Reopen \/ Restart
    BY <1>1, <2>3 DEF ReadTogether, Output, Reopen, Restart
  <2>4. CASE Quiet /\ TypeAny
    BY <1>1, <2>4 DEF Quiet
  <2>5. CASE UNCHANGED vars
    BY <1>1, <2>5 DEF vars, serverVars
  <2> QED
    BY <1>1, <2>1, <2>2, <2>3, <2>4, <2>5 DEF Next, Wire, ServerTurn
<1>2. CopyInv /\ [Next]_vars => [held # <<>> /\ held' # held => held' = <<>>]_vars
  BY <1>1
<1> QED
  BY <1>2, CopyInvariant, PTL DEF Spec, NothingOverwritten

\* No command returns with the local file open.
THEOREM NothingIsLeftOpen == Spec => []NothingLeftOpen
<1>1. CopyInv => NothingLeftOpen
  BY DEF CopyInv, Copying, NothingLeftOpen
<1> QED
  BY <1>1, CopyInvariant, PTL

\* A copy reported as complete is one of the file named (commands_rawfile.S,
\* pcpl_all_done): what a stale answer spoils for users who do not wait.
THEOREM CopiesAreTrue == Spec => CopyIsTrue
<1>1. ASSUME CopyInv, Close, result' = "done"
      PROVE  name \in DOMAIN Remote /\ local = Remote[name]
  BY <1>1 DEF CopyInv, Copying, Close, Return
<1>2. CopyInv /\ [Next]_vars =>
        [Close /\ result' = "done" => name \in DOMAIN Remote /\ local = Remote[name]]_vars
  BY <1>1
<1> QED
  BY <1>2, CopyInvariant, PTL DEF Spec, CopyIsTrue

-----------------------------------------------------------------------------
(* The commands are clients the server is made for *)

\* A step of PacketService, or none.
ServiceStep == Service!Next \/ UNCHANGED <<sent, toHost, toArc, held, channel, alive>>

\* What the service knows of requests and files is what the server does.
LEMMA SameFiles ==
  /\ Service!RawfileInit = RawfileInit /\ Service!Request = Request
  /\ \A ch : Service!RawfileReopen(ch) = RawfileReopen(ch)
  /\ \A rq : Service!Silent(rq) = Silent(rq)
  /\ \A ch, rq : Service!AfterRequest(ch, rq) = AfterRequest(ch, rq)
  /\ \A ch, rq : Service!Replies(ch, rq) = Replies(ch, rq)
<1>1. Service!RawfileInit = RawfileInit /\ \A ch : Service!RawfileReopen(ch) = RawfileReopen(ch)
  BY DEF Service!RawfileInit, RawfileInit, Service!BlankCell, BlankCell,
         Service!RawfileReopen, RawfileReopen
<1>2. Service!Request = Request /\ \A rq : Service!Silent(rq) = Silent(rq)
  BY DEF Service!Request, Request, Service!Ops, Ops, Service!Silent, Silent
<1>3. \A n : Service!Search(n) = Search(n)
  BY DEF Service!Search, Search, Service!Glob, Glob, Service!FirstOf, FirstOf
<1>4. \A ch, off, n : Service!Pread(ch, off, n) = Pread(ch, off, n)
  BY DEF Service!Pread, Pread
<1>5. \A ch, rq : Service!AfterRequest(ch, rq) = AfterRequest(ch, rq)
  BY <1>3, <1>4 DEF Service!AfterRequest, AfterRequest, Service!CrfOpenRead, CrfOpenRead,
     Service!CrfClose, CrfClose
<1>6. \A ch, rq : Service!Replies(ch, rq) = Replies(ch, rq)
  BY DEF Service!Replies, Replies, Service!Reply, Reply, Service!DataAttr, DataAttr,
     Service!AttrOf, AttrOf
<1> QED
  BY <1>1, <1>2, <1>5, <1>6

\* A request asked for in the way the service expects.
LEMMA TransmitAsks ==
  ASSUME TypeOK, NEW rq \in Request, NEW ok \in BOOLEAN, Transmit(rq, ok), Silent(rq) \/ Quiet
  PROVE  ServiceStep
<1> DEFINE packet == [req |-> sent + 1, rq |-> rq]
<1>1. /\ sent' = sent + 1 /\ UNCHANGED <<toArc, held, channel, alive>>
      /\ toHost' = Append(toHost, packet) \/ toHost' = toHost
  BY DEF Transmit, serverVars
<1>2. CASE toHost' = toHost
  BY <1>1, <1>2 DEF ServiceStep, Service!Next, Service!Ask
<1>3. CASE toHost' = Append(toHost, packet)
  <2>1. toHost \in Seq(Packet) /\ packet \in Packet /\ packet.req = sent' /\ packet.rq = rq
    BY <1>1 DEF TypeOK, Packet
  <2> HIDE DEF packet
  <2>2. /\ toHost' \in Seq(Packet) /\ Len(toHost') = Len(toHost) + 1 /\ Len(toHost) \in Nat
        /\ toHost'[Len(toHost) + 1] = packet
    BY <1>3, <2>1, AppendProperties, LenProperties
  <2>3. toHost' # <<>> /\ toHost'[Len(toHost')] = packet
    <3>1. Len(toHost) + 1 # 0
      BY <2>2
    <3>2. Len(toHost') # 0
      BY <2>2, <3>1
    <3> QED
      BY <2>2, <3>2, EmptyLen
  <2>4. Quiet => Service!Settled
    BY EmptySeq DEF Quiet, Service!Settled
  <2>5. Service!Ask
    BY <1>1, <1>3, <2>1, <2>3, <2>4, SameFiles DEF Service!Ask
  <2> QED
    BY <2>5 DEF ServiceStep, Service!Next
<1> QED
  BY <1>1, <1>2, <1>3

LEMMA CommandsAsk == CopyInv /\ CommandStep => ServiceStep
<1> SUFFICES ASSUME CopyInv, CommandStep PROVE ServiceStep
  OBVIOUS
<1>0. TypeOK /\ Undisturbed /\ Copying
  BY DEF CopyInv
<1>1. CASE TestSend \/ Close
  <2>1. PICK rq \in {Rq("ignore", AnyName, 0, 0), Rq("close", AnyName, 0, 0)}, ok \in BOOLEAN :
          Transmit(rq, ok)
    BY <1>1 DEF TestSend, Close
  <2>2. rq \in Request /\ Silent(rq)
    BY RqType, SomeName DEF Ops, Silent, Rq
  <2> QED
    BY <1>0, <2>1, <2>2, TransmitAsks
<1>2. CASE InfoSend
  <2>1. PICK ok \in BOOLEAN : Transmit(Rq("info", AnyName, 0, 0), ok)
    BY <1>2 DEF InfoSend
  <2>2. Rq("info", AnyName, 0, 0) \in Request /\ Quiet
    BY <1>0, <1>2, RqType, SomeName DEF Ops, Undisturbed, InfoSend
  <2> QED
    BY <1>0, <2>1, <2>2, TransmitAsks
<1>3. CASE OpenSend
  <2>1. PICK ok \in BOOLEAN : Transmit(Rq("init", name, 0, 0), ok)
    BY <1>3 DEF OpenSend
  <2>2. Rq("init", name, 0, 0) \in Request /\ Quiet
    BY <1>0, <1>3, RqType DEF Ops, Undisturbed, Copying, OpenSend
  <2> QED
    BY <1>0, <2>1, <2>2, TransmitAsks
<1>4. CASE BlockSend
  <2>1. PICK ok \in BOOLEAN : Transmit(Rq("read", AnyName, pos, BlockLen), ok)
    BY <1>4 DEF BlockSend
  <2>2. Rq("read", AnyName, pos, BlockLen) \in Request /\ Quiet
    <3>1. pc = "block" /\ pos \in Nat /\ pos <= size
      BY <1>0, <1>4 DEF BlockSend, Copying, TypeOK
    <3> QED
      BY <1>0, <3>1, RqType, SomeName, BlockLenType DEF Ops, Undisturbed
  <2> QED
    BY <1>0, <2>1, <2>2, TransmitAsks
<1>5. CASE InfoAnswer \/ OpenAnswer \/ BlockAnswer
  <2>1. Receive \/ RxTimeout
    BY <1>5 DEF InfoAnswer, OpenAnswer, BlockAnswer
  <2>2. Receive => Service!Take
    BY DEF Receive, Service!Take, serverVars
  <2> QED
    BY <2>1, <2>2 DEF ServiceStep, Service!Next, RxTimeout, serverVars
<1>6. CASE OpenTimeout \/ BlockTimeout \/ SetAttr
  BY <1>6 DEF OpenTimeout, BlockTimeout, SetAttr, RxTimeout, ServiceStep, serverVars
<1> QED
  BY <1>1, <1>2, <1>3, <1>4, <1>5, <1>6 DEF CommandStep

LEMMA ServerServes == CopyInv /\ (ServerTurn \/ Reopen \/ Restart) => ServiceStep
<1> SUFFICES ASSUME CopyInv, ServerTurn \/ Reopen \/ Restart PROVE ServiceStep
  OBVIOUS
<1> USE DEF ServiceStep, Service!Next, clientVars
<1>1. CASE Serve
  <2> DEFINE rq == Head(toHost).rq
  <2>1. /\ alive /\ toHost # <<>> /\ toHost' = Tail(toHost)
        /\ channel' = AfterRequest(channel, rq)
        /\ held' = SendPacket(Head(toHost), Replies(channel', rq))
        /\ UNCHANGED <<sent, toArc, alive>>
    BY <1>1 DEF Serve
  <2>2. /\ TypeOK /\ Alone /\ toHost \in Seq(Packet) /\ Len(toHost) \in Nat \ {0}
        /\ Head(toHost) = toHost[1] /\ 1 \in 1 .. Len(toHost) /\ Head(toHost) \in Packet
    <3>1. TypeOK /\ Alone /\ toHost \in Seq(Packet) /\ toHost # <<>>
      BY <2>1 DEF CopyInv, TypeOK
    <3>2. Len(toHost) \in Nat \ {0}
      BY <3>1, EmptySeq
    <3> QED
      BY <3>1, <3>2, ElementOfSeq
  <2>3. rq \in Request /\ channel \in Channel
    BY <2>2 DEF Packet, TypeOK
  <2>4. Silent(rq) => Replies(channel', rq) = <<>>
    BY <2>1, <2>3, ServerTypes
  <2>5. Replies(channel', rq) # <<>> => held = <<>>
    BY <2>2, <2>4 DEF Alone
  <2>6. Service!Serve
    BY <2>1, <2>5, SameFiles DEF Service!Serve, SendPacket
  <2> QED
    BY <2>6
<1>2. CASE ReadTogether
  BY <1>2, SameFiles DEF ReadTogether, Service!Die
<1>3. CASE Output
  BY <1>3 DEF Output, Service!Output
<1>4. CASE Reopen
  BY <1>4, SameFiles DEF Reopen, Service!Reconnect
<1>5. CASE Restart
  BY <1>5, SameFiles DEF Restart, Service!Restart
<1> QED
  BY <1>1, <1>2, <1>3, <1>4, <1>5 DEF ServerTurn

\* Commands typed when the link is quiet ask for nothing while an answer is due,
\* whatever timed out before: they keep to PacketService, which is what Server
\* does with their bytes.
THEOREM ServiceUsed == Spec => ImplementsService
<1>1. Init => Service!Init
  BY SameFiles DEF Init, Service!Init
<1>2. CopyInv /\ [Next]_vars => [Service!Next]_(Service!serviceVars)
  <2> SUFFICES ASSUME CopyInv, [Next]_vars PROVE ServiceStep
    BY DEF ServiceStep, Service!serviceVars
  <2>1. CASE Quiet /\ TypeAny
    BY <2>1 DEF TypeAny, Type, ServiceStep, serverVars
  <2>2. CASE UNCHANGED vars
    BY <2>2 DEF vars, ServiceStep, serverVars
  <2> QED
    BY <2>1, <2>2, CommandsAsk, ServerServes DEF Next, Wire
<1> QED
  BY <1>1, <1>2, CopyInvariant, PTL DEF Spec, ImplementsService, Service!Spec

-----------------------------------------------------------------------------
(* Users who do not know about the link *)

\* Whatever is taken for an answer, a block asked for fits the buffer, and the
\* local file is open only while it is copied into.
Placed ==
  /\ pc = "open" => name \in Names
  /\ pc \in {"block", "blockWait"} => pos <= size
  /\ handle => pc \in {"block", "blockWait", "attr", "close"}
  /\ local = [data |-> local.data, attr |-> local.attr]

AnyInv == TypeOK /\ Placed

LEMMA AnyReceive ==
  ASSUME TypeOK, Receive
  PROVE  /\ Head(toArc) \in Answer /\ toArc' \in Seq(Answer)
         /\ scratch' \in [1 .. BlkSize -> Cell]
         /\ UNCHANGED <<toHost, held, channel, alive, breaks, sent, commands>>
<1>1. toArc \in Seq(Answer) /\ toArc # <<>> /\ scratch \in [1 .. BlkSize -> Cell]
  BY DEF TypeOK, Receive
<1>2. Head(toArc) \in Answer /\ Tail(toArc) \in Seq(Answer)
  BY <1>1, HeadTailProperties
<1> DEFINE data == Head(toArc).reply.data
<1>3. data \in Seq(Cell)
  BY <1>2 DEF Answer, Response
<1> HIDE DEF data
<1>4. \A k \in 1 .. BlkSize : k <= Len(data) => data[k] \in Cell
  BY <1>3, ElementOfSeq
<1>5. BlankCell \in Cell
  BY DEF BlankCell, Cell
<1>6. scratch' = [k \in 1 .. BlkSize |->
           IF k <= Len(data) THEN data[k]
           ELSE IF Len(data) = 0 THEN BlankCell ELSE scratch[k]]
  BY DEF Receive, data
<1>7. scratch' \in [1 .. BlkSize -> Cell]
  BY <1>1, <1>4, <1>5, <1>6
<1> QED
  BY <1>2, <1>7 DEF Receive, serverVars

LEMMA AnyWritten ==
  ASSUME AnyInv, scratch' \in [1 .. BlkSize -> Cell], NEW n \in 0 .. BlkSize
  PROVE  /\ Written(n) = [data |-> Written(n).data, attr |-> local.attr]
         /\ Written(n).data \in Seq(Cell) /\ Written(n).attr = local.attr
<1>1. pos \in Nat /\ local.data \in Seq(Cell) /\ Len(local.data) \in Nat
      /\ local = [data |-> local.data, attr |-> local.attr]
  BY LenProperties DEF AnyInv, TypeOK, Placed
<1>l. PICK l \in Nat : l = IF Len(local.data) > pos + n THEN Len(local.data) ELSE pos + n
  <2> DEFINE most == IF Len(local.data) > pos + n THEN Len(local.data) ELSE pos + n
  <2>1. Len(local.data) \in Nat /\ pos + n \in Nat
    BY <1>1
  <2>2. most \in Nat
    BY <2>1
  <2> QED
    BY <2>2
<1> DEFINE at(k) == IF k \in pos + 1 .. pos + n THEN scratch'[k - pos]
                    ELSE IF k <= Len(local.data) THEN local.data[k] ELSE BlankCell
           d == [k \in 1 .. l |-> at(k)]
<1>2. \A k \in 1 .. l : at(k) \in Cell
  <2> SUFFICES ASSUME NEW k \in 1 .. l PROVE at(k) \in Cell
    OBVIOUS
  <2>1. CASE k \in pos + 1 .. pos + n
    <3>1. k - pos \in 1 .. BlkSize
      BY <1>1, <2>1
    <3> QED
      BY <2>1, <3>1
  <2>2. CASE k \notin pos + 1 .. pos + n /\ k <= Len(local.data)
    <3>1. k \in 1 .. Len(local.data)
      BY <1>1, <2>2
    <3> QED
      BY <1>1, <2>2, <3>1, ElementOfSeq
  <2>3. CASE k \notin pos + 1 .. pos + n /\ ~(k <= Len(local.data))
    BY <2>3 DEF BlankCell, Cell
  <2> QED
    BY <2>1, <2>2, <2>3
<1>3. Written(n) = [local EXCEPT !.data = d]
  BY <1>l DEF Written
<1> HIDE DEF at
<1>4. d \in Seq(Cell)
  <2>1. d \in [1 .. l -> Cell]
    BY <1>2
  <2> QED
    BY <2>1, IsASeq
<1> HIDE DEF d
<1>5. [local EXCEPT !.data = d] = [data |-> d, attr |-> local.attr]
  <2>1. local = [data |-> local.data, attr |-> local.attr]
    BY <1>1
  <2> QED
    BY <2>1
<1>6. [data |-> d, attr |-> local.attr].data = d /\ [data |-> d, attr |-> local.attr].attr = local.attr
  OBVIOUS
<1> QED
  BY <1>3, <1>4, <1>5, <1>6, Zenon

LEMMA AnyCommand == AnyInv /\ CommandStep => AnyInv'
<1> SUFFICES ASSUME AnyInv, CommandStep PROVE AnyInv'
  OBVIOUS
<1>0. TypeOK /\ Placed
  BY DEF AnyInv
<1>1. ASSUME NEW rq \in Request, NEW ok \in BOOLEAN, Transmit(rq, ok)
      PROVE  /\ sent' \in Nat /\ scratch' \in [1 .. BlkSize -> Cell] /\ toHost' \in Seq(Packet)
             /\ UNCHANGED <<toArc, held, channel, alive, breaks, shown, commands>>
  BY <1>0, <1>1, TransmitLeaves
<1>2. CASE TestSend \/ InfoSend
  <2>1. PICK rq \in {Rq("ignore", AnyName, 0, 0), Rq("info", AnyName, 0, 0)}, ok \in BOOLEAN :
          Transmit(rq, ok)
    BY <1>2 DEF TestSend, InfoSend
  <2>2. rq \in Request
    BY RqType, SomeName DEF Ops
  <2>3. /\ pc \in {"test", "info"} /\ pc' \in {"idle", "infoWait"}
        /\ UNCHANGED <<name, size, pos, attr, local, handle, failed, result>>
    BY <1>2 DEF TestSend, InfoSend, fileVars
  <2>4. TypeOK'
    BY <1>0, <1>1, <2>1, <2>2, <2>3 DEF TypeOK
  <2>5. Placed'
    BY <1>0, <2>3 DEF Placed
  <2> QED
    BY <2>4, <2>5 DEF AnyInv
<1>3. CASE Close
  <2>1. PICK ok \in BOOLEAN : Transmit(Rq("close", AnyName, 0, 0), ok)
    BY <1>3 DEF Close
  <2>2. Rq("close", AnyName, 0, 0) \in Request
    BY RqType, SomeName DEF Ops
  <2>3. /\ pc' = "idle" /\ name' = NoName /\ handle' = FALSE /\ result' \in {"error", "done"}
        /\ UNCHANGED <<size, pos, attr, local, failed>>
    BY <1>3 DEF Close, Return
  <2>4. TypeOK'
    BY <1>0, <1>1, <2>1, <2>2, <2>3 DEF TypeOK
  <2>5. Placed'
    BY <1>0, <2>3 DEF Placed
  <2> QED
    BY <2>4, <2>5 DEF AnyInv
<1>4. CASE OpenSend
  <2>1. PICK ok \in BOOLEAN : Transmit(Rq("init", name, 0, 0), ok)
    BY <1>4 DEF OpenSend
  <2>2. pc = "open" /\ Rq("init", name, 0, 0) \in Request
    BY <1>0, <1>4, RqType DEF Ops, OpenSend, Placed
  <2>3. /\ \/ pc' = "openWait" /\ UNCHANGED <<name, result>>
           \/ pc' = "idle" /\ name' = NoName /\ result' = "error"
        /\ UNCHANGED <<size, pos, attr, local, handle, failed>>
    BY <1>4 DEF OpenSend, Return
  <2>4. TypeOK'
    BY <1>0, <1>1, <2>1, <2>2, <2>3 DEF TypeOK
  <2>5. Placed'
    BY <1>0, <2>2, <2>3 DEF Placed
  <2> QED
    BY <2>4, <2>5 DEF AnyInv
<1>5. CASE BlockSend
  <2>1. PICK ok \in BOOLEAN : Transmit(Rq("read", AnyName, pos, BlockLen), ok)
    BY <1>5 DEF BlockSend
  <2>2. pc = "block" /\ Rq("read", AnyName, pos, BlockLen) \in Request
    <3>1. pc = "block" /\ pos \in Nat /\ pos <= size
      BY <1>0, <1>5 DEF BlockSend, Placed, TypeOK
    <3> QED
      BY <1>0, <3>1, RqType, SomeName, BlockLenType DEF Ops
  <2>3. /\ \/ pc' = "blockWait" /\ failed' = failed
           \/ pc' = "close" /\ failed' = TRUE
        /\ UNCHANGED <<name, size, pos, attr, local, handle, result>>
    BY <1>5 DEF BlockSend, Cleanup
  <2>4. TypeOK'
    BY <1>0, <1>1, <2>1, <2>2, <2>3 DEF TypeOK
  <2>5. Placed'
    BY <1>0, <2>2, <2>3 DEF Placed
  <2> QED
    BY <2>4, <2>5 DEF AnyInv
<1>6. CASE InfoAnswer
  <2>1. /\ pc = "infoWait" /\ pc' = "idle"
        /\ UNCHANGED <<name, size, pos, attr, local, handle, failed, result>>
    BY <1>6 DEF InfoAnswer, fileVars
  <2>2. Placed'
    BY <1>0, <2>1 DEF Placed
  <2>3. CASE Receive /\ shown' = shown \cup {Head(toArc).reply.kind}
    <3>1. /\ Head(toArc) \in Answer /\ toArc' \in Seq(Answer)
          /\ scratch' \in [1 .. BlkSize -> Cell]
          /\ UNCHANGED <<toHost, held, channel, alive, breaks, sent, commands>>
      BY <1>0, <2>3, AnyReceive
    <3>2. shown' \subseteq {"info", "init", "block"}
      BY <1>0, <2>3, <3>1 DEF TypeOK, Answer, Response
    <3> QED
      BY <1>0, <2>1, <2>2, <3>1, <3>2 DEF TypeOK, AnyInv
  <2>4. CASE RxTimeout
    BY <1>0, <2>1, <2>2, <2>4 DEF RxTimeout, TypeOK, AnyInv, serverVars
  <2> QED
    BY <1>6, <2>3, <2>4 DEF InfoAnswer
<1>7. CASE OpenAnswer
  <2>1. /\ pc = "openWait" /\ Receive /\ shown' = shown
        /\ Head(toArc) \in Answer /\ toArc' \in Seq(Answer)
        /\ scratch' \in [1 .. BlkSize -> Cell]
        /\ UNCHANGED <<toHost, held, channel, alive, breaks, sent, commands>>
    BY <1>0, <1>7, AnyReceive DEF OpenAnswer
  <2> DEFINE r == Head(toArc).reply
  <2>2. PICK o \in Opened(r) :
          \/ /\ ~o.ok /\ Return("refused")
             /\ UNCHANGED <<size, pos, attr, local, handle, failed>>
          \/ /\ o.ok /\ size' = o.size /\ attr' = o.attr /\ pos' = 0
             /\ \/ /\ local' = [data |-> <<>>, attr |-> NewAttr]
                   /\ handle' = TRUE /\ pc' = "block" /\ UNCHANGED failed
                \/ Cleanup /\ UNCHANGED <<local, handle>>
             /\ UNCHANGED <<name, result>>
    BY <1>7 DEF OpenAnswer
  <2>3. o.size \in Nat /\ o.attr \in Attr
    <3>1. /\ r.kind \in {"info", "init", "block"} /\ r.size \in Nat /\ r.attr \in Attr
      BY <2>1 DEF Answer, Response
    <3>2. DataAttr \in Attr
      BY DEF DataAttr, Attr
    <3> HIDE DEF r
    <3>3. CASE r.kind = "init"
      <4>1. o = [ok |-> r.ok, size |-> r.size, attr |-> r.attr]
        BY <3>3 DEF Opened
      <4> QED
        BY <3>1, <4>1
    <3>4. CASE r.kind = "info"
      <4>1. o = [ok |-> FALSE, size |-> 0, attr |-> DataAttr]
        BY <3>4 DEF Opened
      <4> QED
        BY <3>2, <4>1
    <3>5. CASE r.kind = "block"
      <4>1. o \in [ok : BOOLEAN, size : Lengths, attr : {DataAttr}]
        BY <3>5 DEF Opened
      <4>2. Lengths \subseteq Nat
        BY DEF Lengths
      <4> QED
        BY <3>2, <4>1, <4>2
    <3> QED
      BY <3>1, <3>3, <3>4, <3>5
  <2> HIDE DEF r
  <2>4. CASE ~o.ok
    <3>1. /\ pc' = "idle" /\ name' = NoName /\ result' = "refused"
          /\ UNCHANGED <<size, pos, attr, local, handle, failed>>
      BY <2>2, <2>4 DEF Return
    <3> QED
      BY <1>0, <2>1, <3>1 DEF AnyInv, TypeOK, Placed
  <2>5. CASE o.ok
    <3>1. /\ size' = o.size /\ attr' = o.attr /\ pos' = 0 /\ UNCHANGED <<name, result>>
          /\ \/ /\ local' = [data |-> <<>>, attr |-> NewAttr]
                /\ handle' = TRUE /\ pc' = "block" /\ failed' = failed
             \/ pc' = "close" /\ failed' = TRUE /\ UNCHANGED <<local, handle>>
      BY <2>2, <2>5 DEF Cleanup
    <3>2. local'.data \in Seq(Cell) /\ local'.attr \in Attr \cup {NewAttr}
          /\ local' = [data |-> local'.data, attr |-> local'.attr]
      <4>1. <<>> \in Seq(Cell)
        BY EmptySeq
      <4>2. CASE local' = [data |-> <<>>, attr |-> NewAttr]
        <5>1. local'.data = <<>> /\ local'.attr = NewAttr
          BY <4>2
        <5> QED
          BY <4>1, <4>2, <5>1
      <4>3. CASE local' = local
        BY <1>0, <4>3 DEF TypeOK, Placed
      <4> QED
        BY <3>1, <4>2, <4>3
    <3>3. TypeOK'
      BY <1>0, <2>1, <2>3, <3>1, <3>2 DEF TypeOK
    <3>4. Placed'
      BY <1>0, <2>1, <2>3, <3>1, <3>2 DEF Placed
    <3> QED
      BY <3>3, <3>4 DEF AnyInv
  <2> QED
    BY <2>4, <2>5
<1>8. CASE BlockAnswer
  <2>1. /\ pc = "blockWait" /\ Receive /\ shown' = shown
        /\ Head(toArc) \in Answer /\ toArc' \in Seq(Answer)
        /\ scratch' \in [1 .. BlkSize -> Cell]
        /\ UNCHANGED <<toHost, held, channel, alive, breaks, sent, commands>>
        /\ UNCHANGED <<name, size, attr, handle, result>>
    BY <1>0, <1>8, AnyReceive DEF BlockAnswer
  <2>2. BlockLen \in 0 .. BlkSize /\ pos \in Nat /\ pos <= size /\ size \in Nat
        /\ \A n \in 0 .. BlockLen : n \in 0 .. BlkSize
    <3>1. pos \in Nat /\ pos <= size /\ size \in Nat
      BY <1>0, <2>1 DEF Placed, TypeOK
    <3>2. BlockLen \in 0 .. BlkSize /\ BlockLen \in Nat
      BY <1>0, <3>1, BlockLenType
    <3> QED
      BY <3>1, <3>2
  <2>3. PICK n \in 0 .. BlkSize :
          /\ local' = Written(n)
          /\ \/ /\ pos' = pos + BlkSize /\ failed' = failed
                /\ pc' = IF NextBlock THEN "block" ELSE "attr"
             \/ pos' = pos /\ failed' = TRUE /\ pc' = "close"
    <3>1. CASE /\ local' = Written(BlockLen) /\ pos' = pos + BlkSize
               /\ pc' = (IF NextBlock THEN "block" ELSE "attr") /\ UNCHANGED failed
      BY <2>2, <3>1
    <3>2. CASE (\E n \in 0 .. BlockLen : local' = Written(n)) /\ Cleanup /\ UNCHANGED pos
      BY <2>2, <3>2 DEF Cleanup
    <3> QED
      BY <1>8, <3>1, <3>2 DEF BlockAnswer
  <2>4. /\ local' = [data |-> local'.data, attr |-> local'.attr]
        /\ local'.data \in Seq(Cell) /\ local'.attr = local.attr
    BY <2>1, <2>3, AnyWritten
  <2>5. /\ pos' \in Nat /\ failed' \in BOOLEAN /\ pc' \in {"block", "attr", "close"}
        /\ pc' = "block" => pos' <= size
    <3>1. CASE /\ pos' = pos + BlkSize /\ failed' = failed
               /\ pc' = IF NextBlock THEN "block" ELSE "attr"
      <4>1. pos + BlkSize \in Nat /\ (NextBlock => pos + BlkSize <= size)
        BY <2>2 DEF NextBlock
      <4>2. failed \in BOOLEAN
        BY <1>0 DEF TypeOK
      <4> QED
        BY <3>1, <4>1, <4>2
    <3>2. CASE pos' = pos /\ failed' = TRUE /\ pc' = "close"
      BY <2>2, <3>2
    <3> QED
      BY <2>3, <3>1, <3>2
  <2>6. TypeOK'
    BY <1>0, <2>1, <2>2, <2>4, <2>5 DEF TypeOK
  <2>7. Placed'
    BY <1>0, <2>1, <2>2, <2>4, <2>5 DEF Placed
  <2> QED
    BY <2>6, <2>7 DEF AnyInv
<1>9. CASE OpenTimeout \/ BlockTimeout
  <2>1. /\ \/ pc = "openWait" /\ pc' = "idle" /\ name' = NoName /\ result' = "error"
              /\ failed' = failed
           \/ pc = "blockWait" /\ pc' = "close" /\ failed' = TRUE /\ UNCHANGED <<name, result>>
        /\ UNCHANGED <<size, pos, attr, local, handle, scratch, toHost, toArc, held, channel,
                       alive, breaks, sent, shown, commands>>
    BY <1>9 DEF OpenTimeout, BlockTimeout, RxTimeout, Return, Cleanup, serverVars
  <2> QED
    BY <1>0, <2>1 DEF AnyInv, TypeOK, Placed
<1>10. CASE SetAttr
  <2>1. /\ pc = "attr" /\ pc' = "close"
        /\ \/ local' = [local EXCEPT !.attr = attr] /\ failed' = failed
           \/ failed' = TRUE /\ local' = local
        /\ UNCHANGED <<name, size, pos, attr, handle, result, scratch, shown, toHost, toArc,
                       held, channel, alive, breaks, sent, commands>>
    BY <1>10 DEF SetAttr, Cleanup, serverVars
  <2>2. /\ local' = [data |-> local.data, attr |-> local'.attr]
        /\ local'.attr \in {attr, local.attr} /\ local'.data = local.data
    BY <1>0, <2>1 DEF Placed
  <2>3. TypeOK'
    BY <1>0, <2>1, <2>2 DEF TypeOK
  <2> QED
    BY <1>0, <2>1, <2>2, <2>3 DEF AnyInv, Placed
<1> QED
  BY <1>2, <1>3, <1>4, <1>5, <1>6, <1>7, <1>8, <1>9, <1>10 DEF CommandStep

LEMMA AnyServer == AnyInv /\ (ServerTurn \/ Reopen \/ Restart) => AnyInv'
<1> SUFFICES ASSUME AnyInv, ServerTurn \/ Reopen \/ Restart PROVE AnyInv'
  OBVIOUS
<1>0. /\ TypeOK /\ Placed /\ Client
      /\ toHost \in Seq(Packet) /\ toArc \in Seq(Answer) /\ held \in Seq(Answer)
      /\ Len(held) <= 1 /\ channel \in Channel /\ alive \in BOOLEAN
  BY DEF AnyInv, TypeOK, Client, ServerTurn, Serve, ReadTogether, Output, Reopen, Restart,
     clientVars, fileVars
<1>1. RawfileInit \in Channel /\ RawfileReopen(channel) \in Channel
  BY <1>0 DEF RawfileInit, RawfileReopen, Channel, BlankCell, Cell
<1>2. Len(<<>>) <= 1 /\ \A S : <<>> \in Seq(S)
  BY EmptySeq
<1>3. /\ toHost' \in Seq(Packet) /\ toArc' \in Seq(Answer) /\ held' \in Seq(Answer)
      /\ Len(held') <= 1 /\ channel' \in Channel /\ alive' \in BOOLEAN
  <2>1. CASE Serve
    <3> DEFINE rq  == Head(toHost).rq
               rps == Replies(channel', rq)
    <3>1. Head(toHost) \in Packet /\ Tail(toHost) \in Seq(Packet)
      BY <1>0, <2>1, HeadTailProperties DEF Serve
    <3>2. rq \in Request /\ Head(toHost).req \in Nat
      BY <3>1 DEF Packet
    <3>3. channel' = AfterRequest(channel, rq)
      BY <2>1 DEF Serve
    <3>4. channel' \in Channel /\ rps \in Seq(Response)
      BY <1>0, <3>2, <3>3, ServerTypes
    <3>5. held' = IF rps = <<>> THEN held ELSE <<[req |-> Head(toHost).req, reply |-> rps[1]]>>
      BY <2>1 DEF Serve, SendPacket
    <3> HIDE DEF rq, rps
    <3>6. held' \in Seq(Answer) /\ Len(held') <= 1
      <4>1. CASE rps = <<>>
        BY <1>0, <3>5, <4>1
      <4>2. CASE rps # <<>>
        <5> DEFINE a == [req |-> Head(toHost).req, reply |-> rps[1]]
        <5>1. Len(rps) \in Nat \ {0}
          BY <3>4, <4>2, EmptySeq
        <5>2. rps[1] \in Response
          BY <3>4, <5>1, ElementOfSeq
        <5>3. a \in Answer
          BY <3>2, <5>2 DEF Answer
        <5>4. held' = <<a>>
          BY <3>5, <4>2
        <5> HIDE DEF a
        <5> QED
          BY <5>3, <5>4
      <4> QED
        BY <4>1, <4>2
    <3> QED
      BY <1>0, <2>1, <3>1, <3>4, <3>6 DEF Serve
  <2>2. CASE Output
    <3>1. Len(held) \in Nat \ {0}
      BY <1>0, <2>2, EmptySeq DEF Output
    <3>2. held[1] \in Answer
      BY <1>0, <3>1, ElementOfSeq
    <3>3. toArc' \in Seq(Answer)
      BY <1>0, <2>2, <3>2, AppendProperties DEF Output
    <3> QED
      BY <1>0, <1>2, <2>2, <3>3 DEF Output
  <2>3. CASE ReadTogether
    BY <1>0, <1>1, <1>2, <2>3 DEF ReadTogether
  <2>4. CASE Reopen
    BY <1>0, <1>1, <1>2, <2>4 DEF Reopen
  <2>5. CASE Restart
    BY <1>0, <1>1, <1>2, <2>5 DEF Restart
  <2> QED
    BY <2>1, <2>2, <2>3, <2>4, <2>5 DEF ServerTurn
<1>4. TypeOK'
  BY <1>0, <1>3 DEF TypeOK, Client
<1>5. Placed'
  BY <1>0 DEF Placed, Client
<1> QED
  BY <1>4, <1>5 DEF AnyInv

LEMMA AnyInvariant == AnySpec => []AnyInv
<1>1. Init => AnyInv
  BY CopyInit DEF CopyInv, AnyInv, Placed, Copying, Init
<1>2. AnyInv /\ [AnyNext]_vars => AnyInv'
  <2> SUFFICES ASSUME AnyInv, [AnyNext]_vars PROVE AnyInv'
    OBVIOUS
  <2>1. CASE TypeAny
    <3>1. PICK at \in {"test", "info", "open"}, file \in Names \cup {NoName} :
            Type(at, file) /\ (at = "open" => file \in Names)
      BY <2>1 DEF TypeAny
    <3>2. /\ pc = "idle" /\ pc' = at /\ name' = file /\ failed' = FALSE
          /\ result' = (IF at = "open" THEN "none" ELSE result)
          /\ UNCHANGED <<size, pos, attr, scratch, local, handle, shown, toHost, toArc, held,
                         channel, alive, breaks, sent>>
      BY <3>1 DEF Type, serverVars
    <3>3. TypeOK'
      BY <3>1, <3>2 DEF AnyInv, TypeOK
    <3>4. Placed'
      BY <3>1, <3>2 DEF AnyInv, Placed
    <3> QED
      BY <3>3, <3>4 DEF AnyInv
  <2>2. CASE UNCHANGED vars
    BY <2>2 DEF vars, fileVars, serverVars, AnyInv, TypeOK, Placed
  <2> QED
    BY <2>1, <2>2, AnyCommand, AnyServer DEF AnyNext, Wire
<1> QED
  BY <1>1, <1>2, PTL DEF AnySpec

\* Types, for users who type commands at any time: in particular a block asked
\* for always fits WS_SCRATCH, though a late answer was taken for another.
THEOREM TypeCorrectForAny == AnySpec => []TypeOK
<1>1. AnyInv => TypeOK
  BY DEF AnyInv
<1> QED
  BY <1>1, AnyInvariant, PTL

\* Nor does a command, whatever it takes for its answer, return with the local
\* file open.
THEOREM NothingIsEverLeftOpen == AnySpec => []NothingLeftOpen
<1>1. AnyInv => NothingLeftOpen
  BY DEF AnyInv, Placed, NothingLeftOpen
<1> QED
  BY <1>1, AnyInvariant, PTL
=============================================================================
