---------------------------- MODULE ServerProofs ----------------------------
(***************************************************************************)
(* Proofs about Server for every set of files, requests, lengths of a      *)
(* header, of the buffer and of a block, and every size of the serial      *)
(* port's queue: for clients that send as the commands do (CommandSpec),   *)
(* and so for those that leave the link alone until it is quiet (Spec).    *)
(* What the server does with bytes is shown to be PacketService.  Of       *)
(* clients that send at any time and a port that hangs up at any time      *)
(* (AnySpec) it is shown what still holds and what cannot.                 *)
(***************************************************************************)
EXTENDS Server, SequenceTheorems, TLAPS

USE FileAssumption, ServerAssumption

-----------------------------------------------------------------------------
(* Stretches of a framed message *)

\* The bytes s are those of the message, from an offset on.
Stretch(s, msg, len, from) ==
  \A k \in 1 .. Len(s) : s[k] = [msg |-> msg, len |-> len, off |-> from + k - 1]

LEMMA FrameType ==
  ASSUME NEW M, NEW msg \in M, NEW len \in Nat
  PROVE  /\ Frame(msg, len) \in Seq(ByteOf(M))
         /\ Len(Frame(msg, len)) = HdrSize + len
         /\ \A k \in 1 .. HdrSize + len :
              Frame(msg, len)[k] = [msg |-> msg, len |-> len, off |-> k - 1]
         /\ Stretch(Frame(msg, len), msg, len, 0)
<1>1. HdrSize + len \in Nat
  OBVIOUS
<1>2. \A k \in 1 .. HdrSize + len : [msg |-> msg, len |-> len, off |-> k - 1] \in ByteOf(M)
  BY DEF ByteOf
<1>3. /\ Frame(msg, len) \in Seq(ByteOf(M))
      /\ Len(Frame(msg, len)) = HdrSize + len
      /\ \A k \in 1 .. HdrSize + len :
           Frame(msg, len)[k] = [msg |-> msg, len |-> len, off |-> k - 1]
  BY <1>1, <1>2 DEF Frame
<1>4. \A k \in 1 .. HdrSize + len : 0 + k - 1 = k - 1
  OBVIOUS
<1> QED
  BY <1>3, <1>4 DEF Stretch

\* All of a message is its frame.
LEMMA StretchWhole ==
  ASSUME NEW M, NEW msg \in M, NEW len \in Nat, NEW s \in Seq(ByteOf(M)),
         Len(s) = HdrSize + len, Stretch(s, msg, len, 0)
  PROVE  s = Frame(msg, len)
<1>1. /\ Frame(msg, len) \in Seq(ByteOf(M)) /\ Len(Frame(msg, len)) = Len(s)
      /\ Stretch(Frame(msg, len), msg, len, 0)
  BY FrameType
<1>2. \A k \in 1 .. Len(s) : s[k] = Frame(msg, len)[k]
  BY <1>1 DEF Stretch
<1> QED
  BY <1>1, <1>2, SeqEqual

\* A stretch and the one behind it.
LEMMA StretchJoin ==
  ASSUME NEW S, NEW s \in Seq(S), NEW t \in Seq(S), NEW msg, NEW len, NEW from \in Nat,
         Stretch(s, msg, len, from), Stretch(t, msg, len, from + Len(s))
  PROVE  /\ s \o t \in Seq(S) /\ Len(s \o t) = Len(s) + Len(t)
         /\ Stretch(s \o t, msg, len, from)
<1>1. /\ s \o t \in Seq(S) /\ Len(s \o t) = Len(s) + Len(t)
      /\ Len(s) \in Nat /\ Len(t) \in Nat
      /\ \A k \in 1 .. Len(s) : (s \o t)[k] = s[k]
      /\ \A k \in 1 .. Len(t) : (s \o t)[Len(s) + k] = t[k]
  OBVIOUS
<1>2. ASSUME NEW k \in 1 .. Len(s) + Len(t)
      PROVE  (s \o t)[k] = [msg |-> msg, len |-> len, off |-> from + k - 1]
  <2>1. CASE k <= Len(s)
    <3>1. k \in 1 .. Len(s)
      BY <1>1, <2>1
    <3> QED
      BY <1>1, <3>1 DEF Stretch
  <2>2. CASE k > Len(s)
    <3> DEFINE j == k - Len(s)
    <3>1. j \in 1 .. Len(t) /\ Len(s) + j = k
      BY <1>1, <2>2
    <3>2. from + Len(s) + j - 1 = from + k - 1
      BY <1>1, <3>1
    <3> HIDE DEF j
    <3> QED
      BY <1>1, <3>1, <3>2 DEF Stretch
  <2> QED
    BY <1>1, <2>1, <2>2
<1> QED
  BY <1>1, <1>2 DEF Stretch

\* The first n bytes of a stretch, and the rest of it.
LEMMA StretchSplit ==
  ASSUME NEW S, NEW s \in Seq(S), NEW n \in 0 .. Len(s), NEW msg, NEW len,
         NEW from \in Nat, Stretch(s, msg, len, from)
  PROVE  /\ SubSeq(s, 1, n) \in Seq(S) /\ Len(SubSeq(s, 1, n)) = n
         /\ Stretch(SubSeq(s, 1, n), msg, len, from)
         /\ SubSeq(s, n + 1, Len(s)) \in Seq(S) /\ Len(SubSeq(s, n + 1, Len(s))) = Len(s) - n
         /\ Stretch(SubSeq(s, n + 1, Len(s)), msg, len, from + n)
<1>1. /\ SubSeq(s, 1, n) \in Seq(S) /\ Len(SubSeq(s, 1, n)) = n
      /\ \A k \in 1 .. n : SubSeq(s, 1, n)[k] = s[k] /\ k \in 1 .. Len(s)
  OBVIOUS
<1>2. /\ SubSeq(s, n + 1, Len(s)) \in Seq(S) /\ Len(SubSeq(s, n + 1, Len(s))) = Len(s) - n
      /\ \A k \in 1 .. Len(s) - n : /\ SubSeq(s, n + 1, Len(s))[k] = s[n + k]
                                    /\ n + k \in 1 .. Len(s)
                                    /\ from + n + k - 1 = from + (n + k) - 1
  OBVIOUS
<1> QED
  BY <1>1, <1>2 DEF Stretch

\* The first byte of a stretch, and the rest; a byte more.
LEMMA StretchTail ==
  ASSUME NEW S, NEW s \in Seq(S), s # <<>>, NEW msg, NEW len, NEW from \in Nat,
         Stretch(s, msg, len, from)
  PROVE  /\ Len(s) >= 1
         /\ Head(s) \in S /\ Head(s) = [msg |-> msg, len |-> len, off |-> from]
         /\ Tail(s) \in Seq(S) /\ Len(Tail(s)) = Len(s) - 1
         /\ Stretch(Tail(s), msg, len, from + 1)
<1>1. /\ Len(s) \in Nat /\ Len(s) >= 1 /\ Head(s) = s[1] /\ Head(s) \in S
      /\ Tail(s) \in Seq(S) /\ Len(Tail(s)) = Len(s) - 1
      /\ \A k \in 1 .. Len(s) - 1 : Tail(s)[k] = s[k + 1]
  OBVIOUS
<1>2. 1 \in 1 .. Len(s) /\ from + 1 - 1 = from
  BY <1>1
<1>3. \A k \in 1 .. Len(s) - 1 : /\ k + 1 \in 1 .. Len(s)
                                /\ from + (k + 1) - 1 = (from + 1) + k - 1
  BY <1>1
<1> QED
  BY <1>1, <1>2, <1>3 DEF Stretch

LEMMA StretchAppend ==
  ASSUME NEW S, NEW s \in Seq(S), NEW b \in S, NEW msg, NEW len, NEW from \in Nat,
         Stretch(s, msg, len, from),
         b = [msg |-> msg, len |-> len, off |-> from + Len(s)]
  PROVE  /\ Append(s, b) \in Seq(S) /\ Len(Append(s, b)) = Len(s) + 1
         /\ Stretch(Append(s, b), msg, len, from)
<1>1. /\ Append(s, b) \in Seq(S) /\ Len(Append(s, b)) = Len(s) + 1 /\ Len(s) \in Nat
      /\ \A k \in 1 .. Len(s) : Append(s, b)[k] = s[k]
      /\ Append(s, b)[Len(s) + 1] = b
  BY AppendProperties
<1>2. \A k \in 1 .. Len(s) + 1 : k \in 1 .. Len(s) \/ k = Len(s) + 1
  BY <1>1
<1>3. from + (Len(s) + 1) - 1 = from + Len(s)
  BY <1>1
<1> QED
  BY <1>1, <1>2, <1>3 DEF Stretch

\* No bytes are a stretch of anything.
LEMMA StretchNone == ASSUME NEW msg, NEW len, NEW from PROVE Stretch(<<>>, msg, len, from)
  BY DEF Stretch

-----------------------------------------------------------------------------
(* The file and its blocks *)

LEMMA RequestType ==
  ASSUME NEW rq \in Request
  PROVE  /\ rq.op \in Ops /\ rq.name \in Names
         /\ rq.off \in Nat /\ rq.size \in 0 .. BlkSize /\ rq.size \in Nat
         /\ RequestLen(rq) \in {1, 2}
<1>1. rq.op \in Ops /\ rq.name \in Names /\ rq.off \in Nat /\ rq.size \in 0 .. BlkSize
  BY DEF Request
<1>2. rq.size \in Nat
  BY <1>1
<1> QED
  BY <1>1, <1>2 DEF RequestLen

LEMMA SearchType == \A name \in Names : Search(name) \in Files \cup {NoFile}
<1> SUFFICES ASSUME NEW name \in Names PROVE Search(name) \in Files \cup {NoFile}
  OBVIOUS
<1>1. \A S : S \subseteq Files => FirstOf(S) \in Files \cup {NoFile}
  <2> SUFFICES ASSUME NEW S, S \subseteq Files PROVE FirstOf(S) \in Files \cup {NoFile}
    OBVIOUS
  <2>1. CASE S = {}
    BY <2>1 DEF FirstOf
  <2>2. CASE S # {}
    BY <2>2 DEF FirstOf
  <2> QED
    BY <2>1, <2>2
<1>2. \A tag : Glob(name, tag) \subseteq Files
  BY DEF Glob
<1> DEFINE typed == Glob(name, "type")
           addr  == Glob(name, "addr")
<1>3. /\ FirstOf(typed) \in Files \cup {NoFile}
      /\ FirstOf(addr) \in Files \cup {NoFile}
      /\ FirstOf(Glob(name, "none")) \in Files \cup {NoFile}
  BY <1>1, <1>2
<1>4. Search(name) = CASE typed # {} -> FirstOf(typed)
                       [] typed = {} /\ addr # {} -> FirstOf(addr)
                       [] OTHER -> FirstOf(Glob(name, "none"))
  BY DEF Search
<1> HIDE DEF typed, addr
<1> QED
  BY <1>3, <1>4

LEMMA ChannelType ==
  /\ RawfileInit \in Channel
  /\ \A ch \in Channel : RawfileReopen(ch) \in Channel /\ RawfileReopen(ch).file = NoFile
<1>1. BlankCell \in Cell
  BY DEF BlankCell, Cell
<1>2. RawfileInit \in Channel
  BY <1>1 DEF RawfileInit, Channel
<1> QED
  BY <1>2 DEF RawfileReopen, Channel

\* read_buff is a sequence of bytes.
LEMMA BuffType ==
  \A S : \A buff \in [1 .. BlkSize -> S] : buff \in Seq(S) /\ Len(buff) = BlkSize
<1> SUFFICES ASSUME NEW S, NEW buff \in [1 .. BlkSize -> S]
             PROVE  buff \in Seq(S) /\ Len(buff) = BlkSize
  OBVIOUS
<1>1. BlkSize \in Nat
  OBVIOUS
<1> QED
  BY <1>1

\* A block read into read_buff.
LEMMA PreadType ==
  ASSUME NEW ch \in Channel, ch.file # NoFile, NEW off \in Nat, NEW size \in 0 .. BlkSize
  PROVE  /\ Pread(ch, off, size) \in Channel
         /\ Pread(ch, off, size).file = ch.file
         /\ \A k \in 1 .. size :
              off + k <= FileLen[ch.file] =>
                Pread(ch, off, size).buff[k] = [file |-> ch.file, pos |-> off + k]
<1> DEFINE at(k) == IF k <= size /\ off + k <= FileLen[ch.file]
                      THEN [file |-> ch.file, pos |-> off + k]
                      ELSE ch.buff[k]
           b == [k \in 1 .. BlkSize |-> at(k)]
<1>1. ch.file \in Files \cup {NoFile} /\ ch.buff \in [1 .. BlkSize -> Cell]
  BY DEF Channel
<1>2. \A k \in 1 .. BlkSize : at(k) \in Cell
  BY <1>1 DEF Cell
<1>3. b \in [1 .. BlkSize -> Cell] /\ \A k \in 1 .. BlkSize : b[k] = at(k)
  BY <1>2
<1>4. Pread(ch, off, size) = [ch EXCEPT !.buff = b]
  BY DEF Pread
<1> HIDE DEF b
<1>5. /\ Pread(ch, off, size) \in Channel
      /\ Pread(ch, off, size).file = ch.file /\ Pread(ch, off, size).buff = b
  BY <1>3, <1>4 DEF Channel
<1>6. \A k \in 1 .. size : k \in 1 .. BlkSize /\ k <= size
  OBVIOUS
<1> QED
  BY <1>3, <1>5, <1>6

\* Which file is open after a request.
LEMMA AfterRequestFile ==
  ASSUME NEW ch \in Channel, NEW rq \in Request
  PROVE  /\ AfterRequest(ch, rq) \in Channel
         /\ AfterRequest(ch, rq).file =
              IF rq.op = "init" THEN Search(rq.name)
                                ELSE IF rq.op = "close" THEN NoFile ELSE ch.file
         /\ rq.op = "read" /\ ch.file # NoFile =>
              AfterRequest(ch, rq) = Pread(ch, rq.off, rq.size)
<1>0. rq.op \in Ops /\ rq.name \in Names /\ rq.off \in Nat /\ rq.size \in 0 .. BlkSize
  BY RequestType
<1>1. CASE rq.op = "init"
  <2>1. AfterRequest(ch, rq) = [ch EXCEPT !.file = Search(rq.name)]
    BY <1>1 DEF AfterRequest, CrfOpenRead
  <2>2. Search(rq.name) \in Files \cup {NoFile}
    BY <1>0, SearchType
  <2> QED
    BY <1>1, <2>1, <2>2 DEF Channel
<1>2. CASE rq.op = "close"
  <2>1. AfterRequest(ch, rq) = [ch EXCEPT !.file = NoFile]
    BY <1>2 DEF AfterRequest, CrfClose
  <2> QED
    BY <1>2, <2>1 DEF Channel
<1>3. CASE rq.op = "read" /\ ch.file # NoFile
  <2>1. AfterRequest(ch, rq) = Pread(ch, rq.off, rq.size)
    BY <1>3 DEF AfterRequest
  <2> QED
    BY <1>0, <1>3, <2>1, PreadType
<1>4. CASE rq.op \notin {"init", "close"} /\ ~(rq.op = "read" /\ ch.file # NoFile)
  <2>1. AfterRequest(ch, rq) = ch
    BY <1>4 DEF AfterRequest
  <2> QED
    BY <1>4, <2>1
<1> QED
  BY <1>1, <1>2, <1>3, <1>4

\* What a request is answered with, if it is.
LEMMA RepliesType ==
  ASSUME NEW c0 \in Channel, NEW rq \in Request, NEW ch, ch = AfterRequest(c0, rq),
         Replies(ch, rq) # << >>
  PROVE  LET rp == Replies(ch, rq)[1]
         IN  /\ rp \in Response
             /\ \/ rq.op = "info" /\ rp.kind = "info"
                \/ /\ rq.op = "init" /\ rp.kind = "init"
                   /\ rp.ok <=> Search(rq.name) # NoFile
                   /\ rp.ok => RightFile(Search(rq.name), rp)
                \/ /\ rq.op = "read" /\ rp.kind = "block"
                   /\ Len(rp.data) = rq.size
                   /\ ch.file \in Files
                   /\ \A k \in 1 .. Len(rp.data) :
                        rq.off + k <= FileLen[ch.file] =>
                          rp.data[k] = [file |-> ch.file, pos |-> rq.off + k]
<1> DEFINE rp == Replies(ch, rq)[1]
<1>0. rq.op \in Ops /\ rq.off \in Nat /\ rq.size \in 0 .. BlkSize /\ rq.size \in Nat
  BY RequestType
<1>1. /\ ch \in Channel /\ ch.file \in Files \cup {NoFile}
      /\ ch.buff \in [1 .. BlkSize -> Cell]
      /\ rq.op = "init" => ch.file = Search(rq.name)
  BY AfterRequestFile DEF Channel
<1>2. DataAttr \in Attr /\ AttrOf(ch.file) \in Attr
  <2>1. DataAttr \in Attr
    BY DEF DataAttr, Attr
  <2>2. CASE ch.file = NoFile \/ TagOf[ch.file] = "none"
    BY <2>1, <2>2 DEF AttrOf
  <2>3. CASE ~(ch.file = NoFile \/ TagOf[ch.file] = "none")
    <3>1. ch.file \in Files /\ TagOf[ch.file] \in {"type", "addr"}
      BY <1>1, <2>3
    <3>2. AttrOf(ch.file) = [kind |-> TagOf[ch.file], of |-> ch.file]
      BY <2>3 DEF AttrOf
    <3> QED
      BY <2>1, <3>1, <3>2 DEF Attr
  <2> QED
    BY <2>1, <2>2, <2>3
<1>3. <<>> \in Seq(Cell)
  BY EmptySeq
<1>4. CASE rq.op = "info"
  <2>1. rp = [kind |-> "info", ok |-> TRUE, size |-> 0, attr |-> DataAttr, data |-> <<>>]
    BY <1>4 DEF Replies, Reply
  <2> HIDE DEF rp
  <2>2. rp \in Response /\ rp.kind = "info"
    BY <1>2, <1>3, <2>1 DEF Response
  <2> QED
    BY <1>4, <2>2 DEF rp
<1>5. CASE rq.op = "init"
  <2> DEFINE size == IF ch.file # NoFile THEN FileLen[ch.file] ELSE 0
  <2>1. rp = [kind |-> "init", ok |-> ch.file # NoFile, size |-> size,
              attr |-> AttrOf(ch.file), data |-> <<>>]
    BY <1>5 DEF Replies, Reply
  <2>2. size \in Nat /\ (ch.file # NoFile) \in BOOLEAN
    BY <1>1
  <2>3. ch.file # NoFile => size = FileLen[ch.file]
    OBVIOUS
  <2> HIDE DEF rp, size
  <2>4. /\ rp.kind = "init" /\ rp.ok = (ch.file # NoFile) /\ rp.size = size
        /\ rp.attr = AttrOf(ch.file)
    BY <2>1
  <2>5. rp \in Response
    BY <1>2, <1>3, <2>1, <2>2 DEF Response
  <2>6. /\ rp.ok <=> Search(rq.name) # NoFile
        /\ rp.ok => RightFile(Search(rq.name), rp)
    <3>1. ASSUME rp.ok PROVE RightFile(ch.file, rp)
      <4>1. /\ ch.file \in Files /\ ch.file # NoFile /\ TagOf[ch.file] \in {"none", "type", "addr"}
            /\ rp.size = FileLen[ch.file]
        BY <1>1, <2>3, <2>4, <3>1
      <4>2. /\ rp.attr.kind = IF TagOf[ch.file] = "addr" THEN "addr" ELSE "type"
            /\ rp.attr.of = IF TagOf[ch.file] = "none" THEN NoFile ELSE ch.file
        BY <2>4, <4>1 DEF AttrOf, DataAttr
      <4> QED
        BY <4>1, <4>2 DEF RightFile
    <3> QED
      BY <1>1, <1>5, <2>4, <3>1
  <2> QED
    BY <1>5, <2>4, <2>5, <2>6 DEF rp
<1>6. CASE rq.op = "read" /\ ch.file # NoFile
  <2> DEFINE data == SubSeq(ch.buff, 1, rq.size)
  <2>1. rp = [kind |-> "block", ok |-> TRUE, size |-> rq.size, attr |-> DataAttr,
              data |-> data]
    BY <1>6 DEF Replies, Reply
  <2>2. /\ data \in Seq(Cell) /\ Len(data) = rq.size
        /\ \A k \in 1 .. rq.size : data[k] = ch.buff[k]
    <3>1. ch.buff \in Seq(Cell) /\ Len(ch.buff) = BlkSize
      BY <1>1, BuffType
    <3> QED
      BY <1>0, <3>1
  <2> HIDE DEF rp, data
  <2>3. rp.kind = "block" /\ rp.data = data /\ rp \in Response
    BY <1>0, <1>2, <2>1, <2>2 DEF Response
  <2>4. c0.file = ch.file /\ ch = Pread(c0, rq.off, rq.size)
    BY <1>6, AfterRequestFile
  <2>5. \A k \in 1 .. rq.size :
          rq.off + k <= FileLen[ch.file] => ch.buff[k] = [file |-> ch.file, pos |-> rq.off + k]
    BY <1>0, <1>6, <2>4, PreadType
  <2>6. ch.file \in Files
    BY <1>1, <1>6
  <2> QED
    BY <1>6, <2>2, <2>3, <2>5, <2>6 DEF rp
<1>7. CASE rq.op \notin {"info", "init"} /\ ~(rq.op = "read" /\ ch.file # NoFile)
  BY <1>7 DEF Replies
<1> QED
  BY <1>4, <1>5, <1>6, <1>7


-----------------------------------------------------------------------------
(* Framed requests in a row *)

Size(rqs, n)    == HdrSize + RequestLen(rqs[n])
RqByte(rqs, n, o) == [msg |-> n, len |-> RequestLen(rqs[n]), off |-> o - 1]

\* s is the requests from the first on, whole: at[n] bytes of it come before the
\* n-th.
Laid(rqs, s, first, at) ==
  /\ first \in 1 .. Len(rqs) + 1
  /\ at \in [first .. Len(rqs) + 1 -> Nat]
  /\ at[first] = 0 /\ at[Len(rqs) + 1] = Len(s)
  /\ \A n \in first .. Len(rqs) :
       /\ at[n + 1] = at[n] + Size(rqs, n)
       /\ \A o \in 1 .. Size(rqs, n) : s[at[n] + o] = RqByte(rqs, n, o)
  /\ \A n \in first .. Len(rqs) : \A m \in n + 1 .. Len(rqs) + 1 : at[n + 1] <= at[m]
  /\ \A k \in 1 .. Len(s) :
       \E n \in first .. Len(rqs) : \E o \in 1 .. Size(rqs, n) : k = at[n] + o

InRow(rqs, s, first) == \E at : Laid(rqs, s, first, at)

LEMMA Shifted ==
  \A size, k, a, b, o \in Int : b = a - size => (size + k = a + o <=> k = b + o)
  OBVIOUS

LEMMA SizeType ==
  ASSUME NEW rqs \in Seq(Request), NEW n \in 1 .. Len(rqs)
  PROVE  /\ RequestLen(rqs[n]) \in {1, 2} /\ rqs[n] \in Request
         /\ Size(rqs, n) \in Nat /\ Size(rqs, n) > HdrSize
<1>1. rqs[n] \in Request
  BY ElementOfSeq
<1>2. RequestLen(rqs[n]) \in {1, 2}
  BY <1>1, RequestType
<1> QED
  BY <1>1, <1>2 DEF Size

\* Each byte is of one of the requests, and each request has a first byte.
LEMMA RowBytes ==
  ASSUME NEW rqs \in Seq(Request), NEW s \in Seq(ByteOf(Nat)), NEW first,
         InRow(rqs, s, first)
  PROVE  /\ first \in 1 .. Len(rqs) + 1 /\ first \in Nat
         /\ \A k \in 1 .. Len(s) : s[k].msg \in first .. Len(rqs)
         /\ \A n \in first .. Len(rqs) : \E k \in 1 .. Len(s) : s[k].msg = n
         /\ s = <<>> <=> first = Len(rqs) + 1
<1> PICK at : Laid(rqs, s, first, at)
  BY DEF InRow
<1>1. /\ first \in 1 .. Len(rqs) + 1 /\ Len(rqs) \in Nat /\ first \in Nat /\ Len(s) \in Nat
      /\ at \in [first .. Len(rqs) + 1 -> Nat]
      /\ at[first] = 0 /\ at[Len(rqs) + 1] = Len(s)
      /\ \A n \in first .. Len(rqs) :
           /\ at[n + 1] = at[n] + Size(rqs, n)
           /\ \A o \in 1 .. Size(rqs, n) : s[at[n] + o] = RqByte(rqs, n, o)
      /\ \A n \in first .. Len(rqs) : \A m \in n + 1 .. Len(rqs) + 1 : at[n + 1] <= at[m]
      /\ \A k \in 1 .. Len(s) :
           \E n \in first .. Len(rqs) : \E o \in 1 .. Size(rqs, n) : k = at[n] + o
  BY DEF Laid
<1>2. ASSUME NEW k \in 1 .. Len(s) PROVE s[k].msg \in first .. Len(rqs)
  <2>0. PICK n \in first .. Len(rqs) : \E o \in 1 .. Size(rqs, n) : k = at[n] + o
    BY <1>1
  <2>1. PICK o \in 1 .. Size(rqs, n) : k = at[n] + o
    BY <2>0
  <2>2. s[k] = RqByte(rqs, n, o)
    BY <1>1, <2>1
  <2> QED
    BY <2>2 DEF RqByte
<1>3. ASSUME NEW n \in first .. Len(rqs)
      PROVE  \E k \in 1 .. Len(s) : s[k].msg = n
  <2>1. n \in 1 .. Len(rqs) /\ n \in first .. Len(rqs) + 1 /\ Len(rqs) + 1 \in n + 1 .. Len(rqs) + 1
    BY <1>1
  <2>2. Size(rqs, n) \in Nat /\ Size(rqs, n) > 0
    BY <2>1, SizeType
  <2>3. at[n] \in Nat /\ at[n + 1] = at[n] + Size(rqs, n) /\ at[n + 1] <= Len(s)
    <3>1. at[n] \in Nat /\ at[n + 1] = at[n] + Size(rqs, n)
      BY <1>1, <2>1
    <3>2. at[n + 1] <= at[Len(rqs) + 1] /\ at[Len(rqs) + 1] = Len(s)
      BY <1>1, <2>1
    <3> QED
      BY <3>1, <3>2
  <2>4. 1 \in 1 .. Size(rqs, n) /\ at[n] + 1 \in 1 .. Len(s)
    BY <1>1, <2>2, <2>3, SMTT(30)
  <2>5. s[at[n] + 1] = RqByte(rqs, n, 1)
    BY <1>1, <2>4
  <2> QED
    BY <2>4, <2>5 DEF RqByte
<1>4. CASE first = Len(rqs) + 1
  <2>1. Len(s) = 0
    BY <1>1, <1>4
  <2> QED
    BY <1>1, <1>2, <1>4, <2>1, EmptySeq
<1>5. CASE first # Len(rqs) + 1
  <2>1. first \in first .. Len(rqs)
    BY <1>1, <1>5
  <2>2. PICK k \in 1 .. Len(s) : s[k].msg = first
    BY <1>3, <2>1
  <2>3. s # <<>>
    BY <2>2
  <2> QED
    BY <1>1, <1>2, <1>3, <1>5, <2>3
<1> QED
  BY <1>4, <1>5

\* The first request comes first, and the others are in a row behind it.
LEMMA RowFirst ==
  ASSUME NEW rqs \in Seq(Request), NEW s \in Seq(ByteOf(Nat)), NEW first,
         InRow(rqs, s, first), s # <<>>
  PROVE  /\ first \in 1 .. Len(rqs) /\ Size(rqs, first) <= Len(s)
         /\ \A k \in 1 .. Size(rqs, first) : s[k] = RqByte(rqs, first, k)
         /\ InRow(rqs, SubSeq(s, Size(rqs, first) + 1, Len(s)), first + 1)
<1> PICK at : Laid(rqs, s, first, at)
  BY DEF InRow
<1>1. /\ first \in 1 .. Len(rqs) + 1 /\ Len(rqs) \in Nat /\ first \in Nat /\ Len(s) \in Nat
      /\ at \in [first .. Len(rqs) + 1 -> Nat]
      /\ at[first] = 0 /\ at[Len(rqs) + 1] = Len(s)
      /\ \A n \in first .. Len(rqs) :
           /\ at[n + 1] = at[n] + Size(rqs, n)
           /\ \A o \in 1 .. Size(rqs, n) : s[at[n] + o] = RqByte(rqs, n, o)
      /\ \A n \in first .. Len(rqs) : \A m \in n + 1 .. Len(rqs) + 1 : at[n + 1] <= at[m]
      /\ \A k \in 1 .. Len(s) :
           \E n \in first .. Len(rqs) : \E o \in 1 .. Size(rqs, n) : k = at[n] + o
  BY DEF Laid
<1>2. first \in first .. Len(rqs) /\ first \in 1 .. Len(rqs)
  BY <1>1, RowBytes
<1> DEFINE size == Size(rqs, first)
           t    == SubSeq(s, size + 1, Len(s))
           bt   == [n \in first + 1 .. Len(rqs) + 1 |-> at[n] - size]
<1>3. size \in Nat /\ size > 0
  BY <1>2, SizeType
<1>4. at[first + 1] = size /\ size <= Len(s)
  <2>1. at[first + 1] = 0 + Size(rqs, first)
    BY <1>1, <1>2
  <2>2. Len(rqs) + 1 \in first + 1 .. Len(rqs) + 1
    BY <1>1, <1>2
  <2>3. at[first + 1] <= at[Len(rqs) + 1]
    BY <1>1, <1>2, <2>2
  <2> QED
    BY <1>1, <1>3, <2>1, <2>3
<1>5. \A k \in 1 .. size : s[k] = RqByte(rqs, first, k)
  <2>1. \A k \in 1 .. size : 0 + k = k
    BY <1>3
  <2> QED
    BY <1>1, <1>2, <2>1
<1> HIDE DEF size
<1>6. /\ Len(t) = Len(s) - size /\ Len(t) \in Nat
      /\ \A k \in 1 .. Len(s) - size : t[k] = s[size + k] /\ size + k \in 1 .. Len(s)
  BY <1>1, <1>3, <1>4
<1>7. \A n \in first + 1 .. Len(rqs) + 1 :
        /\ n \in first .. Len(rqs) + 1 /\ at[n] \in Nat /\ at[n] >= size
        /\ bt[n] = at[n] - size /\ bt[n] \in Nat
  <2> SUFFICES ASSUME NEW n \in first + 1 .. Len(rqs) + 1
               PROVE  /\ n \in first .. Len(rqs) + 1 /\ at[n] \in Nat /\ at[n] >= size
                      /\ at[n] - size \in Nat
    OBVIOUS
  <2>1. n \in first .. Len(rqs) + 1 /\ at[n] \in Nat
    BY <1>1, <1>2, SMTT(30)
  <2>2. at[first + 1] <= at[n]
    BY <1>1, <1>2
  <2> QED
    BY <1>3, <1>4, <2>1, <2>2
<1>8. bt \in [first + 1 .. Len(rqs) + 1 -> Nat]
  BY <1>7
<1>9. first + 1 \in 1 .. Len(rqs) + 1 /\ bt[first + 1] = 0 /\ bt[Len(rqs) + 1] = Len(t)
  <2>1. first + 1 \in first + 1 .. Len(rqs) + 1 /\ Len(rqs) + 1 \in first + 1 .. Len(rqs) + 1
    BY <1>1, <1>2
  <2> QED
    BY <1>1, <1>3, <1>4, <1>6, <1>7, <2>1, SMTT(30)
<1> HIDE DEF t, bt
<1>10. ASSUME NEW n \in first + 1 .. Len(rqs)
       PROVE  /\ bt[n + 1] = bt[n] + Size(rqs, n)
              /\ \A o \in 1 .. Size(rqs, n) : t[bt[n] + o] = RqByte(rqs, n, o)
              /\ \A m \in n + 1 .. Len(rqs) + 1 : bt[n + 1] <= bt[m]
  <2>1. /\ n \in first + 1 .. Len(rqs) + 1 /\ n + 1 \in first + 1 .. Len(rqs) + 1
        /\ n \in first .. Len(rqs) /\ n \in 1 .. Len(rqs) /\ Len(rqs) + 1 \in n + 1 .. Len(rqs) + 1
    BY <1>1
  <2>2. Size(rqs, n) \in Nat
    BY <2>1, SizeType
  <2>3. /\ at[n] \in Nat /\ at[n + 1] \in Nat /\ at[n] >= size /\ at[n + 1] >= size
        /\ bt[n] = at[n] - size /\ bt[n + 1] = at[n + 1] - size
        /\ at[n + 1] = at[n] + Size(rqs, n) /\ at[n + 1] <= Len(s)
    <3>1. /\ at[n] \in Nat /\ at[n + 1] \in Nat /\ at[n] >= size /\ at[n + 1] >= size
          /\ bt[n] = at[n] - size /\ bt[n + 1] = at[n + 1] - size
      BY <1>7, <2>1
    <3>2. at[n + 1] = at[n] + Size(rqs, n)
      BY <1>1, <2>1
    <3>3. at[n + 1] <= at[Len(rqs) + 1] /\ at[Len(rqs) + 1] = Len(s)
      BY <1>1, <2>1
    <3> QED
      BY <3>1, <3>2, <3>3
  <2>4. bt[n + 1] = bt[n] + Size(rqs, n)
    BY <1>3, <2>2, <2>3
  <2>5. ASSUME NEW o \in 1 .. Size(rqs, n) PROVE t[bt[n] + o] = RqByte(rqs, n, o)
    <3>1. bt[n] + o \in 1 .. Len(s) - size /\ size + (bt[n] + o) = at[n] + o
      <4>1. o \in Nat /\ o >= 1 /\ o <= Size(rqs, n) /\ Len(s) \in Nat
        BY <1>1, <2>2
      <4>2. bt[n] \in Int /\ bt[n] = at[n] - size /\ at[n] + Size(rqs, n) <= Len(s)
            /\ at[n] \in Nat /\ at[n] >= size
        BY <1>3, <2>3
      <4>3. size \in Int /\ at[n] \in Int /\ bt[n] + o \in Int
        BY <1>3, <4>1, <4>2
      <4>4. size + (bt[n] + o) = at[n] + o
        BY <4>1, <4>2, <4>3, Shifted
      <4>5. size + (bt[n] + o) <= Len(s) /\ bt[n] + o >= 1
        BY <1>3, <2>2, <4>1, <4>2, <4>4, SMTT(30)
      <4>6. bt[n] + o <= Len(s) - size
        BY <4>1, <4>3, <4>5
      <4> QED
        BY <4>1, <4>3, <4>4, <4>5, <4>6
    <3>2. t[bt[n] + o] = s[at[n] + o]
      BY <1>6, <3>1
    <3> QED
      BY <1>1, <2>1, <3>2
  <2>6. ASSUME NEW m \in n + 1 .. Len(rqs) + 1 PROVE bt[n + 1] <= bt[m]
    <3>1. m \in first + 1 .. Len(rqs) + 1
      BY <1>1, <2>1
    <3>2. bt[m] = at[m] - size /\ at[m] \in Nat /\ at[n + 1] <= at[m]
      BY <1>1, <1>7, <2>1, <3>1
    <3> QED
      BY <1>3, <2>3, <3>2
  <2> QED
    BY <2>4, <2>5, <2>6
<1>11. ASSUME NEW k \in 1 .. Len(t)
       PROVE  \E n \in first + 1 .. Len(rqs) : \E o \in 1 .. Size(rqs, n) : k = bt[n] + o
  <2>1. size + k \in 1 .. Len(s)
    BY <1>6
  <2>0. PICK n \in first .. Len(rqs) : \E o \in 1 .. Size(rqs, n) : size + k = at[n] + o
    BY <1>1, <2>1
  <2>2. PICK o \in 1 .. Size(rqs, n) : size + k = at[n] + o
    BY <2>0
  <2>3. n # first
    <3>1. ASSUME n = first PROVE FALSE
      <4>1. size + k = 0 + o /\ o <= size /\ o \in Nat
        BY <1>1, <1>3, <2>2, <3>1 DEF size
      <4> QED
        BY <1>3, <1>6, <4>1
    <3> QED
      BY <3>1
  <2>4. n \in first + 1 .. Len(rqs) /\ n \in first + 1 .. Len(rqs) + 1
    BY <1>1, <2>3
  <2>5. bt[n] = at[n] - size /\ at[n] \in Nat /\ o \in Int /\ k \in Int
    <3>1. n \in 1 .. Len(rqs)
      BY <1>1, <2>4
    <3>2. Size(rqs, n) \in Nat
      BY <3>1, SizeType
    <3>3. bt[n] = at[n] - size /\ at[n] \in Nat
      BY <1>7, <2>4
    <3> QED
      BY <1>6, <3>2, <3>3
  <2>6. k = bt[n] + o
    <3>1. size \in Int /\ bt[n] \in Int /\ at[n] \in Int
      BY <1>3, <2>5
    <3>2. PICK a, b, c, d, e \in Int : a = size /\ b = at[n] /\ c = bt[n] /\ d = o /\ e = k
      BY <2>5, <3>1
    <3>3. a + e = b + d /\ c = b - a
      BY <2>2, <2>5, <3>2
    <3>4. e = c + d
      BY <3>3, Shifted
    <3> QED
      BY <3>2, <3>4
  <2> QED
    BY <2>4, <2>6
<1>12. Laid(rqs, t, first + 1, bt)
  BY <1>8, <1>9, <1>10, <1>11 DEF Laid
<1> QED
  BY <1>2, <1>4, <1>5, <1>12 DEF InRow, size, t

\* Nothing is in a row from behind the last request on.
LEMMA RowNone ==
  ASSUME NEW rqs \in Seq(Request)
  PROVE  InRow(rqs, <<>>, Len(rqs) + 1)
<1> DEFINE first == Len(rqs) + 1
           at == [n \in first .. Len(rqs) + 1 |-> 0]
<1>1. Len(rqs) \in Nat /\ first \in 1 .. Len(rqs) + 1 /\ first \in first .. Len(rqs) + 1
  BY LenProperties
<1>2. /\ at \in [first .. Len(rqs) + 1 -> Nat]
      /\ at[first] = 0 /\ at[Len(rqs) + 1] = 0 /\ Len(<<>>) = 0
  BY <1>1
<1>3. \A n \in first .. Len(rqs) : FALSE
  BY <1>1
<1>4. \A k \in 1 .. 0 : FALSE
  OBVIOUS
<1> HIDE DEF at
<1>5. Laid(rqs, <<>>, first, at)
  BY <1>1, <1>2, <1>3, <1>4 DEF Laid
<1> QED
  BY <1>5 DEF InRow

\* A request more, framed, is in a row with those before.
LEMMA RowAppend ==
  ASSUME NEW rqs \in Seq(Request), NEW s \in Seq(ByteOf(Nat)), NEW first,
         InRow(rqs, s, first), NEW rq \in Request
  PROVE  InRow(Append(rqs, rq), s \o Frame(Len(rqs) + 1, RequestLen(rq)), first)
<1> PICK at : Laid(rqs, s, first, at)
  BY DEF InRow
<1>k. PICK N \in Nat : N = Len(rqs)
  BY LenProperties
<1>1. /\ first \in 1 .. N + 1 /\ first \in Nat /\ Len(s) \in Nat
      /\ at \in [first .. N + 1 -> Nat]
      /\ at[first] = 0 /\ at[N + 1] = Len(s)
      /\ \A n \in first .. N :
           /\ at[n + 1] = at[n] + Size(rqs, n)
           /\ \A o \in 1 .. Size(rqs, n) : s[at[n] + o] = RqByte(rqs, n, o)
      /\ \A n \in first .. N : \A m \in n + 1 .. N + 1 : at[n + 1] <= at[m]
      /\ \A k \in 1 .. Len(s) :
           \E n \in first .. N : \E o \in 1 .. Size(rqs, n) : k = at[n] + o
  BY <1>k DEF Laid
<1>r. PICK r : r = Append(rqs, rq)
  OBVIOUS
<1>2. /\ r \in Seq(Request) /\ Len(r) = N + 1 /\ r[N + 1] = rq
      /\ \A n \in 1 .. N : r[n] = rqs[n]
  BY <1>k, <1>r, AppendProperties
<1>l. PICK len \in Nat : len = RequestLen(rq)
  BY RequestType
<1>f. PICK f : f = Frame(N + 1, len)
  OBVIOUS
<1>3. /\ f \in Seq(ByteOf(Nat)) /\ Len(f) = HdrSize + len
      /\ \A k \in 1 .. HdrSize + len : f[k] = [msg |-> N + 1, len |-> len, off |-> k - 1]
  <2>1. N + 1 \in Nat
    OBVIOUS
  <2> QED
    BY <1>f, <2>1, FrameType, ZenonT(30)
<1>t. PICK t : t = s \o f
  OBVIOUS
<1>4. /\ t \in Seq(ByteOf(Nat)) /\ Len(t) = Len(s) + (HdrSize + len)
      /\ \A k \in 1 .. Len(s) : t[k] = s[k]
      /\ \A k \in 1 .. HdrSize + len : t[Len(s) + k] = f[k]
  <2>1. /\ t \in Seq(ByteOf(Nat)) /\ Len(t) = Len(s) + Len(f)
        /\ \A k \in 1 .. Len(s) + Len(f) : t[k] = IF k <= Len(s) THEN s[k] ELSE f[k - Len(s)]
    <3>1. s \in Seq(ByteOf(Nat)) /\ f \in Seq(ByteOf(Nat))
      BY <1>3
    <3> QED
      BY <1>t, <3>1, ConcatProperties
  <2>2. HdrSize + len \in Nat
    OBVIOUS
  <2>3. \A k \in 1 .. HdrSize + len :
          Len(s) + k \in 1 .. Len(s) + Len(f) /\ ~(Len(s) + k <= Len(s)) /\ (Len(s) + k) - Len(s) = k
    BY <1>1, <1>3, <2>2
  <2>4. \A k \in 1 .. Len(s) : k \in 1 .. Len(s) + Len(f) /\ k <= Len(s)
    BY <1>1, <1>3, <2>2
  <2>5. \A k \in 1 .. Len(s) : t[k] = s[k]
    BY <2>1, <2>4
  <2>6. \A k \in 1 .. HdrSize + len : t[Len(s) + k] = f[k]
    BY <2>1, <2>3
  <2> QED
    BY <1>3, <2>1, <2>5, <2>6
<1>5. \A n \in 1 .. N : Size(r, n) = Size(rqs, n) /\ \A o : RqByte(r, n, o) = RqByte(rqs, n, o)
  BY <1>2 DEF Size, RqByte
<1>6. Size(r, N + 1) = HdrSize + len /\ \A o : RqByte(r, N + 1, o) = [msg |-> N + 1, len |-> len, off |-> o - 1]
  BY <1>2, <1>l DEF Size, RqByte
<1> DEFINE bt == [n \in first .. N + 2 |-> IF n = N + 2 THEN Len(t) ELSE at[n]]
<1>7. /\ bt[N + 2] = Len(t) /\ \A n \in first .. N + 1 : bt[n] = at[n] /\ at[n] \in Nat
      /\ bt \in [first .. N + 2 -> Nat]
  <2>1. N + 2 \in first .. N + 2 /\ \A n \in first .. N + 1 : n \in first .. N + 2 /\ n # N + 2
    BY <1>1
  <2>2. \A n \in first .. N + 2 : n = N + 2 \/ n \in first .. N + 1
    BY <1>1
  <2>3. Len(t) \in Nat
    BY <1>4, LenProperties
  <2> QED
    BY <1>1, <2>1, <2>2, <2>3
<1> HIDE DEF bt
<1>8. /\ first \in 1 .. (N + 1) + 1 /\ (N + 1) + 1 = N + 2
      /\ first \in first .. N + 1 /\ N + 1 \in first .. N + 1
  BY <1>1
<1>9. \A n \in first .. N + 1 : n = N + 1 \/ (n \in first .. N /\ n \in 1 .. N)
  BY <1>1
<1>10. ASSUME NEW n \in first .. N, NEW m \in n + 1 .. N + 1
       PROVE  /\ n \in 1 .. N /\ n \in first .. N + 1 /\ n + 1 \in first .. N + 1 /\ m \in first .. N + 1
              /\ at[n + 1] <= at[m] /\ at[m] <= Len(s)
  <2>1. /\ n \in 1 .. N /\ n \in first .. N + 1 /\ n + 1 \in first .. N + 1
        /\ m \in first .. N + 1 /\ N + 1 \in n + 1 .. N + 1
    BY <1>1
  <2>2. at[n + 1] <= at[m]
    BY <1>1
  <2>3. CASE m = N + 1
    BY <1>1, <2>1, <2>2, <2>3
  <2>4. CASE m # N + 1
    <3>1. m \in first .. N /\ N + 1 \in m + 1 .. N + 1 /\ m \in 1 .. N
      BY <1>1, <2>1, <2>4
    <3>2. at[m + 1] <= Len(s) /\ at[m + 1] = at[m] + Size(rqs, m) /\ at[m] \in Nat
      BY <1>1, <2>1, <3>1
    <3>3. Size(rqs, m) \in Nat
      BY <1>k, <3>1, SizeType
    <3> QED
      BY <1>1, <2>1, <2>2, <3>2, <3>3
  <2> QED
    BY <2>3, <2>4
<1>11. ASSUME NEW n \in first .. N + 1
       PROVE  /\ bt[n + 1] = bt[n] + Size(r, n)
              /\ \A o \in 1 .. Size(r, n) : t[bt[n] + o] = RqByte(r, n, o)
              /\ \A m \in n + 1 .. N + 2 : bt[n + 1] <= bt[m]
  <2>1. CASE n = N + 1
    <3>1. bt[n] = Len(s) /\ bt[n + 1] = Len(t) /\ n + 1 = N + 2
      BY <1>1, <1>7, <1>8, <2>1
    <3>2. \A m \in n + 1 .. N + 2 : m = N + 2
      BY <2>1
    <3>3. \A o \in 1 .. HdrSize + len : t[Len(s) + o] = RqByte(r, N + 1, o)
      BY <1>3, <1>4, <1>6, ZenonT(30)
    <3>4. Len(t) <= Len(t)
      BY <1>4, LenProperties
    <3>5. Size(r, n) = HdrSize + len
      BY <1>6, <2>1
    <3>6. \A m \in n + 1 .. N + 2 : bt[n + 1] <= bt[m]
      BY <1>7, <3>1, <3>2, <3>4
    <3>7. bt[n + 1] = bt[n] + Size(r, n)
      BY <1>4, <3>1, <3>5
    <3> QED
      BY <2>1, <3>1, <3>3, <3>5, <3>6, <3>7
  <2>2. CASE n \in first .. N /\ n \in 1 .. N
    <3>1. N + 1 \in n + 1 .. N + 1 /\ n \in first .. N + 1 /\ n + 1 \in first .. N + 1
      BY <1>1, <2>2
    <3>2. bt[n] = at[n] /\ bt[n + 1] = at[n + 1] /\ at[n] \in Nat /\ at[n + 1] <= Len(s)
          /\ at[n + 1] \in Nat
      BY <1>7, <1>10, <2>2, <3>1
    <3>3. Size(r, n) = Size(rqs, n) /\ Size(rqs, n) \in Nat /\ at[n + 1] = at[n] + Size(rqs, n)
      BY <1>1, <1>5, <1>k, <2>2, SizeType
    <3>4. ASSUME NEW o \in 1 .. Size(r, n) PROVE t[bt[n] + o] = RqByte(r, n, o)
      <4>1. at[n] + o \in 1 .. Len(s)
        <5>1. o \in Nat /\ o >= 1 /\ o <= Size(rqs, n) /\ Len(s) \in Nat
          BY <1>1, <3>3
        <5> QED
          BY <3>2, <3>3, <5>1
      <4>2. t[at[n] + o] = s[at[n] + o] /\ s[at[n] + o] = RqByte(rqs, n, o)
        BY <1>1, <1>4, <2>2, <3>3, <4>1
      <4> QED
        BY <1>5, <2>2, <3>2, <4>2
    <3>5. ASSUME NEW m \in n + 1 .. N + 2 PROVE bt[n + 1] <= bt[m]
      <4>1. CASE m = N + 2
        <5>1. Len(s) <= Len(t)
          BY <1>1, <1>4
        <5> QED
          BY <1>1, <1>4, <1>7, <3>2, <4>1, <5>1, SMTT(30)
      <4>2. CASE m \in n + 1 .. N + 1
        BY <1>7, <1>10, <2>2, <3>2, <4>2
      <4> QED
        BY <2>2, <4>1, <4>2
    <3> QED
      BY <3>2, <3>3, <3>4, <3>5
  <2> QED
    BY <1>9, <2>1, <2>2
<1>12. ASSUME NEW k \in 1 .. Len(t)
       PROVE  \E n \in first .. N + 1 : \E o \in 1 .. Size(r, n) : k = bt[n] + o
  <2>1. CASE k <= Len(s)
    <3>1. k \in 1 .. Len(s)
      BY <1>1, <2>1
    <3>0. PICK n \in first .. N : \E o \in 1 .. Size(rqs, n) : k = at[n] + o
      BY <1>1, <3>1
    <3>2. PICK o \in 1 .. Size(rqs, n) : k = at[n] + o
      BY <3>0
    <3>3. n \in first .. N + 1 /\ n \in 1 .. N
      BY <1>1
    <3> QED
      BY <1>5, <1>7, <3>2, <3>3
  <2>2. CASE k > Len(s)
    <3> DEFINE o == k - Len(s)
    <3>1. o \in 1 .. HdrSize + len /\ k = Len(s) + o
      BY <1>1, <1>4, <2>2
    <3>2. bt[N + 1] = Len(s)
      BY <1>1, <1>7, <1>8
    <3> HIDE DEF o
    <3> QED
      BY <1>6, <1>8, <3>1, <3>2
  <2> QED
    BY <1>1, <1>4, <2>1, <2>2
<1>13. Laid(r, t, first, bt)
  <2>1. bt[first] = 0 /\ bt[N + 2] = Len(t)
    BY <1>1, <1>7, <1>8
  <2>2. \A n \in first .. N + 1 :
          /\ bt[n + 1] = bt[n] + Size(r, n)
          /\ \A o \in 1 .. Size(r, n) : t[bt[n] + o] = RqByte(r, n, o)
    BY <1>11
  <2>3. \A n \in first .. N + 1 : \A m \in n + 1 .. N + 2 : bt[n + 1] <= bt[m]
    BY <1>11
  <2>4. Len(r) = N + 1 /\ Len(r) + 1 = N + 2 /\ first \in 1 .. N + 2
    BY <1>2, <1>8
  <2> QED
    BY <1>7, <1>12, <2>1, <2>2, <2>3, <2>4 DEF Laid
<1> QED
  BY <1>13, <1>r, <1>t, <1>f, <1>l, <1>k DEF InRow

-----------------------------------------------------------------------------
(* Sequences cut in two *)

LEMMA Cut ==
  ASSUME NEW S, NEW s \in Seq(S), NEW n \in 0 .. Len(s)
  PROVE  /\ SubSeq(s, 1, n) \in Seq(S) /\ Len(SubSeq(s, 1, n)) = n
         /\ SubSeq(s, n + 1, Len(s)) \in Seq(S) /\ Len(SubSeq(s, n + 1, Len(s))) = Len(s) - n
         /\ SubSeq(s, 1, n) \o SubSeq(s, n + 1, Len(s)) = s
<1>1. /\ SubSeq(s, 1, n) \in Seq(S) /\ Len(SubSeq(s, 1, n)) = n
      /\ SubSeq(s, n + 1, Len(s)) \in Seq(S) /\ Len(SubSeq(s, n + 1, Len(s))) = Len(s) - n
  OBVIOUS
<1>2. 1 \in 1 .. Len(s) + 1 /\ n \in 1 - 1 .. Len(s) /\ Len(s) \in n .. Len(s)
  OBVIOUS
<1>3. SubSeq(s, 1, n) \o SubSeq(s, n + 1, Len(s)) = SubSeq(s, 1, Len(s))
  BY <1>2, ConcatAdjacentSubSeq
<1> QED
  BY <1>1, <1>3, SubSeqFull

\* What is before and behind the cut of two put together.
Joined(a, b) == a \o b
Behind(s, n) == SubSeq(s, n + 1, Len(s))

LEMMA CutAgain ==
  \A S : \A a, b \in Seq(S) : Behind(Joined(a, b), Len(a)) = b
<1> SUFFICES ASSUME NEW S, NEW a \in Seq(S), NEW b \in Seq(S)
             PROVE  Behind(Joined(a, b), Len(a)) = b
  BY Zenon
<1> PICK s : s = Joined(a, b)
  OBVIOUS
<1>1. /\ s \in Seq(S) /\ Len(s) = Len(a) + Len(b)
      /\ \A k \in 1 .. Len(a) + Len(b) : s[k] = IF k <= Len(a) THEN a[k] ELSE b[k - Len(a)]
      /\ Len(a) \in Nat /\ Len(b) \in Nat
  BY ConcatProperties, LenProperties DEF Joined
<1> PICK n \in Nat : n = Len(a)
  BY <1>1
<1> DEFINE t == SubSeq(s, n + 1, Len(s))
<1>3. /\ t \in Seq(S) /\ Len(t) = Len(b)
      /\ \A k \in 1 .. Len(b) : t[k] = s[n + k]
  <2>1. n \in 0 .. Len(s) /\ Len(s) - n = Len(b)
    BY <1>1
  <2> QED
    BY <1>1, <2>1
<1>4. \A k \in 1 .. Len(b) : n + k \in 1 .. n + Len(b) /\ ~(n + k <= n) /\ (n + k) - n = k
  BY <1>1
<1>5. \A k \in 1 .. Len(b) : t[k] = b[k]
  BY <1>1, <1>3, <1>4
<1> HIDE DEF t
<1>6. t = b
  BY <1>3, <1>5, SeqEqual
<1> QED
  BY <1>6 DEF t, Behind

\* Where a stream is cut makes no difference to it.
Bytes(a, b, c) == a \o b \o c

LEMMA SameStream ==
  \A S : \A a, b, c \in Seq(S) :
    /\ Bytes(a, b, c) = Joined(a, Joined(b, c))
    /\ \A n \in 0 .. Len(b) :
         Bytes(a \o SubSeq(b, 1, n), SubSeq(b, n + 1, Len(b)), c) = Bytes(a, b, c)
    /\ \A n \in 0 .. Len(c) :
         Bytes(a, b \o SubSeq(c, 1, n), SubSeq(c, n + 1, Len(c))) = Bytes(a, b, c)
<1> SUFFICES ASSUME NEW S, NEW a \in Seq(S), NEW b \in Seq(S), NEW c \in Seq(S)
             PROVE  /\ Bytes(a, b, c) = Joined(a, Joined(b, c))
                    /\ \A n \in 0 .. Len(b) :
                         Bytes(a \o SubSeq(b, 1, n), SubSeq(b, n + 1, Len(b)), c) = Bytes(a, b, c)
                    /\ \A n \in 0 .. Len(c) :
                         Bytes(a, b \o SubSeq(c, 1, n), SubSeq(c, n + 1, Len(c))) = Bytes(a, b, c)
  BY Zenon
<1> DEFINE L(x, y, z) == (x \o y) \o z
           M(x, y, z) == x \o (y \o z)
<1>1. \A x, y, z \in Seq(S) : L(x, y, z) = M(x, y, z)
  BY SMTT(30)
<1> HIDE DEF L, M
<1>2. Bytes(a, b, c) = Joined(a, Joined(b, c))
  <2>1. L(a, b, c) = M(a, b, c)
    BY <1>1
  <2> QED
    BY <2>1, Zenon DEF L, M, Bytes, Joined
<1>3. ASSUME NEW n \in 0 .. Len(b)
      PROVE  Bytes(a \o SubSeq(b, 1, n), SubSeq(b, n + 1, Len(b)), c) = Bytes(a, b, c)
  <2>1. PICK x : x = SubSeq(b, 1, n)
    OBVIOUS
  <2>2. PICK y : y = SubSeq(b, n + 1, Len(b))
    OBVIOUS
  <2>3. x \in Seq(S) /\ y \in Seq(S)
    BY <2>1, <2>2, Cut
  <2>4. x \o y = b
    BY <2>1, <2>2, Cut
  <2>5. L(a, x, y) = M(a, x, y)
    BY <1>1, <2>3
  <2>6. (a \o x) \o y = a \o b
    BY <2>4, <2>5, Zenon DEF L, M
  <2> QED
    BY <2>1, <2>2, <2>6, Zenon DEF Bytes
<1>4. ASSUME NEW n \in 0 .. Len(c)
      PROVE  Bytes(a, b \o SubSeq(c, 1, n), SubSeq(c, n + 1, Len(c))) = Bytes(a, b, c)
  <2>1. PICK x : x = SubSeq(c, 1, n)
    OBVIOUS
  <2>2. PICK y : y = SubSeq(c, n + 1, Len(c))
    OBVIOUS
  <2>3. x \in Seq(S) /\ y \in Seq(S)
    BY <2>1, <2>2, Cut
  <2>4. x \o y = c
    BY <2>1, <2>2, Cut
  <2>5. PICK p : p = a \o b
    OBVIOUS
  <2>6. p \in Seq(S)
    BY <2>5, ConcatProperties
  <2>7. L(a, b, x) = M(a, b, x) /\ L(p, x, y) = M(p, x, y)
    BY <1>1, <2>3, <2>6
  <2>8. a \o (b \o x) = p \o x
    BY <2>5, <2>7, Zenon DEF L, M
  <2>9. (p \o x) \o y = p \o c
    BY <2>4, <2>7, Zenon DEF L, M
  <2> QED
    BY <2>1, <2>2, <2>5, <2>8, <2>9, Zenon DEF Bytes
<1> QED
  BY <1>2, <1>3, <1>4

-----------------------------------------------------------------------------
(* The invariant: requests in a row, and one answer at a time *)

\* An answer is on its way, or waits to go.
Answering == txBusy \/ got # <<>> \/ outq # <<>>

\* All that was dispatched or answered comes before the n-th request.
Before(n) ==
  /\ \A i \in 1 .. Len(log) : log[i].req < n
  /\ \A m \in 1 .. Len(answers) : answers[m].req < n

\* The requests from the n-th on have yet to be answered, of which one at most
\* is to be, and if so nothing is being answered.
OneDue(n) ==
  \A k \in n .. Len(requests) :
    \/ Silent(requests[k])
    \/ /\ ~Answering
       /\ \A m \in n .. Len(requests) : m = k \/ Silent(requests[m])

\* The server, the port and USB hold the requests from the n-th on between
\* them, whole and in a row, and they are all that has not been dispatched.
Awaiting(n) ==
  /\ InRow(requests, Stream, n)
  /\ Before(n)
  /\ OneDue(n)
  /\ rxBuf # <<>> => Len(rxBuf) < Size(requests, n)

Asking == pc # "crashed" => \E n \in Nat : Awaiting(n)

\* The client, the port and the server hold one whole answer, in order, to the
\* n-th request, which is the right one and has not come before.
Carried(n, rp) ==
  LET msg == [req |-> n, reply |-> rp]
      len == ReplyLen(rp)
  IN  /\ Len(got) < HdrSize + len
      /\ Stretch(got, msg, len, 0)
      /\ Stretch(outq, msg, len, Len(got))
      /\ txBusy => /\ txBuf = Frame(msg, len)
                   /\ txPos = Len(got) + Len(outq) /\ txPos < HdrSize + len
      /\ ~txBusy => Len(got) + Len(outq) = HdrSize + len

Due(n, rp) ==
  /\ \E i \in 1 .. Len(log) : log[i].req = n /\ RightReply(i, rp)
  /\ \A m \in 1 .. Len(answers) : answers[m].req < n

Replying == Answering =>
  \E n \in 1 .. Len(requests), rp \in Response : Carried(n, rp) /\ Due(n, rp)

Looping == pc = "output" => txBusy

\* The file open is that of the last dispatch to open one.
Filed == channel.file # NoFile => FileAt(Len(log), channel.file)

Histories ==
  /\ Len(requests) <= MaxRequests
  /\ \A i \in 1 .. Len(log) : log[i].req \in 0 .. Len(requests)
  /\ \A m \in 1 .. Len(answers) : answers[m].req \in 1 .. Len(requests)
  /\ DispatchesWhatWasSent
  /\ AnswersAreRight

ServerInv == TypeOK /\ Asking /\ Replying /\ Looping /\ Filed /\ Histories

LEMMA Lengths ==
  ASSUME TypeOK
  PROVE  /\ Len(requests) \in Nat /\ Len(log) \in Nat /\ Len(answers) \in Nat
         /\ Len(rxBuf) \in Nat /\ Len(inq) \in Nat /\ Len(toSend) \in Nat
         /\ Len(got) \in Nat /\ Len(outq) \in Nat /\ Len(txBuf) \in Nat
         /\ \A n \in 1 .. Len(requests) :
              requests[n] \in Request /\ RequestLen(requests[n]) \in {1, 2}
         /\ requests \in Seq(Requests) /\ requests \in Seq(Request)
<1>1. /\ Len(requests) \in Nat /\ Len(log) \in Nat /\ Len(answers) \in Nat
      /\ Len(rxBuf) \in Nat /\ Len(inq) \in Nat /\ Len(toSend) \in Nat
      /\ Len(got) \in Nat /\ Len(outq) \in Nat /\ Len(txBuf) \in Nat
      /\ requests \in Seq(Requests)
  BY DEF TypeOK
<1>2. \A n \in 1 .. Len(requests) : requests[n] \in Request
  BY <1>1, ElementOfSeq
<1>3. requests \in Seq(Request)
  BY <1>1, <1>2, LenProperties, IsASeq
<1> QED
  BY <1>1, <1>2, <1>3, RequestType

\* What is on its way or in rx_buffer.
LEMMA StreamType ==
  ASSUME TypeOK
  PROVE  /\ Stream \in Seq(ByteOf(Nat)) /\ rxBuf \in Seq(ByteOf(Nat))
         /\ inq \in Seq(ByteOf(Nat)) /\ toSend \in Seq(ByteOf(Nat))
         /\ rxBuf \o inq \in Seq(ByteOf(Nat))
         /\ Len(Stream) = Len(rxBuf) + Len(inq) + Len(toSend)
<1>1. rxBuf \in Seq(ByteOf(Nat)) /\ inq \in Seq(ByteOf(Nat)) /\ toSend \in Seq(ByteOf(Nat))
  BY DEF TypeOK
<1>2. PICK p : p = rxBuf \o inq
  OBVIOUS
<1>3. p \in Seq(ByteOf(Nat)) /\ Len(p) = Len(rxBuf) + Len(inq)
  BY <1>1, <1>2, ConcatProperties
<1>4. p \o toSend \in Seq(ByteOf(Nat)) /\ Len(p \o toSend) = Len(p) + Len(toSend)
  <2>1. PICK t : t = toSend
    OBVIOUS
  <2>2. t \in Seq(ByteOf(Nat)) /\ p \in Seq(ByteOf(Nat))
    BY <1>1, <1>3, <2>1
  <2> QED
    BY <2>1, <2>2, ConcatProperties
<1> QED
  BY <1>1, <1>2, <1>3, <1>4 DEF Stream

\* Where the bytes of a request are, and what becomes of answers that are on
\* their way, makes no difference to what is asked.
LEMMA AskingKept ==
  ASSUME Asking, pc' # "crashed" => pc # "crashed", requests' = requests, Stream' = Stream,
         pc' # "crashed" => rxBuf' = rxBuf, Answering' => Answering,
         \A n \in Nat : n > 0 /\ Before(n) => Before(n)'
  PROVE  Asking'
<1> SUFFICES ASSUME pc' # "crashed" PROVE \E n \in Nat : Awaiting(n)'
  BY DEF Asking
<1>1. PICK n \in Nat : Awaiting(n)
  BY DEF Asking
<1>2. n > 0 /\ InRow(requests, Stream, n)'
  <2>1. InRow(requests, Stream, n)
    BY <1>1 DEF Awaiting
  <2>2. PICK at : Laid(requests, Stream, n, at)
    BY <2>1 DEF InRow
  <2>3. n > 0
    BY <2>2 DEF Laid
  <2>4. InRow(requests', Stream', n)
    BY <2>1
  <2> QED
    BY <2>3, <2>4
<1>3. Before(n)'
  BY <1>1, <1>2 DEF Awaiting
<1>4. OneDue(n)'
  BY <1>1 DEF Awaiting, OneDue
<1>5. rxBuf' # <<>> => Len(rxBuf') < Size(requests', n)
  BY <1>1 DEF Awaiting
<1> QED
  BY <1>2, <1>3, <1>4, <1>5 DEF Awaiting

LEMMA ReplyLenType ==
  ASSUME NEW rp \in Response
  PROVE  ReplyLen(rp) \in Nat /\ rp.data \in Seq(Cell)
<1>1. rp.data \in Seq(Cell)
  BY DEF Response
<1> QED
  BY <1>1 DEF ReplyLen

\* What was right stays right when more is requested and dispatched.
LEMMA StaysRight ==
  ASSUME Len(log) \in Nat, Len(log') \in Nat, Len(log) <= Len(log'),
         Len(requests) \in Nat,
         \A i \in 1 .. Len(log) : log'[i] = log[i],
         \A n \in 1 .. Len(requests) : requests'[n] = requests[n],
         \A i \in 1 .. Len(log) : log[i].req \in 0 .. Len(requests)
  PROVE  \A i \in 1 .. Len(log) :
           /\ \A f : FileAt(i, f) => FileAt(i, f)'
           /\ log[i].req # 0 => \A rp : RightReply(i, rp) => RightReply(i, rp)'
<1>1. \A k \in 1 .. Len(log) : log[k].req # 0 => Dispatched(k)' = Dispatched(k)
  <2> SUFFICES ASSUME NEW k \in 1 .. Len(log), log[k].req # 0
               PROVE  Dispatched(k)' = Dispatched(k)
    OBVIOUS
  <2>1. log[k].req \in 1 .. Len(requests) /\ log'[k] = log[k]
    OBVIOUS
  <2> QED
    BY <2>1 DEF Dispatched
<1>2. \A k \in 1 .. Len(log) : (IsOpen(k)' <=> IsOpen(k)) /\ (IsClose(k)' <=> IsClose(k))
  BY <1>1 DEF IsOpen, IsClose
<1>3. ASSUME NEW i \in 1 .. Len(log), NEW f, FileAt(i, f)
      PROVE  FileAt(i, f)'
  <2>1. PICK k \in 1 .. i : /\ IsOpen(k) /\ Search(Dispatched(k).name) = f
                            /\ \A j \in k + 1 .. i : ~IsOpen(j) /\ ~IsClose(j)
    BY <1>3 DEF FileAt
  <2>2. k \in 1 .. Len(log) /\ \A j \in k + 1 .. i : j \in 1 .. Len(log)
    OBVIOUS
  <2>3. Dispatched(k)' = Dispatched(k)
    BY <1>1, <2>1, <2>2 DEF IsOpen
  <2>4. /\ IsOpen(k)' /\ Search(Dispatched(k)'.name) = f
        /\ \A j \in k + 1 .. i : ~IsOpen(j)' /\ ~IsClose(j)'
    BY <1>2, <2>1, <2>2, <2>3
  <2> QED
    BY <2>4 DEF FileAt
<1>4. ASSUME NEW i \in 1 .. Len(log), log[i].req # 0, NEW rp, RightReply(i, rp)
      PROVE  RightReply(i, rp)'
  <2>1. Dispatched(i)' = Dispatched(i)
    BY <1>1, <1>4
  <2>2. \A f : FileAt(i, f) => FileAt(i, f)'
    BY <1>3
  <2> QED
    BY <1>4, <2>1, <2>2 DEF RightReply, RightFile
<1> QED
  BY <1>3, <1>4

\* A step that makes, dispatches and answers nothing keeps all that is recorded.
LEMMA Recorded ==
  ASSUME Filed, Histories, UNCHANGED <<requests, log, answers, channel>>
  PROVE  Filed' /\ Histories' /\ \A n, rp : Due(n, rp) => Due(n, rp)'
<1>1. \A i : (Dispatched(i)' = Dispatched(i)) /\ (IsOpen(i)' <=> IsOpen(i))
             /\ (IsClose(i)' <=> IsClose(i))
  BY DEF Dispatched, IsOpen, IsClose
<1>2. \A i, f : FileAt(i, f)' <=> FileAt(i, f)
  BY <1>1 DEF FileAt
<1>3. \A i, rp : RightReply(i, rp)' <=> RightReply(i, rp)
  BY <1>1, <1>2 DEF RightReply, RightFile
<1>4. Filed'
  BY <1>2 DEF Filed
<1>5. \A n, rp : Due(n, rp) => Due(n, rp)'
  BY <1>3 DEF Due
<1>6. Histories'
  BY <1>3 DEF Histories, DispatchesWhatWasSent, AnswersAreRight
<1> QED
  BY <1>4, <1>5, <1>6

\* A request made behind others that are on their way is in a row with them.
LEMMA SendRow ==
  ASSUME TypeOK, toSend = <<>>, NEW rq \in Request, NEW first, InRow(requests, Stream, first),
         requests' = Append(requests, rq),
         toSend' = Frame(Len(requests) + 1, RequestLen(rq)), UNCHANGED <<rxBuf, inq>>
  PROVE  InRow(requests', Stream', first)
<1>1. PICK p : p = rxBuf \o inq
  OBVIOUS
<1>2. /\ p \in Seq(ByteOf(Nat)) /\ Stream = p \o <<>>
      /\ Stream' = p \o Frame(Len(requests) + 1, RequestLen(rq))
  BY <1>1, StreamType DEF Stream
<1>3. Stream' = Stream \o Frame(Len(requests) + 1, RequestLen(rq))
  BY <1>2, ConcatEmptySeq
<1>4. requests \in Seq(Request) /\ Stream \in Seq(ByteOf(Nat))
  BY Lengths, StreamType
<1>5. InRow(Append(requests, rq), Stream \o Frame(Len(requests) + 1, RequestLen(rq)), first)
  BY <1>4, RowAppend
<1> QED
  BY <1>3, <1>5

\* A client makes a request, as it may.
LEMMA SendStep ==
  ASSUME ServerInv, NEW rq \in Requests, SendWhenAllowed(rq)
  PROVE  ServerInv'
<1> DEFINE n   == Len(requests) + 1
           len == RequestLen(rq)
<1>0. TypeOK /\ Asking /\ Replying /\ Looping /\ Filed /\ Histories
  BY DEF ServerInv
<1>1. /\ toSend = <<>> /\ (Silent(rq) \/ Settled)
      /\ Len(requests) < MaxRequests
      /\ requests' = Append(requests, rq) /\ toSend' = Frame(n, len)
      /\ UNCHANGED <<got, answers, lost, portRoom, inq, outq, hup, breaks, pc, rxBuf, txBuf,
                     txPos, txBusy, channel, log>>
  BY DEF SendWhenAllowed, Send, portVars, txVars
<1>2. /\ Len(requests) \in Nat /\ Len(log) \in Nat /\ Len(answers) \in Nat
      /\ requests \in Seq(Requests) /\ requests \in Seq(Request) /\ n \in Nat
  BY <1>0, Lengths
<1>3. rq \in Request /\ len \in Nat
  BY RequestType
<1>6. /\ requests' \in Seq(Requests) /\ Len(requests') = n /\ requests'[n] = rq
      /\ \A i \in 1 .. Len(requests) : requests'[i] = requests[i]
  BY <1>1, <1>2, AppendProperties
<1>7. toSend' \in Seq(ByteOf(Nat))
  BY <1>1, <1>2, <1>3, FrameType
<1>8. TypeOK'
  BY <1>0, <1>1, <1>6, <1>7 DEF TypeOK
<1>9. \A i \in 1 .. Len(log) :
        /\ \A f : FileAt(i, f) => FileAt(i, f)'
        /\ log[i].req # 0 => \A rp : RightReply(i, rp) => RightReply(i, rp)'
  <2>1. log' = log /\ Len(log) <= Len(log') /\ Len(log') \in Nat
    BY <1>1, <1>2
  <2>2. \A i \in 1 .. Len(log) : log[i].req \in 0 .. Len(requests)
    BY <1>0 DEF Histories
  <2> QED
    BY <1>2, <1>6, <2>1, <2>2, StaysRight
<1>10. Asking'
  <2> SUFFICES ASSUME pc' # "crashed" PROVE \E k \in Nat : Awaiting(k)'
    BY DEF Asking
  <2>1. PICK k \in Nat : Awaiting(k)
    BY <1>0, <1>1 DEF Asking
  <2>2. Stream \in Seq(ByteOf(Nat)) /\ InRow(requests, Stream, k)
    BY <1>0, <2>1, StreamType DEF Awaiting
  <2>3. /\ k \in 1 .. Len(requests) + 1
        /\ \A j \in k .. Len(requests) : \E i \in 1 .. Len(Stream) : Stream[i].msg = j
        /\ Stream = <<>> <=> k = Len(requests) + 1
    BY <1>2, <2>2, RowBytes
  <2>4. InRow(requests, Stream, k)'
    <3>1. InRow(requests', Stream', k)
      BY <1>0, <1>1, <1>3, <2>2, SendRow
    <3> QED
      BY <3>1
  <2>5. Before(k)'
    BY <1>1, <2>1 DEF Awaiting, Before
  <2>6. OneDue(k)'
    <3>1. \A j \in k .. n : j = n \/ (j \in k .. Len(requests) /\ j \in 1 .. Len(requests))
      BY <1>2, <2>3
    <3>2. \A j \in k .. Len(requests) : requests'[j] = requests[j]
      BY <1>2, <1>6, <2>3
    <3>3. Answering' = Answering
      BY <1>1 DEF Answering
    <3>4. CASE Silent(rq)
      BY <1>6, <2>1, <3>1, <3>2, <3>3, <3>4 DEF Awaiting, OneDue
    <3>5. CASE Settled
      <4>1. \A j \in k .. Len(requests) : Silent(requests[j])
        BY <2>3, <3>5 DEF Settled
      <4>2. ~Answering
        BY <3>5 DEF Settled, Answering
      <4> QED
        BY <1>6, <3>1, <3>2, <3>3, <4>1, <4>2 DEF OneDue
    <3> QED
      BY <1>1, <3>4, <3>5
  <2>7. rxBuf' # <<>> => Len(rxBuf') < Size(requests', k)
    <3> SUFFICES ASSUME rxBuf # <<>> PROVE Len(rxBuf) < Size(requests', k)
      BY <1>1
    <3>1. Stream # <<>>
      <4>1. Len(rxBuf) # 0
        BY <1>0, StreamType
      <4>2. Len(Stream) # 0
        BY <1>0, <4>1, Lengths, StreamType
      <4> QED
        BY <4>2
    <3>2. k \in 1 .. Len(requests)
      BY <1>2, <2>3, <3>1
    <3>3. requests'[k] = requests[k] /\ Len(rxBuf) < Size(requests, k)
      BY <1>6, <2>1, <3>2 DEF Awaiting
    <3> QED
      BY <3>3 DEF Size
  <2> QED
    BY <2>4, <2>5, <2>6, <2>7 DEF Awaiting
<1>11. Replying' /\ Looping'
  <2>1. CASE ~Answering
    BY <1>0, <1>1, <2>1 DEF Replying, Answering, Looping
  <2>2. CASE Answering
    <3>1. PICK k \in 1 .. Len(requests), rp \in Response : Carried(k, rp) /\ Due(k, rp)
      BY <1>0, <2>2 DEF Replying
    <3>2. Carried(k, rp)'
      BY <1>1, <3>1 DEF Carried, Stretch
    <3>3. Due(k, rp)'
      <4>1. PICK i \in 1 .. Len(log) : log[i].req = k /\ RightReply(i, rp)
        BY <3>1 DEF Due
      <4>2. RightReply(i, rp)'
        BY <1>9, <4>1
      <4> QED
        BY <1>1, <3>1, <4>1, <4>2 DEF Due
    <3>4. k \in 1 .. Len(requests')
      BY <1>2, <1>6
    <3> QED
      BY <1>0, <1>1, <3>2, <3>3, <3>4 DEF Replying, Looping
  <2> QED
    BY <2>1, <2>2
<1>12. Filed'
  <2>1. CASE channel.file = NoFile
    BY <1>1, <2>1 DEF Filed
  <2>2. CASE channel.file # NoFile
    <3>1. FileAt(Len(log), channel.file)
      BY <1>0, <2>2 DEF Filed
    <3>2. Len(log) \in 1 .. Len(log)
      BY <1>2, <3>1 DEF FileAt
    <3> QED
      BY <1>1, <1>9, <3>1, <3>2 DEF Filed
  <2> QED
    BY <2>1, <2>2
<1>13. Histories'
  <2>1. /\ Len(requests') <= MaxRequests
        /\ \A i \in 1 .. Len(log') : log'[i].req \in 0 .. Len(requests')
        /\ \A m \in 1 .. Len(answers') : answers'[m].req \in 1 .. Len(requests')
    BY <1>0, <1>1, <1>2, <1>6 DEF Histories
  <2>2. DispatchesWhatWasSent'
    BY <1>0, <1>1 DEF Histories, DispatchesWhatWasSent
  <2>3. AnswersAreRight'
    BY <1>0, <1>1, <1>9 DEF Histories, AnswersAreRight
  <2> QED
    BY <2>1, <2>2, <2>3 DEF Histories
<1> QED
  BY <1>8, <1>10, <1>11, <1>12, <1>13 DEF ServerInv

\* Some bytes of requests reach the port.
LEMMA UsbInStep ==
  ASSUME ServerInv, UsbIn
  PROVE  ServerInv' /\ Stream' = Stream
<1>0. TypeOK /\ Asking /\ Replying /\ Looping /\ Filed /\ Histories
  BY DEF ServerInv
<1>1. PICK j \in 1 .. Len(toSend) :
        /\ inq' = inq \o SubSeq(toSend, 1, j)
        /\ toSend' = SubSeq(toSend, j + 1, Len(toSend))
  BY DEF UsbIn
<1>2. UNCHANGED <<requests, got, answers, lost, portRoom, outq, hup, breaks, pc, rxBuf,
                  txBuf, txPos, txBusy, channel, log>>
  BY DEF UsbIn, txVars
<1>3. /\ rxBuf \in Seq(ByteOf(Nat)) /\ inq \in Seq(ByteOf(Nat))
      /\ toSend \in Seq(ByteOf(Nat)) /\ Len(toSend) \in Nat
  BY <1>0, StreamType
<1>4. j \in 0 .. Len(toSend)
  BY <1>3
<1>5. inq' \in Seq(ByteOf(Nat)) /\ toSend' \in Seq(ByteOf(Nat))
  <2>1. PICK t : t = SubSeq(toSend, 1, j)
    OBVIOUS
  <2>2. t \in Seq(ByteOf(Nat)) /\ toSend' \in Seq(ByteOf(Nat))
    BY <1>1, <1>3, <1>4, <2>1, Cut
  <2>3. inq' = inq \o t
    BY <1>1, <2>1
  <2> QED
    BY <1>3, <2>2, <2>3
<1>6. Stream' = Stream
  <2>1. Bytes(rxBuf, inq \o SubSeq(toSend, 1, j), SubSeq(toSend, j + 1, Len(toSend)))
          = Bytes(rxBuf, inq, toSend)
    BY <1>3, <1>4, SameStream
  <2>2. Bytes(rxBuf', inq', toSend') = Bytes(rxBuf, inq, toSend)
    BY <1>1, <1>2, <2>1
  <2> QED
    BY <2>2, Zenon DEF Stream, Bytes
<1>7. TypeOK'
  BY <1>0, <1>2, <1>5 DEF TypeOK
<1>8. Asking'
  <2>1. Answering' = Answering /\ \A n : Before(n)' = Before(n)
    BY <1>2 DEF Answering, Before
  <2> QED
    BY <1>0, <1>2, <1>6, <2>1, AskingKept
<1>9. Filed' /\ Histories' /\ \A n, rp : Due(n, rp) => Due(n, rp)'
  BY <1>0, <1>2, Recorded
<1>10. Replying' /\ Looping'
  <2>1. \A n, rp : Carried(n, rp) => Carried(n, rp)'
    BY <1>2 DEF Carried, Stretch
  <2>2. Answering' = Answering
    BY <1>2 DEF Answering
  <2> QED
    BY <1>0, <1>2, <1>9, <2>1, <2>2 DEF Replying, Looping
<1> QED
  BY <1>6, <1>7, <1>8, <1>9, <1>10 DEF ServerInv

\* The port hangs up between two packets, and opens again.
LEMMA HangUpStep ==
  ASSUME ServerInv, CleanHangUp
  PROVE  ServerInv'
<1>0. TypeOK /\ Asking /\ Replying /\ Looping /\ Filed /\ Histories
  BY DEF ServerInv
<1>1. /\ hup' = TRUE /\ breaks' = breaks + 1 /\ breaks < MaxBreaks
      /\ lost' = IF Quiet THEN lost ELSE lost \cup {Len(requests)}
      /\ toSend' = <<>> /\ inq' = <<>> /\ outq' = <<>> /\ got' = <<>>
      /\ UNCHANGED <<requests, answers, portRoom, pc, rxBuf, txVars, channel, log>>
      /\ rxBuf = <<>> /\ ~txBusy
  BY DEF CleanHangUp, HangUp
<1>2. \A S : <<>> \in Seq(S) /\ Len(<<>>) = 0
  BY EmptySeq
<1>3. lost' \subseteq 0 .. MaxRequests
  <2>1. Len(requests) \in 0 .. MaxRequests
    BY <1>0, Lengths DEF Histories
  <2> QED
    BY <1>0, <1>1, <2>1 DEF TypeOK
<1>4. breaks' \in 0 .. MaxBreaks /\ portRoom \in Nat
  BY <1>0, <1>1 DEF TypeOK
<1>5. hup' \in BOOLEAN /\ Len(outq') <= portRoom
  BY <1>1, <1>2, <1>4
<1>6. TypeOK'
  BY <1>0, <1>1, <1>2, <1>3, <1>4, <1>5 DEF TypeOK, txVars
<1>7. Asking' /\ Replying' /\ Looping'
  <2>1. ~Answering'
    BY <1>1 DEF Answering, txVars
  <2>2. PICK n \in Nat : n = Len(requests) + 1
    BY <1>0, Lengths
  <2>3. InRow(requests, Stream, n)'
    <3>1. Stream' = <<>>
      BY <1>1, <1>2, ConcatEmptySeq DEF Stream
    <3>2. InRow(requests, <<>>, n)
      BY <1>0, <2>2, Lengths, RowNone
    <3> QED
      BY <1>1, <3>1, <3>2
  <2>4. Before(n)'
    <3>1. Len(requests) \in Nat
      BY <1>0, Lengths
    <3>2. /\ \A i \in 1 .. Len(log) : log[i].req \in 0 .. Len(requests)
          /\ \A m \in 1 .. Len(answers) : answers[m].req \in 1 .. Len(requests)
      BY <1>0 DEF Histories
    <3> QED
      BY <1>1, <2>2, <3>1, <3>2 DEF Before
  <2>5. OneDue(n)'
    <3>1. \A k \in n .. Len(requests) : FALSE
      BY <1>0, <2>2, Lengths
    <3> QED
      BY <1>1, <3>1 DEF OneDue
  <2>6. Awaiting(n)'
    BY <1>1, <2>3, <2>4, <2>5 DEF Awaiting
  <2> QED
    BY <1>0, <1>1, <2>1, <2>6 DEF Asking, Replying, Looping, txVars
<1>8. Filed' /\ Histories'
  BY <1>0, <1>1, Recorded
<1> QED
  BY <1>6, <1>7, <1>8 DEF ServerInv

\* The device is opened again, which closes the file.
LEMMA ReopenStep ==
  ASSUME ServerInv, Reopen
  PROVE  ServerInv'
<1> DEFINE n == Len(log)
           e == [req |-> 0, whole |-> TRUE]
<1>0. TypeOK /\ Asking /\ Replying /\ Looping /\ Filed /\ Histories
  BY DEF ServerInv
<1>1. /\ hup' = FALSE /\ channel' = RawfileReopen(channel) /\ log' = Append(log, e)
      /\ UNCHANGED <<requests, toSend, got, answers, lost, portRoom, inq, outq, breaks, pc,
                     rxBuf, txBuf, txPos, txBusy>>
  BY DEF Reopen, clientVars, txVars
<1>2. /\ Len(requests) \in Nat /\ n \in Nat /\ channel \in Channel
      /\ log \in Seq([req : Nat, whole : BOOLEAN])
  BY <1>0, Lengths DEF TypeOK
<1>3. e \in [req : Nat, whole : BOOLEAN] /\ e.req = 0 /\ e.whole
  OBVIOUS
<1> HIDE DEF e
<1>4. /\ log' \in Seq([req : Nat, whole : BOOLEAN]) /\ Len(log') = n + 1
      /\ log'[n + 1] = e /\ \A i \in 1 .. n : log'[i] = log[i]
  BY <1>1, <1>2, <1>3, AppendProperties
<1>5. channel' \in Channel /\ channel'.file = NoFile
  BY <1>1, <1>2, ChannelType
<1>6. hup' \in BOOLEAN
  BY <1>1
<1>7. TypeOK'
  BY <1>0, <1>1, <1>4, <1>5, <1>6 DEF TypeOK
<1>8. \A i \in 1 .. n :
        log[i].req # 0 => \A rp : RightReply(i, rp) => RightReply(i, rp)'
  <2>1. n <= Len(log') /\ Len(log') \in Nat /\ requests' = requests
    BY <1>1, <1>2, <1>4
  <2>2. \A i \in 1 .. n : log[i].req \in 0 .. Len(requests)
    BY <1>0 DEF Histories
  <2> QED
    BY <1>2, <1>4, <2>1, <2>2, StaysRight
<1>9. \A i \in 1 .. n + 1 : i = n + 1 \/ i \in 1 .. n
  BY <1>2
<1>10. \A i \in 1 .. n : i \in 1 .. n + 1
  BY <1>2
<1>11. Asking'
  <2>1. Stream' = Stream /\ Answering' = Answering
    BY <1>1 DEF Stream, Answering
  <2>2. ASSUME NEW k \in Nat, k > 0, Before(k) PROVE Before(k)'
    <3>1. \A i \in 1 .. Len(log') : log'[i].req < k
      BY <1>2, <1>3, <1>4, <1>9, <2>2 DEF Before
    <3> QED
      BY <1>1, <2>2, <3>1 DEF Before
  <2> QED
    BY <1>0, <1>1, <2>1, <2>2, AskingKept
<1>12. Replying'
  <2>1. CASE ~Answering
    BY <1>1, <2>1 DEF Replying, Answering
  <2>2. CASE Answering
    <3>1. PICK k \in 1 .. Len(requests), rp \in Response : Carried(k, rp) /\ Due(k, rp)
      BY <1>0, <2>2 DEF Replying
    <3>2. Carried(k, rp)'
      BY <1>1, <3>1 DEF Carried, Stretch
    <3>4. Due(k, rp)'
      <4>1. PICK i \in 1 .. n : log[i].req = k /\ RightReply(i, rp)
        BY <3>1 DEF Due
      <4>2. RightReply(i, rp)'
        BY <1>2, <1>8, <4>1
      <4>3. i \in 1 .. Len(log') /\ log'[i].req = k
        BY <1>4, <1>10, <4>1
      <4> QED
        BY <1>1, <3>1, <4>2, <4>3 DEF Due
    <3> QED
      BY <1>1, <3>2, <3>4 DEF Replying
  <2> QED
    BY <2>1, <2>2
<1>13. Looping' /\ Filed'
  BY <1>0, <1>1, <1>5 DEF Looping, Filed
<1>14. Histories'
  <2>1. /\ Len(requests') <= MaxRequests
        /\ \A m \in 1 .. Len(answers') : answers'[m].req \in 1 .. Len(requests')
    BY <1>0, <1>1 DEF Histories
  <2>2. \A i \in 1 .. Len(log') : log'[i].req \in 0 .. Len(requests')
    BY <1>0, <1>1, <1>2, <1>3, <1>4, <1>9 DEF Histories
  <2>3. DispatchesWhatWasSent'
    <3>1. \A i \in 1 .. Len(log') : log'[i].whole
      BY <1>0, <1>3, <1>4, <1>9 DEF Histories, DispatchesWhatWasSent
    <3>2. ASSUME NEW i \in 1 .. Len(log'), NEW j \in 1 .. Len(log'),
                 i < j, log'[i].req # 0, log'[j].req # 0
          PROVE  log'[i].req < log'[j].req
      <4>1. i \in 1 .. n /\ j \in 1 .. n
        BY <1>3, <1>4, <1>9, <3>2
      <4> QED
        BY <1>0, <1>4, <3>2, <4>1 DEF Histories, DispatchesWhatWasSent
    <3> QED
      BY <3>1, <3>2 DEF DispatchesWhatWasSent
  <2>4. AnswersAreRight'
    <3>1. ASSUME NEW m \in 1 .. Len(answers)
          PROVE  \E i \in 1 .. Len(log') : /\ log'[i].req = answers[m].req /\ log'[i].req # 0
                                           /\ RightReply(i, answers[m].reply)'
      <4>1. PICK i \in 1 .. n : /\ log[i].req = answers[m].req /\ log[i].req # 0
                                /\ RightReply(i, answers[m].reply)
        BY <1>0 DEF Histories, AnswersAreRight
      <4> QED
        BY <1>1, <1>4, <1>8, <1>10, <4>1
    <3> QED
      BY <1>0, <1>1, <3>1 DEF Histories, AnswersAreRight
  <2> QED
    BY <2>1, <2>2, <2>3, <2>4 DEF Histories
<1> QED
  BY <1>7, <1>11, <1>12, <1>13, <1>14 DEF ServerInv

\* A byte of the answer comes back, and completes it or does not.
LEMMA UsbOutStep ==
  ASSUME ServerInv, UsbOut
  PROVE  /\ ServerInv' /\ Stream' = Stream
         /\ \E n \in Nat, rp \in Response :
              Carried(n, rp) /\ (Carried(n, rp)' \/ (~txBusy /\ ~Answering'))
<1> DEFINE frame == Append(got, Head(outq))
<1>0. TypeOK /\ Asking /\ Replying /\ Looping /\ Filed /\ Histories
  BY DEF ServerInv
<1>1. /\ outq # <<>> /\ outq' = Tail(outq)
      /\ IF Len(frame) >= HdrSize + frame[1].len
           THEN /\ got' = <<>>
                /\ answers' = Append(answers,
                     [req   |-> frame[1].msg.req,
                      reply |-> frame[1].msg.reply,
                      whole |-> frame = Frame(frame[1].msg, frame[1].len)])
           ELSE got' = frame /\ UNCHANGED answers
      /\ UNCHANGED <<requests, toSend, lost, portRoom, inq, hup, breaks, pc, rxBuf,
                     txBuf, txPos, txBusy, channel, log>>
  BY DEF UsbOut, txVars
<1>2. /\ Len(requests) \in Nat /\ Len(got) \in Nat /\ Len(outq) \in Nat /\ Len(answers) \in Nat
      /\ outq \in Seq(ByteOf(Answer)) /\ got \in Seq(ByteOf(Answer))
      /\ answers \in Seq([req : Nat, reply : Response, whole : BOOLEAN])
      /\ portRoom \in Nat /\ Len(outq) <= portRoom /\ Len(log) \in Nat
  BY <1>0, Lengths DEF TypeOK
<1>4. PICK n \in 1 .. Len(requests), rp \in Response : Carried(n, rp) /\ Due(n, rp)
  BY <1>0, <1>1 DEF Replying, Answering
<1>3. n \in Nat /\ n > 0 /\ n \in 1 .. Len(requests)
  BY <1>2, <1>4
<1> DEFINE msg == [req |-> n, reply |-> rp]
           len == ReplyLen(rp)
<1>5. msg \in Answer /\ len \in Nat /\ msg.req = n /\ msg.reply = rp
  BY <1>3, <1>4, ReplyLenType DEF Answer
<1>6. /\ Len(got) < HdrSize + len
      /\ Stretch(got, msg, len, 0)
      /\ Stretch(outq, msg, len, Len(got))
      /\ txBusy => /\ txBuf = Frame(msg, len)
                   /\ txPos = Len(got) + Len(outq) /\ txPos < HdrSize + len
      /\ ~txBusy => Len(got) + Len(outq) = HdrSize + len
  BY <1>4 DEF Carried
<1> HIDE DEF msg, len, frame
<1>7. /\ Len(outq) >= 1 /\ Head(outq) \in ByteOf(Answer)
      /\ Head(outq) = [msg |-> msg, len |-> len, off |-> Len(got)]
  BY <1>1, <1>2, <1>6, StretchTail, SMTT(30)
<1>8. /\ outq' \in Seq(ByteOf(Answer)) /\ Len(outq') = Len(outq) - 1
      /\ Stretch(outq', msg, len, Len(got) + 1)
  BY <1>1, <1>2, <1>6, StretchTail
<1>9. /\ frame \in Seq(ByteOf(Answer)) /\ Len(frame) = Len(got) + 1
      /\ Stretch(frame, msg, len, 0)
  <2>1. 0 \in Nat /\ 0 + Len(got) = Len(got)
    BY <1>2
  <2> QED
    BY <1>2, <1>6, <1>7, <2>1, StretchAppend DEF frame
<1>10. frame[1].len = len /\ frame[1].msg = msg
  <2>1. 1 \in 1 .. Len(frame)
    BY <1>2, <1>9
  <2> QED
    BY <1>9, <2>1 DEF Stretch
<1>11. Looping' /\ Stream' = Stream /\ (Answering' => Answering)
  BY <1>0, <1>1 DEF Looping, Stream, Answering
\* Nobody looks at the answers to tell what is right.
<1>12. /\ Filed'
       /\ \A i \in 1 .. Len(log) :
            log[i].req # 0 => \A r : RightReply(i, r) => RightReply(i, r)'
  <2>1. /\ log' = log /\ requests' = requests /\ channel' = channel
        /\ Len(log) <= Len(log') /\ Len(log') \in Nat
    BY <1>1, <1>2
  <2>2. \A i \in 1 .. Len(log) : log[i].req \in 0 .. Len(requests)
    BY <1>0 DEF Histories
  <2>3. \A i \in 1 .. Len(log) :
          /\ \A f : FileAt(i, f) => FileAt(i, f)'
          /\ log[i].req # 0 => \A r : RightReply(i, r) => RightReply(i, r)'
    BY <1>2, <2>1, <2>2, StaysRight
  <2>4. CASE channel.file # NoFile
    <3>1. FileAt(Len(log), channel.file)
      BY <1>0, <2>4 DEF Filed
    <3>2. Len(log) \in 1 .. Len(log)
      BY <1>2, <3>1 DEF FileAt
    <3> QED
      BY <2>1, <2>3, <3>1, <3>2 DEF Filed
  <2>5. CASE channel.file = NoFile
    BY <2>1, <2>3, <2>5 DEF Filed
  <2> QED
    BY <2>4, <2>5
<1>13. CASE Len(got) + 1 = HdrSize + len
  <2> DEFINE a == [req |-> n, reply |-> rp, whole |-> TRUE]
  <2>1. frame = Frame(msg, len)
    BY <1>5, <1>9, <1>13, StretchWhole
  <2>2. got' = <<>> /\ answers' = Append(answers, a)
    <3> DEFINE w == frame = Frame(frame[1].msg, frame[1].len)
    <3>1. Len(frame) >= HdrSize + frame[1].len
      BY <1>2, <1>5, <1>9, <1>10, <1>13
    <3>2. /\ got' = <<>>
          /\ answers' = Append(answers, [req |-> frame[1].msg.req, reply |-> frame[1].msg.reply,
                                        whole |-> w])
      BY <1>1, <3>1
    <3>3. w = TRUE
      BY <1>10, <2>1
    <3> HIDE DEF w
    <3> QED
      BY <1>5, <1>10, <3>2, <3>3
  <2>3. a \in [req : Nat, reply : Response, whole : BOOLEAN]
    BY <1>2
  <2> HIDE DEF a
  <2>4. /\ answers' \in Seq([req : Nat, reply : Response, whole : BOOLEAN])
        /\ Len(answers') = Len(answers) + 1 /\ answers'[Len(answers) + 1] = a
        /\ \A m \in 1 .. Len(answers) : answers'[m] = answers[m]
    BY <1>2, <2>2, <2>3, AppendProperties
  <2>5. \A m \in 1 .. Len(answers') : m = Len(answers) + 1 \/ m \in 1 .. Len(answers)
    BY <1>2, <2>4
  <2>6. ~txBusy /\ Len(outq') = 0
    BY <1>2, <1>5, <1>6, <1>7, <1>8, <1>13
  <2>7. Replying' /\ ~txBusy /\ ~Answering'
    <3>1. ~Answering'
      BY <1>1, <1>8, <2>2, <2>6 DEF Answering
    <3> QED
      BY <2>6, <3>1 DEF Replying
  <2>8. TypeOK'
    <3>1. got' \in Seq(ByteOf(Answer)) /\ Len(outq') <= portRoom
      BY <1>2, <2>2, <2>6, EmptySeq
    <3> QED
      BY <1>0, <1>1, <1>8, <2>4, <3>1 DEF TypeOK
  <2>9. a.req = n /\ a.reply = rp /\ a.whole
    BY DEF a
  <2>11. Asking'
    <3>1. ASSUME NEW k \in Nat, k > 0, Before(k) PROVE Before(k)'
      <4>1. n < k
        BY <1>4, <3>1 DEF Due, Before
      <4>2. \A m \in 1 .. Len(answers') : answers'[m].req < k
        BY <2>4, <2>5, <2>9, <3>1, <4>1 DEF Before
      <4> QED
        BY <1>1, <3>1, <4>2 DEF Before
    <3> QED
      BY <1>0, <1>1, <1>11, <3>1, AskingKept
  <2>10. Histories'
    <3>1. /\ Len(requests') <= MaxRequests
          /\ \A i \in 1 .. Len(log') : log'[i].req \in 0 .. Len(requests')
          /\ DispatchesWhatWasSent'
      BY <1>0, <1>1 DEF Histories, DispatchesWhatWasSent
    <3>2. \A m \in 1 .. Len(answers') : answers'[m].req \in 1 .. Len(requests')
      <4>1. \A m \in 1 .. Len(answers) : answers[m].req \in 1 .. Len(requests)
        BY <1>0 DEF Histories
      <4>2. n \in 1 .. Len(requests) /\ requests' = requests
        BY <1>1, <1>3
      <4> QED
        BY <2>4, <2>5, <2>9, <4>1, <4>2
    <3>3. \A m \in 1 .. Len(answers') : answers'[m].whole
      BY <1>0, <2>4, <2>5, <2>9 DEF Histories, AnswersAreRight
    <3>4. ASSUME NEW m \in 1 .. Len(answers')
          PROVE  \E i \in 1 .. Len(log') : /\ log'[i].req = answers'[m].req /\ log'[i].req # 0
                                           /\ RightReply(i, answers[m].reply)'
      <4>1. CASE m = Len(answers) + 1
        <5>1. PICK i \in 1 .. Len(log) : log[i].req = n /\ RightReply(i, rp)
          BY <1>4 DEF Due
        <5>2. i \in 1 .. Len(log') /\ log'[i].req = n /\ log'[i].req # 0
          BY <1>1, <1>2, <1>3, <5>1
        <5>3. RightReply(i, rp)'
          BY <1>2, <1>3, <1>12, <5>1, SMTT(30)
        <5>4. answers'[m].req = n /\ answers'[m].reply = rp
          BY <2>4, <2>9, <4>1
        <5> QED
          BY <5>2, <5>3, <5>4
      <4>2. CASE m \in 1 .. Len(answers)
        <5>1. PICK i \in 1 .. Len(log) : /\ log[i].req = answers[m].req /\ log[i].req # 0
                                         /\ RightReply(i, answers[m].reply)
          BY <1>0, <4>2 DEF Histories, AnswersAreRight
        <5> QED
          BY <1>1, <1>12, <2>4, <4>2, <5>1
      <4> QED
        BY <2>5, <4>1, <4>2
    <3>5. ASSUME NEW m \in 1 .. Len(answers'), NEW k \in 1 .. Len(answers'), m < k
          PROVE  answers'[m].req < answers'[k].req
      <4>1. m \in 1 .. Len(answers)
        BY <1>2, <2>4, <2>5, <3>5
      <4>2. CASE k = Len(answers) + 1
        BY <1>4, <2>4, <2>9, <4>1, <4>2 DEF Due
      <4>3. CASE k \in 1 .. Len(answers)
        BY <1>0, <2>4, <3>5, <4>1, <4>3 DEF Histories, AnswersAreRight
      <4> QED
        BY <2>5, <4>2, <4>3
    <3> QED
      BY <3>1, <3>2, <3>3, <3>4, <3>5 DEF Histories, AnswersAreRight
  <2> QED
    BY <1>3, <1>4, <1>11, <1>12, <2>7, <2>8, <2>10, <2>11 DEF ServerInv
<1>14. CASE Len(got) + 1 # HdrSize + len
  <2>1. got' = frame /\ answers' = answers /\ Len(got') = Len(got) + 1
        /\ Len(got) + 1 < HdrSize + len
    BY <1>1, <1>2, <1>5, <1>6, <1>9, <1>10, <1>14
  <2>2. TypeOK'
    <3>1. Len(outq') <= portRoom
      BY <1>2, <1>8
    <3> QED
      BY <1>0, <1>1, <1>8, <1>9, <2>1, <3>1 DEF TypeOK
  <2>3. Filed' /\ Histories' /\ Due(n, rp)'
    BY <1>0, <1>1, <1>4, <2>1, Recorded
  <2>6. Asking'
    <3>1. \A k : Before(k)' = Before(k)
      BY <1>1, <2>1 DEF Before
    <3> QED
      BY <1>0, <1>1, <1>11, <3>1, AskingKept
  <2>4. Carried(n, rp)'
    <3>1. Len(got') + Len(outq') = Len(got) + Len(outq)
      BY <1>2, <1>8, <2>1
    <3>2. Stretch(got', msg, len, 0) /\ Stretch(outq', msg, len, Len(got'))
      BY <1>8, <1>9, <2>1
    <3> QED
      BY <1>1, <1>6, <2>1, <3>1, <3>2 DEF Carried, Stretch, msg, len
  <2>5. Replying'
    BY <1>1, <1>3, <2>3, <2>4 DEF Replying
  <2> QED
    BY <1>3, <1>4, <1>11, <2>2, <2>3, <2>4, <2>5, <2>6 DEF ServerInv
<1> QED
  BY <1>11, <1>13, <1>14

\* What the dispatch of rq, the n-th request, as the d-th of the log makes true.
Recording(n, d, rq, ch) ==
  /\ log' \in Seq([req : Nat, whole : BOOLEAN]) /\ ch \in Channel
  /\ d \in 1 .. Len(log') /\ log'[d].req = n
  /\ \A i \in 1 .. Len(log') : log'[i].req <= n
  /\ Filed' /\ Histories'
  /\ \A m \in 1 .. Len(requests), rp \in Response : Due(m, rp) => Due(m, rp)'
  /\ Replies(ch, rq) # << >> =>
       \E rp \in Response : rp = Replies(ch, rq)[1] /\ RightReply(d, rp)'

\* A request is dispatched: what that makes of the file, and of the histories.
LEMMA DispatchStep ==
  ASSUME TypeOK, Filed, Histories, NEW n \in 1 .. Len(requests),
         NEW d \in Nat, d = Len(log) + 1,
         NEW rq \in Request, rq = requests[n],
         NEW ch, ch = AfterRequest(channel, rq),
         \A i \in 1 .. Len(log) : log[i].req < n,
         log' = Append(log, [req |-> n, whole |-> TRUE]),
         channel' = ch, UNCHANGED <<requests, answers>>
  PROVE  Recording(n, d, rq, ch)
<1> DEFINE e == [req |-> n, whole |-> TRUE]
<1>1. /\ n \in Nat /\ n \in 1 .. n /\ Len(requests) \in Nat /\ Len(log) \in Nat /\ channel \in Channel
      /\ log \in Seq([req : Nat, whole : BOOLEAN])
  BY Lengths DEF TypeOK
<1>2. e \in [req : Nat, whole : BOOLEAN] /\ e.req = n /\ e.whole
  BY <1>1
<1> HIDE DEF e
<1>3. /\ log' \in Seq([req : Nat, whole : BOOLEAN]) /\ Len(log') = d
      /\ log'[d] = e /\ \A i \in 1 .. Len(log) : log'[i] = log[i]
  <2>1. log' = Append(log, e)
    BY DEF e
  <2> QED
    BY <1>1, <1>2, <2>1, AppendProperties
<1>4. \A i \in 1 .. d : i = d \/ i \in 1 .. Len(log)
  BY <1>1
<1>5. d \in 1 .. d /\ \A i \in 1 .. Len(log) : i \in 1 .. d
  BY <1>1
<1>6. ch \in Channel /\ rq.op \in Ops
  BY <1>1, AfterRequestFile, RequestType
<1>7. \A i \in 1 .. Len(log) :
        /\ \A f : FileAt(i, f) => FileAt(i, f)'
        /\ log[i].req # 0 => \A rp : RightReply(i, rp) => RightReply(i, rp)'
  <2>1. Len(log) <= Len(log') /\ Len(log') \in Nat
    BY <1>1, <1>3
  <2>2. \A i \in 1 .. Len(log) : log[i].req \in 0 .. Len(requests)
    BY DEF Histories
  <2> QED
    BY <1>1, <1>3, <2>1, <2>2, StaysRight
<1>8. Dispatched(d)' = rq /\ log'[d].req # 0
  BY <1>2, <1>3 DEF Dispatched
<1>9. (IsOpen(d)' <=> rq.op = "init") /\ (IsClose(d)' <=> rq.op = "close")
  BY <1>8 DEF IsOpen, IsClose
\* The file open now is that of the last dispatch to open one.
<1>10. ASSUME ch.file # NoFile PROVE FileAt(d, ch.file)'
  <2>1. ch.file = IF rq.op = "init" THEN Search(rq.name)
                                    ELSE IF rq.op = "close" THEN NoFile ELSE channel.file
    BY <1>1, AfterRequestFile
  <2>2. CASE rq.op = "init"
    <3>1. /\ IsOpen(d)' /\ Search(Dispatched(d)'.name) = ch.file
          /\ \A j \in d + 1 .. d : FALSE
      BY <1>8, <1>9, <2>1, <2>2
    <3> QED
      BY <1>5, <3>1 DEF FileAt
  <2>3. CASE rq.op # "init"
    <3>1. rq.op # "close" /\ channel.file = ch.file
      BY <1>10, <2>1, <2>3
    <3>2. FileAt(Len(log), ch.file)
      BY <1>10, <3>1 DEF Filed
    <3>l. PICK l \in Nat : l = Len(log)
      BY <1>1
    <3>a. 1 .. l # {}
      BY <3>2, <3>l DEF FileAt
    <3>3. FileAt(l, ch.file) /\ l \in 1 .. Len(log) /\ l + 1 = d
      BY <3>2, <3>l, <3>a
    <3>4. FileAt(l, ch.file)'
      BY <1>7, <3>3
    <3>5. PICK k \in 1 .. l :
            /\ IsOpen(k)' /\ Search(Dispatched(k)'.name) = ch.file
            /\ \A j \in k + 1 .. l : ~IsOpen(j)' /\ ~IsClose(j)'
      BY <3>4 DEF FileAt
    <3>6. \A j \in k + 1 .. d : j = d \/ j \in k + 1 .. l
      BY <3>3
    <3>7. \A j \in k + 1 .. d : ~IsOpen(j)' /\ ~IsClose(j)'
      BY <1>9, <2>3, <3>1, <3>5, <3>6
    <3>8. k \in 1 .. d
      BY <3>3
    <3> QED
      BY <3>5, <3>7, <3>8 DEF FileAt
  <2> QED
    BY <2>2, <2>3
<1>11. Filed'
  BY <1>3, <1>10 DEF Filed
<1>12. Histories'
  <2>1. /\ Len(requests') <= MaxRequests
        /\ \A m \in 1 .. Len(answers') : answers'[m].req \in 1 .. Len(requests')
    BY DEF Histories
  <2>2. \A i \in 1 .. Len(log') : log'[i].req \in 0 .. Len(requests')
    BY <1>1, <1>2, <1>3, <1>4 DEF Histories
  <2>3. DispatchesWhatWasSent'
    <3>1. \A i \in 1 .. Len(log') : log'[i].whole
      BY <1>2, <1>3, <1>4 DEF Histories, DispatchesWhatWasSent
    <3>2. ASSUME NEW i \in 1 .. Len(log'), NEW j \in 1 .. Len(log'),
                 i < j, log'[i].req # 0, log'[j].req # 0
          PROVE  log'[i].req < log'[j].req
      <4>1. i \in 1 .. Len(log)
        BY <1>1, <1>3, <1>4, <3>2
      <4>2. CASE j = d
        BY <1>2, <1>3, <4>1, <4>2
      <4>3. CASE j \in 1 .. Len(log)
        BY <1>3, <3>2, <4>1, <4>3 DEF Histories, DispatchesWhatWasSent
      <4> QED
        BY <1>3, <1>4, <4>2, <4>3
    <3> QED
      BY <3>1, <3>2 DEF DispatchesWhatWasSent
  <2>4. AnswersAreRight'
    <3>1. ASSUME NEW m \in 1 .. Len(answers)
          PROVE  \E i \in 1 .. Len(log') : /\ log'[i].req = answers[m].req /\ log'[i].req # 0
                                           /\ RightReply(i, answers[m].reply)'
      <4>1. PICK i \in 1 .. Len(log) : /\ log[i].req = answers[m].req /\ log[i].req # 0
                                       /\ RightReply(i, answers[m].reply)
        BY DEF Histories, AnswersAreRight
      <4> QED
        BY <1>3, <1>5, <1>7, <4>1
    <3> QED
      BY <3>1 DEF Histories, AnswersAreRight
  <2> QED
    BY <2>1, <2>2, <2>3, <2>4 DEF Histories
<1>13. ASSUME Replies(ch, rq) # << >>
       PROVE  \E rp \in Response : rp = Replies(ch, rq)[1] /\ RightReply(d, rp)'
  <2> PICK rp : rp = Replies(ch, rq)[1]
    OBVIOUS
  <2>1. /\ rp \in Response
        /\ \/ rq.op = "info" /\ rp.kind = "info"
           \/ /\ rq.op = "init" /\ rp.kind = "init"
              /\ rp.ok <=> Search(rq.name) # NoFile
              /\ rp.ok => RightFile(Search(rq.name), rp)
           \/ /\ rq.op = "read" /\ rp.kind = "block"
              /\ Len(rp.data) = rq.size
              /\ ch.file \in Files
              /\ \A k \in 1 .. Len(rp.data) :
                   rq.off + k <= FileLen[ch.file] =>
                     rp.data[k] = [file |-> ch.file, pos |-> rq.off + k]
    BY <1>1, <1>13, RepliesType
  <2>2. ch.file \in Files => FileAt(d, ch.file)'
    BY <1>10
  <2>3. CASE rq.op = "info" /\ rp.kind = "info"
    BY <1>8, <2>1, <2>3 DEF RightReply
  <2>4. CASE /\ rq.op = "init" /\ rp.kind = "init"
             /\ rp.ok <=> Search(rq.name) # NoFile
             /\ rp.ok => RightFile(Search(rq.name), rp)
    BY <1>8, <2>1, <2>4 DEF RightReply, RightFile
  <2>5. CASE /\ rq.op = "read" /\ rp.kind = "block"
             /\ Len(rp.data) = rq.size
             /\ ch.file \in Files
             /\ \A k \in 1 .. Len(rp.data) :
                  rq.off + k <= FileLen[ch.file] =>
                    rp.data[k] = [file |-> ch.file, pos |-> rq.off + k]
    <3>1. PICK f \in Files :
            /\ f = ch.file /\ FileAt(d, f)'
            /\ \A k \in 1 .. Len(rp.data) :
                 rq.off + k <= FileLen[f] => rp.data[k] = [file |-> f, pos |-> rq.off + k]
      BY <2>2, <2>5
    <3>2. PICK off \in Nat : off = rq.off
      BY RequestType
    <3>3. /\ Dispatched(d)'.op = "read" /\ Dispatched(d)'.off = off
          /\ Len(rp.data) = Dispatched(d)'.size
      BY <1>8, <2>5, <3>2
    <3>4. \A k \in 1 .. Len(rp.data) :
            off + k <= FileLen[f] => rp.data[k] = [file |-> f, pos |-> off + k]
      BY <3>1, <3>2
    <3>5. RightReply(d, rp)'
      <4>1. \A k \in 1 .. Len(rp.data) :
              Dispatched(d)'.off + k <= FileLen[f] =>
                rp.data[k] = [file |-> f, pos |-> Dispatched(d)'.off + k]
        BY <3>3, <3>4
      <4>2. rp.kind = "block"
        BY <2>5
      <4> QED
        BY <3>1, <3>3, <4>1, <4>2 DEF RightReply
    <3> QED
      BY <2>1, <3>5
  <2> QED
    BY <2>1, <2>3, <2>4, <2>5
<1>14. \A i \in 1 .. Len(log') : log'[i].req <= n
  <2>1. \A i \in 1 .. Len(log) : log[i].req \in 0 .. Len(requests) /\ log[i].req < n
    BY DEF Histories
  <2> QED
    BY <1>1, <1>2, <1>3, <1>4, <2>1
<1>15. ASSUME NEW m \in 1 .. Len(requests), NEW rp \in Response, Due(m, rp)
       PROVE  Due(m, rp)'
  <2>1. PICK i \in 1 .. Len(log) : log[i].req = m /\ RightReply(i, rp)
    BY <1>15 DEF Due
  <2>2. i \in 1 .. Len(log') /\ log'[i].req = m
    BY <1>3, <1>5, <2>1
  <2>3. m # 0
    BY <1>1
  <2>4. RightReply(i, rp)'
    BY <1>7, <2>1, <2>3
  <2> QED
    BY <1>15, <2>2, <2>4 DEF Due
<1> QED
  BY <1>1, <1>2, <1>3, <1>5, <1>6, <1>11, <1>12, <1>13, <1>14, <1>15 DEF Recording

\* An answer is put in tx_buffer, and nothing of it has gone.
LEMMA SendPacketStep ==
  ASSUME TypeOK, NEW n \in Nat, NEW rp \in Response, SendPacket(n, rp),
         Len(got) = 0, Len(outq) = 0, UNCHANGED <<requests, got, outq>>
  PROVE  /\ txBuf' \in Seq(ByteOf(Answer)) /\ txPos' \in 0 .. Len(txBuf') /\ txBusy' = TRUE
         /\ Carried(n, rp)'
<1> DEFINE msg == [req |-> n, reply |-> rp]
           len == ReplyLen(rp)
<1>1. txBuf' = Frame(msg, len) /\ txPos' = 0 /\ txBusy' = TRUE
  BY DEF SendPacket
<1>2. msg \in Answer /\ len \in Nat
  BY Lengths, ReplyLenType DEF Answer
<1>3. txBuf' \in Seq(ByteOf(Answer)) /\ Len(txBuf') = HdrSize + len
  <2> HIDE DEF msg, len
  <2> QED
    BY <1>1, <1>2, FrameType
<1>4. txPos' \in 0 .. Len(txBuf')
  BY <1>1, <1>2, <1>3
<1>5. 0 < HdrSize + len /\ Len(got') = 0 /\ Len(outq') = 0 /\ Len(got') + Len(outq') = 0
  BY <1>2
<1>6. Stretch(got', msg, len, 0) /\ Stretch(outq', msg, len, Len(got'))
  BY <1>5 DEF Stretch
<1>7. Carried(n, rp)'
  BY <1>1, <1>5, <1>6 DEF Carried, Stretch
<1> QED
  BY <1>1, <1>3, <1>4, <1>7


\* A read takes the server some way into the first of the requests in the row:
\* then nothing happens.
Partial(first) ==
  /\ pc' = "input" /\ Stream' = Stream
  /\ rxBuf' # <<>> => Len(rxBuf') < Size(requests, first)
  /\ UNCHANGED <<txBuf, txPos, txBusy, channel, log>>

\* Or to its end, or past it: then it is dispatched.
Whole(first) ==
  /\ log' = Append(log, [req |-> first, whole |-> TRUE])
  /\ channel' = AfterRequest(channel, requests[first])
  /\ IF Replies(channel', requests[first]) = <<>>
       THEN UNCHANGED txVars
       ELSE SendPacket(first, Replies(channel', requests[first])[1])
  /\ \/ /\ pc' = "input" /\ rxBuf' = <<>>
        /\ Stream' = SubSeq(Stream, Size(requests, first) + 1, Len(Stream))
     \/ pc' = "crashed" /\ Size(requests, first) < Len(Stream)

LEMMA InputReadCases ==
  ASSUME ServerInv, InputRead
  PROVE  /\ pc = "input" /\ ~hup
         /\ UNCHANGED <<requests, toSend, got, answers, lost, portRoom, outq, hup, breaks>>
         /\ rxBuf' \in Seq(ByteOf(Nat)) /\ Len(rxBuf') <= RxBufSize
         /\ inq' \in Seq(ByteOf(Nat))
         /\ \E first \in 1 .. Len(requests) :
              Awaiting(first) /\ (Partial(first) \/ Whole(first))
<1>0. TypeOK /\ Asking
  BY DEF ServerInv
<1> PICK j : j = InputRoom(Len(inq))
  OBVIOUS
<1> DEFINE buf == rxBuf \o SubSeq(inq, 1, j)
<1>1. /\ pc = "input" /\ ~hup /\ j > 0 /\ inq' = SubSeq(inq, j + 1, Len(inq))
      /\ IF Complete(buf) THEN ProcessPacket(buf, PacketLen(buf))
                          ELSE UNCHANGED <<txVars, channel, log>>
      /\ rxBuf' = RxLeft(buf)
      /\ pc' = IF Excess(buf) THEN "crashed" ELSE pc
      /\ UNCHANGED <<requests, toSend, got, answers, lost, portRoom, outq, hup, breaks>>
  BY DEF InputRead, clientVars
<1>2. /\ Len(requests) \in Nat /\ Len(rxBuf) \in Nat /\ Len(inq) \in Nat
      /\ requests \in Seq(Request) /\ rxBuf \in Seq(ByteOf(Nat)) /\ inq \in Seq(ByteOf(Nat))
      /\ toSend \in Seq(ByteOf(Nat)) /\ Stream \in Seq(ByteOf(Nat)) /\ Len(rxBuf) <= RxBufSize
      /\ Len(Stream) = Len(rxBuf) + Len(inq) + Len(toSend) /\ Len(toSend) \in Nat
      /\ RxBufSize \in Nat
  BY <1>0, Lengths, StreamType DEF TypeOK
<1>3. j \in 1 .. Len(inq) /\ j \in 0 .. Len(inq) /\ Len(rxBuf) + j <= RxBufSize
  BY <1>1, <1>2 DEF InputRoom
<1>4. PICK first \in Nat : Awaiting(first)
  BY <1>0, <1>1 DEF Asking
<1>5. InRow(requests, Stream, first) /\ Stream # <<>>
  <2>1. Len(Stream) # 0
    BY <1>2, <1>3
  <2> QED
    BY <1>4, <2>1 DEF Awaiting
<1>6. /\ first \in 1 .. Len(requests) /\ Size(requests, first) <= Len(Stream)
      /\ \A k \in 1 .. Size(requests, first) : Stream[k] = RqByte(requests, first, k)
  BY <1>2, <1>5, RowFirst
<1> PICK size : size = Size(requests, first)
  OBVIOUS
<1> PICK len : len = RequestLen(requests[first])
  OBVIOUS
<1>7. len \in {1, 2} /\ len \in Nat /\ size = HdrSize + len /\ size \in Nat /\ HdrSize \in Nat \ {0}
  BY <1>2, <1>6, SizeType DEF Size
\* Where the read cuts the stream.
<1> PICK t : t = SubSeq(inq, 1, j)
  OBVIOUS
<1> PICK rest : rest = Joined(inq', toSend)
  OBVIOUS
<1>8. /\ t \in Seq(ByteOf(Nat)) /\ Len(t) = j
      /\ inq' \in Seq(ByteOf(Nat))
  BY <1>1, <1>2, <1>3, Cut, SMTT(30)
<1>9. buf = rxBuf \o t
  OBVIOUS
<1> HIDE DEF buf
<1>10. buf \in Seq(ByteOf(Nat)) /\ Len(buf) = Len(rxBuf) + j /\ rest \in Seq(ByteOf(Nat))
  BY <1>2, <1>8, <1>9, ConcatProperties DEF Joined
<1>11. Stream = Bytes(buf, inq', toSend) /\ Stream = Joined(buf, rest)
  <2>1. Stream = Bytes(rxBuf, inq, toSend)
    BY Zenon DEF Stream, Bytes
  <2>2. Bytes(rxBuf \o SubSeq(inq, 1, j), SubSeq(inq, j + 1, Len(inq)), toSend)
          = Bytes(rxBuf, inq, toSend)
    BY <1>2, <1>3, SameStream
  <2>3. Bytes(buf, inq', toSend) = Bytes(rxBuf, inq, toSend)
    BY <1>1, <2>2 DEF buf
  <2>4. Bytes(buf, inq', toSend) = Joined(buf, Joined(inq', toSend))
    <3>1. PICK q : q = inq'
      OBVIOUS
    <3>2. q \in Seq(ByteOf(Nat))
      BY <1>8, <3>1
    <3>3. Bytes(buf, q, toSend) = Joined(buf, Joined(q, toSend))
      BY <1>2, <1>10, <3>2, SameStream
    <3> QED
      BY <3>1, <3>3
  <2> QED
    BY <2>1, <2>3, <2>4
<1>12. /\ \A k \in 1 .. Len(buf) : Stream[k] = buf[k]
       /\ Behind(Stream, Len(buf)) = rest
       /\ Len(Stream) = Len(buf) + Len(rest)
  <2>1. buf \in Seq(ByteOf(Nat)) /\ rest \in Seq(ByteOf(Nat)) /\ Stream = Joined(buf, rest)
    BY <1>10, <1>11
  <2>2. \A k \in 1 .. Len(buf) : Joined(buf, rest)[k] = buf[k]
    BY <2>1, ConcatProperties DEF Joined
  <2>3. Behind(Joined(buf, rest), Len(buf)) = rest
    BY <2>1, CutAgain
  <2>4. Len(Joined(buf, rest)) = Len(buf) + Len(rest)
    BY <2>1, ConcatProperties DEF Joined
  <2> QED
    BY <2>1, <2>2, <2>3, <2>4, Zenon
<1>13. Len(buf) \in Nat /\ Len(buf) >= 1 /\ Len(buf) <= RxBufSize /\ Len(rest) \in Nat
  BY <1>2, <1>3, <1>10, SMTT(30)
<1>14. buf[1].msg = first /\ PacketLen(buf) = size
  <2>1. 1 \in 1 .. Len(buf) /\ 1 \in 1 .. size
    BY <1>7, <1>13
  <2>2. buf[1] = RqByte(requests, first, 1)
    BY <1>6, <1>12, <2>1
  <2> QED
    BY <1>7, <2>2 DEF RqByte, PacketLen
<1>15. /\ rxBuf' \in Seq(ByteOf(Nat)) /\ Len(rxBuf') <= RxBufSize
  BY <1>1, <1>2, <1>10, <1>13, EmptySeq DEF RxLeft
\* The packet is not complete.
<1>16. CASE Len(buf) < size
  <2>1. ~Complete(buf) /\ RxLeft(buf) = buf /\ ~Excess(buf)
    BY <1>7, <1>13, <1>14, <1>16 DEF Complete, RxLeft, Excess
  <2>2. Stream' = Stream
    <3>1. Bytes(rxBuf', inq', toSend') = Stream
      BY <1>1, <1>11, <2>1
    <3> QED
      BY <3>1, Zenon DEF Stream, Bytes
  <2>3. Partial(first)
    BY <1>1, <1>16, <2>1, <2>2 DEF Partial, txVars
  <2> QED
    BY <1>1, <1>4, <1>6, <1>8, <1>15, <2>3
\* It is: what comes behind it is in the port, or on its way.
<1>17. CASE Len(buf) >= size
  <2> PICK rq : rq = requests[first]
    OBVIOUS
  <2>1. Complete(buf)
    BY <1>7, <1>13, <1>14, <1>17 DEF Complete
  <2>2. SubSeq(buf, 1, size) = Frame(first, len)
    <3> DEFINE p == SubSeq(buf, 1, size)
               f == Frame(first, len)
    <3>1. /\ p \in Seq(ByteOf(Nat)) /\ Len(p) = size
          /\ \A k \in 1 .. size : p[k] = buf[k]
      <4>1. size \in 0 .. Len(buf) /\ buf \in Seq(ByteOf(Nat))
        BY <1>7, <1>10, <1>13, <1>17
      <4> QED
        BY <4>1
    <3>2. /\ f \in Seq(ByteOf(Nat)) /\ Len(f) = size
          /\ \A k \in 1 .. size : f[k] = RqByte(requests, first, k)
      <4>1. f \in Seq(ByteOf(Nat)) /\ Len(f) = size
        BY <1>6, <1>7, FrameType
      <4>2. \A k \in 1 .. HdrSize + len : f[k] = [msg |-> first, len |-> len, off |-> k - 1]
        BY DEF Frame
      <4> QED
        BY <1>7, <4>1, <4>2 DEF RqByte
    <3>3. \A k \in 1 .. size : buf[k] = RqByte(requests, first, k)
      <4>1. \A k \in 1 .. size : k \in 1 .. Len(buf) /\ k \in 1 .. Size(requests, first)
        BY <1>7, <1>13, <1>17
      <4> QED
        BY <1>6, <1>12, <4>1
    <3> HIDE DEF p, f
    <3>4. \A k \in 1 .. size : p[k] = f[k]
      BY <3>1, <3>2, <3>3
    <3>5. p = f
      BY <3>1, <3>2, <3>4, SeqEqual
    <3> QED
      BY <3>5 DEF p, f
  <2>3. /\ log' = Append(log, [req |-> first, whole |-> TRUE])
        /\ channel' = AfterRequest(channel, rq)
        /\ IF Replies(channel', rq) = <<>> THEN UNCHANGED txVars
                                           ELSE SendPacket(first, Replies(channel', rq)[1])
    <3> DEFINE w == Len(buf) >= size /\ SubSeq(buf, 1, size) = Frame(first, RequestLen(rq))
    <3>1. /\ log' = Append(log, [req |-> first, whole |-> w])
          /\ channel' = AfterRequest(channel, rq)
          /\ IF Replies(channel', rq) = <<>> THEN UNCHANGED txVars
                                             ELSE SendPacket(first, Replies(channel', rq)[1])
      BY <1>1, <1>14, <2>1 DEF ProcessPacket
    <3>2. w = TRUE
      BY <1>17, <2>2
    <3> HIDE DEF w
    <3> QED
      BY <3>1, <3>2
  <2>4. CASE Len(buf) = size
    <3>1. rxBuf' = <<>> /\ pc' = "input"
      BY <1>1, <1>7, <1>13, <1>14, <2>4 DEF RxLeft, Excess
    <3>2. Stream' = SubSeq(Stream, size + 1, Len(Stream))
      <4>1. Stream' = (<<>> \o inq') \o toSend
        BY <1>1, <3>1, Zenon DEF Stream
      <4>2. <<>> \o inq' = inq'
        BY <1>8, ConcatEmptySeq
      <4> QED
        BY <1>1, <1>12, <2>4, <4>1, <4>2 DEF Joined, Behind
    <3>3. Whole(first)
      BY <2>3, <3>1, <3>2 DEF Whole
    <3> QED
      BY <1>1, <1>4, <1>6, <1>8, <1>15, <3>3
  <2>5. CASE Len(buf) > size
    <3>1. pc' = "crashed"
      BY <1>1, <1>7, <1>13, <1>14, <2>5 DEF Excess
    <3>2. size < Len(Stream)
      BY <1>7, <1>12, <1>13, <2>5
    <3>3. Whole(first)
      BY <2>3, <3>1, <3>2 DEF Whole
    <3> QED
      BY <1>1, <1>4, <1>6, <1>8, <1>15, <3>3
  <2> QED
    BY <1>7, <1>13, <1>17, <2>4, <2>5
<1> QED
  BY <1>7, <1>13, <1>16, <1>17

\* The server reads some of a request, and dispatches it if that is all of it.
LEMMA InputReadStep ==
  ASSUME ServerInv, InputRead
  PROVE  ServerInv'
<1>0. TypeOK /\ Asking /\ Replying /\ Looping /\ Filed /\ Histories
  BY DEF ServerInv
<1>1. /\ pc = "input"
      /\ UNCHANGED <<requests, toSend, got, answers, lost, portRoom, outq, hup, breaks>>
      /\ rxBuf' \in Seq(ByteOf(Nat)) /\ Len(rxBuf') <= RxBufSize
      /\ inq' \in Seq(ByteOf(Nat))
  BY InputReadCases
<1>2. PICK first \in 1 .. Len(requests) : Awaiting(first) /\ (Partial(first) \/ Whole(first))
  BY InputReadCases
<1>3. /\ Len(requests) \in Nat /\ Len(log) \in Nat /\ first \in Nat /\ first + 1 \in Nat
      /\ requests \in Seq(Request) /\ Stream \in Seq(ByteOf(Nat)) /\ Len(answers) \in Nat
      /\ Len(got) \in Nat /\ Len(outq) \in Nat
  BY <1>0, Lengths, StreamType
<1>4. InRow(requests, Stream, first) /\ Before(first) /\ OneDue(first)
  BY <1>2 DEF Awaiting
<1>5. CASE Partial(first)
  <2>1. /\ pc' = "input" /\ Stream' = Stream
        /\ rxBuf' # <<>> => Len(rxBuf') < Size(requests, first)
        /\ UNCHANGED <<txBuf, txPos, txBusy, channel, log>>
    BY <1>5 DEF Partial
  <2>2. TypeOK'
    BY <1>0, <1>1, <2>1 DEF TypeOK
  <2>3. Awaiting(first)'
    <3>1. InRow(requests', Stream', first)
      BY <1>1, <1>4, <2>1
    <3>2. Before(first)' /\ Answering' = Answering
      BY <1>1, <1>4, <2>1 DEF Before, Answering
    <3>3. OneDue(first)'
      BY <1>1, <1>4, <3>2 DEF OneDue
    <3> QED
      BY <1>1, <2>1, <3>1, <3>2, <3>3 DEF Awaiting
  <2>4. Asking'
    BY <1>3, <2>3 DEF Asking
  <2>5. Filed' /\ Histories' /\ \A n, rp : Due(n, rp) => Due(n, rp)'
    BY <1>0, <1>1, <2>1, Recorded
  <2>6. Replying' /\ Looping'
    <3>1. \A n, rp : Carried(n, rp) => Carried(n, rp)'
      BY <1>1, <2>1 DEF Carried, Stretch
    <3>2. Answering' = Answering
      BY <1>1, <2>1 DEF Answering
    <3> QED
      BY <1>0, <1>1, <2>1, <2>5, <3>1, <3>2 DEF Replying, Looping
  <2> QED
    BY <2>2, <2>4, <2>5, <2>6 DEF ServerInv
<1>6. CASE Whole(first)
  <2>k. PICK rq : rq = requests[first]
    OBVIOUS
  <2>c. PICK ch : ch = AfterRequest(channel, rq)
    OBVIOUS
  <2>d. PICK d \in Nat : d = Len(log) + 1
    BY <1>3
  <2>1. /\ log' = Append(log, [req |-> first, whole |-> TRUE]) /\ channel' = ch
        /\ Replies(ch, rq) = <<>> => UNCHANGED <<txBuf, txPos, txBusy>>
        /\ Replies(ch, rq) # <<>> => SendPacket(first, Replies(ch, rq)[1])
    BY <1>6, <2>k, <2>c DEF Whole, txVars
  <2>2. \/ /\ pc' = "input" /\ rxBuf' = <<>>
           /\ Stream' = SubSeq(Stream, Size(requests, first) + 1, Len(Stream))
        \/ pc' = "crashed"
    BY <1>6 DEF Whole
  <2>3. rq \in Request
    BY <1>0, <2>k, Lengths
  <2>4. \A i \in 1 .. Len(log) : log[i].req < first
    BY <1>4 DEF Before
  <2>5. /\ log' \in Seq([req : Nat, whole : BOOLEAN]) /\ ch \in Channel
        /\ d \in 1 .. Len(log') /\ log'[d].req = first
        /\ \A i \in 1 .. Len(log') : log'[i].req <= first
        /\ Filed' /\ Histories'
        /\ \A m \in 1 .. Len(requests), rp \in Response : Due(m, rp) => Due(m, rp)'
        /\ Replies(ch, rq) # << >> =>
             \E rp \in Response : rp = Replies(ch, rq)[1] /\ RightReply(d, rp)'
    <3>1. /\ TypeOK /\ Filed /\ Histories /\ UNCHANGED <<requests, answers>>
          /\ first \in 1 .. Len(requests) /\ d \in Nat /\ rq \in Request
      BY <1>0, <1>1, <1>2, <2>d, <2>3
    <3>2. /\ d = Len(log) + 1 /\ rq = requests[first] /\ ch = AfterRequest(channel, rq)
          /\ log' = Append(log, [req |-> first, whole |-> TRUE]) /\ channel' = ch
      BY <2>k, <2>c, <2>d, <2>1
    <3>3. Recording(first, d, rq, ch)
      BY <2>4, <3>1, <3>2, DispatchStep, ZenonT(30)
    <3> QED
      BY <3>3 DEF Recording
\* If it is answered, no other request is to be, and nothing is being answered.
  <2>6. Replies(ch, rq) # << >> =>
          ~Answering /\ \A m \in first + 1 .. Len(requests) : Silent(requests[m])
    <3> SUFFICES ASSUME Replies(ch, rq) # << >>
                 PROVE  ~Answering /\ \A m \in first + 1 .. Len(requests) : Silent(requests[m])
      OBVIOUS
    <3>1. ~Silent(rq)
      BY DEF Replies, Silent
    <3>2. first \in first .. Len(requests)
      BY <1>3
    <3>3. ~Answering /\ \A m \in first .. Len(requests) : m = first \/ Silent(requests[m])
      BY <1>4, <2>k, <3>1, <3>2 DEF OneDue
    <3>4. \A m \in first + 1 .. Len(requests) : m \in first .. Len(requests) /\ m # first
      BY <1>3
    <3> QED
      BY <3>3, <3>4
  <2>7. Replies(ch, rq) = << >> => Answering' = Answering
    BY <1>1, <2>1 DEF Answering
  <2>8. Asking'
    <3> SUFFICES ASSUME pc' # "crashed" PROVE \E n \in Nat : Awaiting(n)'
      BY DEF Asking
    <3>1. rxBuf' = <<>> /\ Stream' = SubSeq(Stream, Size(requests, first) + 1, Len(Stream))
      BY <2>2
    <3>2. InRow(requests', Stream', first + 1)
      <4>1. Stream # <<>>
        <5>1. Stream = <<>> <=> first = Len(requests) + 1
          BY <1>3, <1>4, RowBytes
        <5> QED
          BY <1>3, <5>1
      <4>2. InRow(requests, SubSeq(Stream, Size(requests, first) + 1, Len(Stream)), first + 1)
        BY <1>3, <1>4, <4>1, RowFirst
      <4> QED
        BY <1>1, <3>1, <4>2
    <3>3. Before(first + 1)'
      <4>1. \A i \in 1 .. Len(log') : log'[i].req < first + 1
        <5>1. \A i \in 1 .. Len(log') : log'[i].req \in 0 .. Len(requests')
          BY <2>5 DEF Histories
        <5>2. \A i \in 1 .. Len(log') : log'[i].req <= first
          BY <2>5
        <5>3. Len(requests') \in Nat
          BY <1>1, <1>3
        <5>4. \A a \in 0 .. Len(requests') : a <= first => a < first + 1
          BY <1>3, <5>3
        <5> QED
          BY <5>1, <5>2, <5>4
      <4>2. \A m \in 1 .. Len(answers) : answers[m].req < first + 1
        <5>1. \A m \in 1 .. Len(answers) : answers[m].req \in 1 .. Len(requests)
          BY <1>0 DEF Histories
        <5>2. \A m \in 1 .. Len(answers) : answers[m].req < first
          BY <1>4 DEF Before
        <5> QED
          BY <1>3, <5>1, <5>2
      <4> QED
        BY <1>1, <4>1, <4>2 DEF Before
    <3>4. OneDue(first + 1)'
      <4>1. CASE Replies(ch, rq) = <<>>
        <5>1. \A k \in first + 1 .. Len(requests) : k \in first .. Len(requests)
          BY <1>3
        <5> QED
          BY <1>1, <1>4, <2>7, <4>1, <5>1 DEF OneDue
      <4>2. CASE Replies(ch, rq) # <<>>
        BY <1>1, <2>6, <4>2 DEF OneDue
      <4> QED
        BY <4>1, <4>2
    <3>5. Awaiting(first + 1)'
      BY <3>1, <3>2, <3>3, <3>4 DEF Awaiting
    <3> QED
      BY <1>3, <3>5
  <2>9. Looping' /\ pc' \in {"input", "crashed"}
    BY <2>2 DEF Looping
  <2>10. CASE Replies(ch, rq) = <<>>
    <3>1. TypeOK'
      BY <1>0, <1>1, <2>1, <2>5, <2>9, <2>10 DEF TypeOK
    <3>2. Replying'
      <4>1. \A n, rp : Carried(n, rp) => Carried(n, rp)'
        BY <1>1, <2>1, <2>10 DEF Carried, Stretch
      <4> QED
        BY <1>0, <1>1, <2>5, <2>7, <2>10, <4>1 DEF Replying
    <3> QED
      BY <2>5, <2>8, <2>9, <3>1, <3>2 DEF ServerInv
  <2>11. CASE Replies(ch, rq) # <<>>
    <3>1. PICK rp \in Response : rp = Replies(ch, rq)[1] /\ RightReply(d, rp)'
      BY <2>5, <2>11
    <3>2. Len(got) = 0 /\ Len(outq) = 0
      BY <2>6, <2>11 DEF Answering
    <3>3. /\ txBuf' \in Seq(ByteOf(Answer)) /\ txPos' \in 0 .. Len(txBuf')
          /\ txBusy' = TRUE /\ Carried(first, rp)'
      <4>1. SendPacket(first, rp)
        BY <2>1, <2>11, <3>1
      <4> QED
        BY <1>0, <1>1, <1>3, <3>2, <4>1, SendPacketStep
    <3>4. TypeOK'
      BY <1>0, <1>1, <2>1, <2>5, <2>9, <3>3 DEF TypeOK
    <3>5. Due(first, rp)'
      BY <1>1, <1>4, <2>5, <3>1 DEF Due, Before
    <3>6. Replying'
      BY <1>1, <3>3, <3>5 DEF Replying
    <3> QED
      BY <2>5, <2>8, <2>9, <3>4, <3>6 DEF ServerInv
  <2> QED
    BY <2>10, <2>11
<1> QED
  BY <1>2, <1>5, <1>6
\* The port takes some of an answer, or the last of it.
LEMMA OutputWriteStep ==
  ASSUME ServerInv, OutputWrite
  PROVE  /\ ServerInv' /\ Stream' = Stream
         /\ \E n \in Nat, rp \in Response : Carried(n, rp) /\ Carried(n, rp)'
<1> DEFINE room == portRoom - Len(outq)
<1>0. TypeOK /\ Asking /\ Replying /\ Looping /\ Filed /\ Histories
  BY DEF ServerInv
<1>k. PICK k : k = IF Len(TxRest) <= room THEN Len(TxRest) ELSE room
  OBVIOUS
<1>1. /\ pc = "output" /\ Len(outq) < portRoom
      /\ outq' = outq \o SubSeq(TxRest, 1, k)
      /\ txPos' = txPos + k
      /\ txBusy' = (txPos + k # Len(txBuf))
      /\ pc' = IF txBusy' THEN "output" ELSE "poll"
      /\ UNCHANGED <<requests, toSend, got, answers, lost, portRoom, inq, hup, breaks, rxBuf,
                     txBuf, channel, log>>
  BY <1>k DEF OutputWrite, clientVars
<1>2. /\ Len(requests) \in Nat /\ Len(got) \in Nat /\ Len(outq) \in Nat
      /\ outq \in Seq(ByteOf(Answer)) /\ portRoom \in Nat
      /\ txPos \in 0 .. Len(txBuf) /\ Len(txBuf) \in Nat
      /\ txBuf \in Seq(ByteOf(Answer))
  BY <1>0, Lengths DEF TypeOK
<1>3. txBusy
  BY <1>0, <1>1 DEF Looping
<1>4. PICK n \in 1 .. Len(requests), rp \in Response : Carried(n, rp) /\ Due(n, rp)
  BY <1>0, <1>3 DEF Replying, Answering
<1> DEFINE msg == [req |-> n, reply |-> rp]
           len == ReplyLen(rp)
<1>5. msg \in Answer /\ len \in Nat
  <2>1. n \in Nat
    BY <1>2
  <2> QED
    BY <2>1, ReplyLenType DEF Answer
<1>6. /\ Len(got) < HdrSize + len
      /\ Stretch(got, msg, len, 0) /\ Stretch(outq, msg, len, Len(got))
      /\ txBuf = Frame(msg, len)
      /\ txPos = Len(got) + Len(outq) /\ txPos < HdrSize + len
  BY <1>3, <1>4 DEF Carried
<1> HIDE DEF msg, len
<1>7. Len(txBuf) = HdrSize + len /\ Stretch(txBuf, msg, len, 0)
  BY <1>5, <1>6, FrameType
\* What is left of it, and what the port takes of that.
<1>8. /\ TxRest \in Seq(ByteOf(Answer)) /\ Len(TxRest) = Len(txBuf) - txPos
      /\ Stretch(TxRest, msg, len, txPos)
  <2>0. PICK from \in Nat : from = 0
    OBVIOUS
  <2>1. Stretch(txBuf, msg, len, from)
    BY <1>7, <2>0
  <2>2. /\ SubSeq(txBuf, txPos + 1, Len(txBuf)) \in Seq(ByteOf(Answer))
        /\ Len(SubSeq(txBuf, txPos + 1, Len(txBuf))) = Len(txBuf) - txPos
        /\ Stretch(SubSeq(txBuf, txPos + 1, Len(txBuf)), msg, len, from + txPos)
    BY <1>2, <2>1, StretchSplit
  <2>3. from + txPos = txPos
    BY <1>2, <2>0
  <2> QED
    BY <2>2, <2>3 DEF TxRest
<1>9. k \in 1 .. Len(TxRest) /\ k <= room
  <2>1. room \in Nat /\ room > 0
    BY <1>1, <1>2
  <2>2. Len(TxRest) \in Nat /\ Len(TxRest) > 0
    <3>1. Len(txBuf) \in Nat /\ txPos \in Nat /\ txPos < Len(txBuf)
      BY <1>2, <1>6, <1>7
    <3> QED
      BY <1>8, <3>1
  <2> HIDE DEF room
  <2> QED
    BY <1>k, <2>1, <2>2
<1> DEFINE t == SubSeq(TxRest, 1, k)
<1>10. t \in Seq(ByteOf(Answer)) /\ Len(t) = k /\ Stretch(t, msg, len, txPos)
  <2>1. k \in 0 .. Len(TxRest) /\ txPos \in Nat /\ TxRest \in Seq(ByteOf(Answer))
    BY <1>2, <1>8, <1>9
  <2>2. Stretch(TxRest, msg, len, txPos)
    BY <1>8
  <2>3. /\ SubSeq(TxRest, 1, k) \in Seq(ByteOf(Answer)) /\ Len(SubSeq(TxRest, 1, k)) = k
        /\ Stretch(SubSeq(TxRest, 1, k), msg, len, txPos)
    BY <2>1, <2>2, StretchSplit
  <2> QED
    BY <2>3
<1>11. outq' = outq \o t
  BY <1>1
<1> HIDE DEF t
<1>12. /\ outq' \in Seq(ByteOf(Answer)) /\ Len(outq') = Len(outq) + k
       /\ Stretch(outq', msg, len, Len(got))
  <2>1. Stretch(t, msg, len, Len(got) + Len(outq)) /\ Stretch(outq, msg, len, Len(got))
    BY <1>6, <1>10
  <2>2. t \in Seq(ByteOf(Answer)) /\ Len(t) = k
    BY <1>10
  <2>3. /\ outq \o t \in Seq(ByteOf(Answer)) /\ Len(outq \o t) = Len(outq) + Len(t)
        /\ Stretch(outq \o t, msg, len, Len(got))
    BY <1>2, <2>1, <2>2, StretchJoin
  <2> QED
    BY <1>11, <2>2, <2>3
<1>13. /\ txPos' = Len(got) + Len(outq') /\ txPos' \in 0 .. Len(txBuf')
       /\ txPos' <= HdrSize + len /\ Len(outq') <= portRoom
  <2>1. /\ k \in Nat /\ k <= portRoom - Len(outq) /\ k <= HdrSize + len - txPos
        /\ HdrSize + len \in Nat
    BY <1>2, <1>5, <1>7, <1>8, <1>9
  <2>2. txPos' = txPos + k /\ Len(outq') = Len(outq) + k /\ txPos = Len(got) + Len(outq)
    BY <1>1, <1>6, <1>12
  <2>3. Len(txBuf') = HdrSize + len
    BY <1>1, <1>7
  <2>4. /\ txPos \in Nat /\ Len(outq) \in Nat /\ Len(got) \in Nat /\ portRoom \in Nat
        /\ len \in Nat /\ Len(outq') \in Nat
    BY <1>2, <1>5, <1>12
  <2>5. Len(outq') <= portRoom
    BY <2>1, <2>2, <2>4
  <2>6. txPos' = Len(got) + Len(outq')
    BY <2>1, <2>2, <2>4
  <2>7. txPos' \in Nat /\ txPos' <= HdrSize + len
    BY <2>1, <2>2, <2>4
  <2> QED
    BY <2>1, <2>3, <2>5, <2>6, <2>7
<1>14. /\ txBusy' \in BOOLEAN /\ pc' \in {"output", "poll"}
       /\ txBusy' => pc' = "output" /\ txPos' < HdrSize + len
       /\ ~txBusy' => pc' = "poll" /\ txPos' = HdrSize + len
  <2>1. CASE txPos + k = Len(txBuf)
    <3>1. txBusy' = FALSE /\ pc' = "poll" /\ txPos' = HdrSize + len
      BY <1>1, <1>7, <2>1
    <3> QED
      BY <3>1
  <2>2. CASE txPos + k # Len(txBuf)
    <3>1. txBusy' = TRUE /\ pc' = "output" /\ txPos' # HdrSize + len
      BY <1>1, <1>7, <2>2
    <3>2. txPos' \in Nat /\ HdrSize + len \in Nat
      BY <1>1, <1>2, <1>5, <1>13
    <3> QED
      BY <1>13, <3>1, <3>2
  <2> QED
    BY <2>1, <2>2
<1>15. TypeOK'
  BY <1>0, <1>1, <1>12, <1>13, <1>14 DEF TypeOK
<1>16. Asking' /\ Looping' /\ Stream' = Stream
  <2>1. Stream' = Stream /\ Answering /\ \A m : Before(m)' = Before(m)
    BY <1>1, <1>3 DEF Stream, Answering, Before
  <2>2. pc # "crashed"
    BY <1>1
  <2>3. Asking'
    BY <1>0, <1>1, <2>1, <2>2, AskingKept
  <2> QED
    BY <1>14, <2>1, <2>3 DEF Looping
<1>17. Filed' /\ Histories' /\ Due(n, rp)'
  BY <1>0, <1>1, <1>4, Recorded
<1>18. Carried(n, rp)'
  <2>1. Len(got') < HdrSize + len /\ Stretch(got', msg, len, 0)
        /\ Stretch(outq', msg, len, Len(got'))
    BY <1>1, <1>6, <1>12
  <2>2. txBusy' => /\ txBuf' = Frame(msg, len)
                   /\ txPos' = Len(got') + Len(outq') /\ txPos' < HdrSize + len
    BY <1>1, <1>6, <1>13, <1>14
  <2>3. ~txBusy' => Len(got') + Len(outq') = HdrSize + len
    BY <1>1, <1>13, <1>14
  <2> QED
    BY <1>1, <2>1, <2>2, <2>3 DEF Carried, Stretch, msg, len
<1>19. Replying'
  BY <1>1, <1>4, <1>17, <1>18 DEF Replying
<1> QED
  BY <1>4, <1>15, <1>16, <1>17, <1>18, <1>19 DEF ServerInv

\* A step that moves no bytes and records nothing.
LEMMA LoopStep ==
  ASSUME ServerInv, pc' \in {"poll", "input", "output", "crashed"},
         pc' = "crashed" <=> pc = "crashed", pc' = "output" => txBusy,
         UNCHANGED <<clientVars, portVars, rxBuf, txVars, channel, log>>
  PROVE  ServerInv' /\ Stream' = Stream
<1>0. TypeOK /\ Asking /\ Replying /\ Looping /\ Filed /\ Histories
  BY DEF ServerInv
<1>1. UNCHANGED <<requests, toSend, got, answers, lost, portRoom, inq, outq, hup, breaks, rxBuf,
                  txBuf, txPos, txBusy, channel, log>>
  BY DEF clientVars, portVars, txVars
<1>2. TypeOK' /\ Looping'
  BY <1>0, <1>1 DEF TypeOK, Looping
<1>3. /\ Filed' /\ Histories'
      /\ \A n, rp : Due(n, rp) => Due(n, rp)'
  BY <1>0, <1>1, Recorded
<1>4. Asking' /\ Stream' = Stream
  <2>1. Stream' = Stream /\ Answering' = Answering /\ \A n : Before(n)' = Before(n)
    BY <1>1 DEF Stream, Answering, Before
  <2> QED
    BY <1>0, <1>1, <2>1, AskingKept
<1>5. Replying'
  <2>1. \A n, rp : Carried(n, rp) => Carried(n, rp)'
    BY <1>1 DEF Carried, Stretch
  <2>2. Answering' = Answering
    BY <1>1 DEF Answering
  <2> QED
    BY <1>0, <1>1, <1>3, <2>1, <2>2 DEF Replying
<1> QED
  BY <1>2, <1>3, <1>4, <1>5 DEF ServerInv


-----------------------------------------------------------------------------
(* The invariant holds *)

LEMMA ServerInit == Init => ServerInv
<1> SUFFICES ASSUME Init PROVE ServerInv
  OBVIOUS
<1>1. /\ requests = <<>> /\ toSend = <<>> /\ got = <<>> /\ answers = <<>> /\ lost = {}
      /\ portRoom \in PortRooms
      /\ inq = <<>> /\ outq = <<>> /\ hup = FALSE /\ breaks = 0
      /\ pc = "poll" /\ rxBuf = <<>> /\ txBuf = <<>> /\ txPos = 0 /\ txBusy = FALSE
      /\ channel = RawfileInit /\ log = <<>>
  BY DEF Init
<1>2. \A S : <<>> \in Seq(S) /\ Len(<<>>) = 0
  BY EmptySeq
<1>3. portRoom \in Nat /\ RxBufSize \in Nat /\ breaks \in 0 .. MaxBreaks /\ txPos \in 0 .. 0
  BY <1>1
<1>4. TypeOK
  <2>1. /\ requests \in Seq(Requests) /\ lost \subseteq 0 .. MaxRequests
        /\ toSend \in Seq(ByteOf(Nat)) /\ inq \in Seq(ByteOf(Nat))
        /\ rxBuf \in Seq(ByteOf(Nat)) /\ Len(rxBuf) <= RxBufSize
        /\ outq \in Seq(ByteOf(Answer)) /\ Len(outq) <= portRoom
    BY <1>1, <1>2, <1>3
  <2>2. /\ got \in Seq(ByteOf(Answer)) /\ txBuf \in Seq(ByteOf(Answer))
        /\ answers \in Seq([req : Nat, reply : Response, whole : BOOLEAN])
        /\ log \in Seq([req : Nat, whole : BOOLEAN]) /\ txPos \in 0 .. Len(txBuf)
    BY <1>1, <1>2, <1>3
  <2>3. /\ portRoom \in PortRooms /\ hup \in BOOLEAN /\ breaks \in 0 .. MaxBreaks
        /\ pc \in {"poll", "input", "output", "crashed"}
        /\ txBusy \in BOOLEAN /\ channel \in Channel
    BY <1>1, <1>3, ChannelType
  <2> QED
    BY <2>1, <2>2, <2>3 DEF TypeOK
<1>5. Asking /\ Replying /\ Looping /\ Stream = <<>>
  <2>1. ~Answering /\ Stream = <<>>
    BY <1>1, <1>2, ConcatEmptySeq DEF Answering, Stream
  <2>2. Awaiting(1)
    <3>0. requests \in Seq(Request) /\ Len(requests) + 1 = 1
      BY <1>1, <1>2
    <3>1. InRow(requests, <<>>, 1)
      BY <3>0, RowNone
    <3>2. Before(1) /\ OneDue(1)
      <4>1. \A i \in 1 .. 0 : FALSE
        OBVIOUS
      <4> QED
        BY <1>1, <1>2, <4>1 DEF Before, OneDue
    <3> QED
      BY <1>1, <2>1, <3>1, <3>2 DEF Awaiting
  <2> QED
    BY <1>1, <2>1, <2>2 DEF Asking, Replying, Looping
<1>6. Filed
  BY <1>1 DEF Filed, RawfileInit
<1>7. Histories
  <2>1. Len(requests) <= MaxRequests /\ \A i \in 1 .. 0 : FALSE
    BY <1>1, <1>2
  <2> QED
    BY <1>1, <1>2, <2>1 DEF Histories, DispatchesWhatWasSent, AnswersAreRight
<1> QED
  BY <1>4, <1>5, <1>6, <1>7 DEF ServerInv

\* Each step of a server, its port and clients that send when they may.
LEMMA ServerStep == ServerInv /\ [CommandNext]_vars => ServerInv'
<1> SUFFICES ASSUME ServerInv, [CommandNext]_vars PROVE ServerInv'
  OBVIOUS
<1>0. (pc = "output" => txBusy) /\ pc \in {"poll", "input", "output", "crashed"}
  BY DEF ServerInv, Looping, TypeOK
<1>1. ASSUME NEW rq \in Requests, SendWhenAllowed(rq) PROVE ServerInv'
  BY <1>1, SendStep
<1>2. CASE CleanHangUp
  BY <1>2, HangUpStep
<1>3. CASE UsbIn
  BY <1>3, UsbInStep
<1>4. CASE UsbOut
  BY <1>4, UsbOutStep
<1>5. CASE Reopen
  BY <1>5, ReopenStep
<1>6. CASE InputRead
  BY <1>6, InputReadStep
<1>7. CASE OutputWrite
  BY <1>7, OutputWriteStep
<1>8. CASE PollIn
  BY <1>8, LoopStep DEF PollIn
<1>9. CASE InputEnd
  BY <1>9, LoopStep DEF InputEnd
<1>10. CASE OutputEnd
  BY <1>10, LoopStep DEF OutputEnd
<1>11. CASE UNCHANGED vars
  BY <1>0, <1>11, LoopStep DEF vars
<1> QED
  BY <1>1, <1>2, <1>3, <1>4, <1>5, <1>6, <1>7, <1>8, <1>9, <1>10, <1>11
     DEF CommandNext, WireNext, ServerNext

LEMMA ServerInvHolds == CommandSpec => []ServerInv
<1> QED
  BY ServerInit, ServerStep, PTL DEF CommandSpec

\* Nothing is left of any request when the link is quiet.
LEMMA QuietIsEmpty ==
  ASSUME ServerInv, Quiet
  PROVE  Stream = <<>> /\ Settled
<1>1. /\ toSend = <<>> /\ inq = <<>> /\ ~txBusy /\ outq = <<>> /\ got = <<>> /\ pc = "poll"
  BY DEF Quiet
<1>2. PICK first \in Nat : Awaiting(first)
  BY <1>1 DEF ServerInv, Asking
<1>3. /\ requests \in Seq(Request) /\ Stream \in Seq(ByteOf(Nat))
      /\ Len(Stream) = Len(rxBuf) + Len(inq) + Len(toSend)
      /\ Len(rxBuf) \in Nat /\ Len(inq) = 0 /\ Len(toSend) = 0
  BY <1>1, Lengths, StreamType, EmptySeq DEF ServerInv
<1>4. Len(Stream) = Len(rxBuf) /\ Len(Stream) \in Nat
  BY <1>3
<1>5. Stream = <<>>
  <2> SUFFICES ASSUME Stream # <<>> PROVE FALSE
    OBVIOUS
  <2>1. first \in 1 .. Len(requests) /\ Size(requests, first) <= Len(Stream)
    BY <1>2, <1>3, RowFirst DEF Awaiting
  <2>2. rxBuf # <<>>
    BY <1>3, <1>4, EmptySeq
  <2>3. Len(rxBuf) < Size(requests, first) /\ Size(requests, first) \in Nat
    BY <1>2, <1>3, <2>1, <2>2, SizeType DEF Awaiting
  <2> QED
    BY <1>4, <2>1, <2>3
<1>6. \A k \in 1 .. Len(Stream) : FALSE
  BY <1>5, EmptySeq
<1> QED
  BY <1>1, <1>5, <1>6 DEF Settled

\* Clients that wait until the link is quiet ask for nothing while an answer is
\* due.
LEMMA WaitingIsAllowed == ServerInv /\ [Next]_vars => [CommandNext]_vars
<1> SUFFICES ASSUME ServerInv, Next PROVE CommandNext
  OBVIOUS
<1>1. ASSUME NEW rq \in Requests, SendWhenQuiet(rq) PROVE SendWhenAllowed(rq)
  BY <1>1, QuietIsEmpty DEF SendWhenQuiet, SendWhenAllowed, Quiet
<1> QED
  BY <1>1 DEF Next, CommandNext

LEMMA QuietClients == Spec => CommandSpec /\ []ServerInv
<1>1. ServerInv /\ [Next]_vars => ServerInv'
  BY WaitingIsAllowed, ServerStep
<1> QED
  BY <1>1, ServerInit, WaitingIsAllowed, PTL DEF Spec, CommandSpec

\* They have one request at a time under way.
Alone ==
  /\ pc # "crashed"
  /\ \A k \in 1 .. Len(Stream) : Stream[k].msg = Len(requests)

LEMMA AloneKept ==
  ASSUME Alone, Stream' = Stream, requests' = requests, pc' # "crashed"
  PROVE  Alone'
BY DEF Alone

\* What is left behind the last of them.
LEMMA NoneBehind ==
  ASSUME TypeOK, NEW first \in 1 .. Len(requests), InRow(requests, Stream, first)
  PROVE  /\ Size(requests, first) <= Len(Stream) /\ Stream[1].msg = first /\ 1 \in 1 .. Len(Stream)
         /\ InRow(requests, SubSeq(Stream, Size(requests, first) + 1, Len(Stream)), first + 1)
         /\ first = Len(requests) <=> Size(requests, first) = Len(Stream)
         /\ first = Len(requests) =>
              SubSeq(Stream, Size(requests, first) + 1, Len(Stream)) = <<>>
<1>1. /\ requests \in Seq(Request) /\ Stream \in Seq(ByteOf(Nat)) /\ Len(requests) \in Nat
      /\ Len(Stream) \in Nat /\ first \in Nat
  BY Lengths, StreamType
<1>2. Stream # <<>>
  <2>1. Stream = <<>> <=> first = Len(requests) + 1
    BY <1>1, RowBytes
  <2> QED
    BY <1>1, <2>1
<1> PICK size : size = Size(requests, first)
  OBVIOUS
<1> PICK rest : rest = SubSeq(Stream, size + 1, Len(Stream))
  OBVIOUS
<1>3. /\ size <= Len(Stream) /\ InRow(requests, rest, first + 1)
      /\ \A k \in 1 .. size : Stream[k] = RqByte(requests, first, k)
  BY <1>1, <1>2, RowFirst
<1>4. size \in Nat /\ 1 \in 1 .. size /\ 1 \in 1 .. Len(Stream)
  <2>1. size \in Nat /\ size > HdrSize
    BY <1>1, SizeType
  <2> QED
    BY <1>1, <1>3, <2>1
<1>5. Stream[1].msg = first
  <2>1. Stream[1] = RqByte(requests, first, 1)
    BY <1>3, <1>4
  <2> QED
    BY <2>1 DEF RqByte
<1>6. rest \in Seq(ByteOf(Nat)) /\ Len(rest) = Len(Stream) - size
  <2>1. size \in 0 .. Len(Stream)
    BY <1>1, <1>3, <1>4
  <2> QED
    BY <1>1, <2>1, Cut
<1>7. rest = <<>> <=> first = Len(requests)
  <2>1. rest = <<>> <=> first + 1 = Len(requests) + 1
    <3>1. PICK next : next = first + 1
      OBVIOUS
    <3> QED
      BY <1>1, <1>3, <1>6, <3>1, RowBytes
  <2> QED
    BY <1>1, <2>1
<1>8. rest = <<>> <=> Len(Stream) = size
  <2>1. rest = <<>> <=> Len(rest) = 0
    BY <1>6, EmptySeq
  <2> QED
    BY <1>1, <1>4, <1>6, <2>1
<1> QED
  BY <1>3, <1>4, <1>5, <1>7, <1>8

LEMMA AloneStep == ServerInv /\ Alone /\ [Next]_vars => Alone'
<1> SUFFICES ASSUME ServerInv, Alone, [Next]_vars PROVE Alone'
  OBVIOUS
<1>0. TypeOK /\ pc # "crashed" /\ (pc = "output" => txBusy) /\ pc \in {"poll", "input", "output"}
  BY DEF ServerInv, Looping, TypeOK, Alone
<1>1. ASSUME NEW rq \in Requests, SendWhenQuiet(rq) PROVE Alone'
  <2>1. /\ Stream = <<>> /\ pc' = pc /\ requests' = Append(requests, rq)
        /\ rxBuf' = rxBuf /\ inq' = inq /\ inq = <<>> /\ toSend = <<>>
        /\ toSend' = Frame(Len(requests) + 1, RequestLen(rq))
    BY <1>1, QuietIsEmpty DEF SendWhenQuiet, Send, Quiet, portVars
  <2>2. Len(requests') = Len(requests) + 1 /\ rq \in Request
    BY <1>0, <2>1, Lengths
  <2>3. rxBuf = <<>>
    BY <1>0, <2>1, StreamType, EmptySeq
  <2>4. Stream' = toSend'
    <3>1. RequestLen(rq) \in Nat /\ Len(requests) + 1 \in Nat
      BY <1>0, <2>2, RequestType, Lengths, SMTT(30)
    <3>2. toSend' \in Seq(ByteOf(Nat))
      BY <2>1, <3>1, FrameType
    <3>3. Stream' = (<<>> \o <<>>) \o toSend'
      BY <2>1, <2>3, Zenon DEF Stream
    <3> QED
      BY <3>2, <3>3, ConcatEmptySeq, EmptySeq
  <2>5. \A k \in 1 .. Len(Stream') : Stream'[k].msg = Len(requests')
    <3>1. \A len \in Nat : \A n : \A k \in 1 .. Len(Frame(n, len)) : Frame(n, len)[k].msg = n
      BY DEF Frame
    <3>2. RequestLen(rq) \in Nat
      BY <2>2, RequestType
    <3> QED
      BY <2>1, <2>2, <2>4, <3>1, <3>2
  <2> QED
    BY <1>0, <2>1, <2>5 DEF Alone
<1>2. CASE CleanHangUp
  <2>1. pc' = pc /\ Stream' = <<>>
    BY <1>2, EmptySeq, ConcatEmptySeq DEF CleanHangUp, HangUp, Stream
  <2> QED
    BY <1>0, <2>1, EmptySeq DEF Alone
<1>3. CASE UsbIn
  <2>1. Stream' = Stream /\ UNCHANGED <<requests, pc>>
    BY <1>3, UsbInStep DEF UsbIn
  <2> QED
    BY <1>0, <2>1, AloneKept
<1>4. CASE UsbOut
  <2>1. Stream' = Stream /\ UNCHANGED <<requests, pc>>
    BY <1>4, UsbOutStep DEF UsbOut
  <2> QED
    BY <1>0, <2>1, AloneKept
<1>5. CASE Reopen
  <2>1. Stream' = Stream /\ UNCHANGED <<requests, pc>>
    BY <1>5 DEF Reopen, clientVars, Stream
  <2> QED
    BY <1>0, <2>1, AloneKept
<1>6. CASE InputRead
  <2>1. PICK first \in 1 .. Len(requests) : Awaiting(first) /\ (Partial(first) \/ Whole(first))
    BY <1>6, InputReadCases
  <2>2. requests' = requests
    BY <1>6 DEF InputRead, clientVars
  <2>3. CASE Partial(first)
    BY <2>2, <2>3, AloneKept DEF Partial
  <2>4. CASE Whole(first)
    <3>1. InRow(requests, Stream, first) /\ TypeOK
      BY <1>0, <2>1 DEF Awaiting
    <3>2. first = Len(requests)
      <4>1. Stream[1].msg = first /\ 1 \in 1 .. Len(Stream)
        BY <3>1, NoneBehind
      <4> QED
        BY <4>1 DEF Alone
    <3>3. ~(Size(requests, first) < Len(Stream))
      <4>1. Size(requests, first) = Len(Stream) /\ Len(Stream) \in Nat
        BY <3>1, <3>2, NoneBehind, StreamType
      <4> QED
        BY <4>1
    <3>4. pc' = "input" /\ Stream' = <<>>
      BY <2>4, <3>1, <3>2, <3>3, NoneBehind DEF Whole
    <3> QED
      BY <3>4, EmptySeq DEF Alone
  <2> QED
    BY <2>1, <2>3, <2>4
<1>7. CASE OutputWrite
  <2>1. Stream' = Stream /\ requests' = requests /\ pc' \in {"output", "poll"}
    BY <1>7, OutputWriteStep DEF OutputWrite, clientVars
  <2> QED
    BY <2>1, AloneKept
<1>8. CASE PollIn \/ InputEnd \/ OutputEnd \/ UNCHANGED vars
  <2>1. pc' # "crashed" /\ requests' = requests /\ Stream' = Stream
    BY <1>0, <1>8 DEF PollIn, InputEnd, OutputEnd, vars, clientVars, portVars, Stream
  <2> QED
    BY <2>1, AloneKept
<1> QED
  BY <1>1, <1>2, <1>3, <1>4, <1>5, <1>6, <1>7, <1>8 DEF Next, WireNext, ServerNext

-----------------------------------------------------------------------------
(* The requests as packets, and the answers *)

\* The requests from the first on, as the service is given them.
From(rqs, first) ==
  [k \in 1 .. Len(rqs) - first + 1 |->
     [req |-> first + k - 1, rq |-> rqs[first + k - 1]]]

LEMMA FromFirst ==
  ASSUME NEW rqs \in Seq(Request), NEW first \in 1 .. Len(rqs)
  PROVE  /\ From(rqs, first) # <<>> /\ Len(From(rqs, first)) = Len(rqs) - first + 1
         /\ Head(From(rqs, first)) = [req |-> first, rq |-> rqs[first]]
         /\ Tail(From(rqs, first)) = From(rqs, first + 1)
<1> PICK N \in Nat : N = Len(rqs)
  BY LenProperties
<1>0. first \in Nat /\ first \in 1 .. N /\ N - first \in Nat
  OBVIOUS
<1> PICK n \in Nat : n = N - first
  BY <1>0
<1> DEFINE at(k) == [req |-> k, rq |-> rqs[k]]
           s == [k \in 1 .. N - first + 1 |-> at(first + k - 1)]
           t == [k \in 1 .. N - first |-> at(first + k)]
           S == {at(k) : k \in Int}
<1> HIDE DEF at
<1>1. s = [k \in 1 .. n + 1 |-> at(first + k - 1)] /\ t = [k \in 1 .. n |-> at(first + k)]
  BY <1>0
<1> HIDE DEF s, t
<1>2. \A k \in 1 .. n : k + 1 \in 1 .. n + 1 /\ first + (k + 1) - 1 = first + k
  BY <1>0
<1>3. /\ s \in Seq(S) /\ Len(s) = n + 1
      /\ \A k \in 1 .. n + 1 : s[k] = at(first + k - 1)
      /\ t \in Seq(S) /\ Len(t) = n
      /\ \A k \in 1 .. n : t[k] = at(first + k)
  <2>1. \A k \in Int : at(k) \in S /\ first + k - 1 \in Int /\ first + k \in Int
    BY <1>0
  <2>2. n + 1 \in Nat
    OBVIOUS
  <2> HIDE DEF S
  <2>3. \A k \in 1 .. n + 1 : at(first + k - 1) \in S
    BY <2>1
  <2>4. \A k \in 1 .. n : at(first + k) \in S
    BY <2>1
  <2>5. /\ s \in Seq(S) /\ Len(s) = n + 1
        /\ \A k \in 1 .. n + 1 : s[k] = at(first + k - 1)
    BY <1>1, <2>2, <2>3
  <2>6. /\ t \in Seq(S) /\ Len(t) = n
        /\ \A k \in 1 .. n : t[k] = at(first + k)
    BY <1>1, <2>4
  <2> QED
    BY <2>5, <2>6
<1> HIDE DEF S
<1>4. s # <<>> /\ Head(s) = at(first)
  <2>1. Len(s) # 0 /\ 1 \in 1 .. n + 1 /\ first + 1 - 1 = first
    BY <1>0, <1>3
  <2>2. s # <<>> /\ Head(s) = s[1]
    BY <1>3, <2>1, EmptySeq
  <2> QED
    BY <1>3, <2>1, <2>2
<1>5. Tail(s) = t
  <2>1. /\ Tail(s) \in Seq(S) /\ Len(Tail(s)) = n
        /\ \A k \in 1 .. n : Tail(s)[k] = s[k + 1]
    <3>1. /\ Tail(s) \in Seq(S) /\ Len(Tail(s)) = Len(s) - 1
          /\ \A k \in 1 .. Len(Tail(s)) : Tail(s)[k] = s[k + 1]
      BY <1>3, <1>4, HeadTailProperties
    <3>2. Len(s) - 1 = n
      BY <1>3
    <3> QED
      BY <3>1, <3>2
  <2>2. \A k \in 1 .. n : Tail(s)[k] = t[k]
    BY <1>2, <1>3, <2>1
  <2> QED
    BY <1>3, <2>1, <2>2, SeqEqual
<1>6. From(rqs, first) = s
  BY DEF From, s, at
<1>7. From(rqs, first + 1) = t
  <2>1. N - (first + 1) + 1 = n /\ \A k \in 1 .. n : (first + 1) + k - 1 = first + k
    BY <1>0
  <2>2. From(rqs, first + 1) = [k \in 1 .. N - (first + 1) + 1 |->
                                  [req |-> (first + 1) + k - 1, rq |-> rqs[(first + 1) + k - 1]]]
    BY DEF From
  <2> QED
    BY <1>1, <2>1, <2>2 DEF at
<1> QED
  BY <1>3, <1>4, <1>5, <1>6, <1>7 DEF at

LEMMA FromNone ==
  ASSUME NEW rqs \in Seq(Request)
  PROVE  From(rqs, Len(rqs) + 1) = <<>>
<1>1. Len(rqs) \in Nat /\ Len(rqs) - (Len(rqs) + 1) + 1 = 0
  BY LenProperties
<1>2. From(rqs, Len(rqs) + 1) \in [1 .. 0 -> Int]
  BY <1>1 DEF From
<1> QED
  BY <1>2, EmptySeq

LEMMA FromAppend ==
  ASSUME NEW rqs \in Seq(Request), NEW rq \in Request, NEW first \in 1 .. Len(rqs) + 1
  PROVE  From(Append(rqs, rq), first)
           = Append(From(rqs, first), [req |-> Len(rqs) + 1, rq |-> rq])
<1> PICK N \in Nat : N = Len(rqs)
  BY LenProperties
<1> PICK more : more = Append(rqs, rq)
  OBVIOUS
<1>1. /\ Len(more) = N + 1 /\ more[N + 1] = rq
      /\ \A k \in 1 .. N : more[k] = rqs[k]
  BY AppendProperties
<1>0. first \in Nat /\ first \in 1 .. N + 1
  OBVIOUS
<1> PICK n \in Nat : n = N - first + 1
  BY <1>0, SMTT(30)
<1> DEFINE at(r, k) == [req |-> k, rq |-> r[k]]
           s == [k \in 1 .. n |-> at(rqs, first + k - 1)]
           t == [k \in 1 .. n + 1 |-> at(more, first + k - 1)]
           e == [req |-> N + 1, rq |-> rq]
<1>2. From(rqs, first) = s
  BY DEF From
<1>3. From(more, first) = t
  <2>1. (N + 1) - first + 1 = n + 1
    BY <1>0
  <2>2. From(more, first) = [k \in 1 .. (N + 1) - first + 1 |-> at(more, first + k - 1)]
    BY <1>1 DEF From
  <2> QED
    BY <2>1, <2>2
<1>4. \A k \in 1 .. n : at(more, first + k - 1) = at(rqs, first + k - 1)
  <2>1. \A k \in 1 .. n : first + k - 1 \in 1 .. N
    BY <1>0
  <2> QED
    BY <1>1, <2>1
<1>5. at(more, first + (n + 1) - 1) = e
  <2>1. first + (n + 1) - 1 = N + 1
    BY <1>0
  <2> QED
    BY <1>1, <2>1
<1> HIDE DEF at, e
<1> DEFINE S == {at(rqs, k) : k \in Int} \cup {e}
<1>6. s \in Seq(S) /\ Len(s) = n /\ \A k \in 1 .. n : s[k] = at(rqs, first + k - 1)
  <2>1. \A k \in 1 .. n : at(rqs, first + k - 1) \in S
    BY <1>0
  <2> HIDE DEF S
  <2> QED
    BY <2>1
<1> HIDE DEF s
<1>7. \A k \in 1 .. n + 1 : t[k] = IF k = n + 1 THEN e ELSE s[k]
  <2>1. \A k \in 1 .. n + 1 : k = n + 1 \/ k \in 1 .. n
    OBVIOUS
  <2> QED
    BY <1>4, <1>5, <1>6, <2>1
<1>8. t \in Seq(S) /\ Len(t) = n + 1
  <2>1. \A k \in 1 .. n + 1 : t[k] \in S
    <3>1. \A k \in 1 .. n : at(rqs, first + k - 1) \in S
      BY <1>0
    <3>2. \A k \in 1 .. n + 1 : k = n + 1 \/ k \in 1 .. n
      OBVIOUS
    <3> QED
      BY <1>6, <1>7, <3>1, <3>2
  <2>2. \A k \in 1 .. n + 1 : at(more, first + k - 1) \in S
    BY <2>1
  <2>3. n + 1 \in Nat
    OBVIOUS
  <2> HIDE DEF S
  <2> QED
    BY <2>2, <2>3
<1> HIDE DEF t
<1>9. e \in S
  OBVIOUS
<1> HIDE DEF S
<1>10. /\ Append(s, e) \in Seq(S) /\ Len(Append(s, e)) = n + 1
       /\ \A k \in 1 .. n : Append(s, e)[k] = s[k]
       /\ Append(s, e)[n + 1] = e
  BY <1>6, <1>9, AppendProperties
<1>11. t = Append(s, e)
  <2>1. \A k \in 1 .. n + 1 : t[k] = Append(s, e)[k]
    <3>1. \A k \in 1 .. n + 1 : k = n + 1 \/ k \in 1 .. n
      OBVIOUS
    <3>2. \A k \in 1 .. n : k # n + 1
      OBVIOUS
    <3> QED
      BY <1>7, <1>10, <3>1, <3>2
  <2> QED
    BY <1>8, <1>10, <2>1, SeqEqual
<1> QED
  BY <1>2, <1>3, <1>11 DEF e

PacketsKnown ==
  \A n \in Nat : TypeOK /\ Running /\ InRow(requests, Stream, n) => Packets = From(requests, n)

LEMMA PacketsAre == PacketsKnown
<1> SUFFICES ASSUME NEW n \in Nat, TypeOK, Running, InRow(requests, Stream, n)
             PROVE  Packets = From(requests, n)
  BY DEF PacketsKnown
<1>1. /\ requests \in Seq(Request) /\ Stream \in Seq(ByteOf(Nat)) /\ Len(requests) \in Nat
      /\ n \in 1 .. Len(requests) + 1 /\ (Stream = <<>> <=> n = Len(requests) + 1)
  BY Lengths, StreamType, RowBytes
<1>2. CASE Stream = <<>>
  BY <1>1, <1>2, FromNone DEF Packets
<1>3. CASE Stream # <<>>
  <2>1. n \in 1 .. Len(requests)
    BY <1>1, <1>3
  <2>2. Stream[1].msg = n
    BY <2>1, NoneBehind
  <2> QED
    BY <1>3, <2>2 DEF Packets, From
<1> QED
  BY <1>2, <1>3

\* The answer that is on its way, or waits.
MessagesKnown ==
  /\ \A n \in Nat, rp \in Response :
       TypeOK /\ Carried(n, rp) =>
         /\ Returning = IF txBusy THEN <<>> ELSE <<[req |-> n, reply |-> rp]>>
         /\ Waiting = IF txBusy /\ Running THEN <<[req |-> n, reply |-> rp]>> ELSE <<>>
  /\ TypeOK /\ ~Answering => Returning = <<>> /\ Waiting = <<>>

LEMMA FrameFirst == \A msg : \A len \in Nat : Frame(msg, len)[1].msg = msg
<1> SUFFICES ASSUME NEW msg, NEW len \in Nat PROVE Frame(msg, len)[1].msg = msg
  OBVIOUS
<1>1. 1 \in 1 .. HdrSize + len
  OBVIOUS
<1> QED
  BY <1>1 DEF Frame

LEMMA MessagesAre == MessagesKnown
<1>1. ASSUME NEW n \in Nat, NEW rp \in Response, TypeOK, Carried(n, rp)
      PROVE  /\ Returning = IF txBusy THEN <<>> ELSE <<[req |-> n, reply |-> rp]>>
             /\ Waiting = IF txBusy /\ Running THEN <<[req |-> n, reply |-> rp]>> ELSE <<>>
  <2> DEFINE msg == [req |-> n, reply |-> rp]
             len == ReplyLen(rp)
  <2>0. msg \in Answer /\ len \in Nat
    BY ReplyLenType DEF Answer
  <2>1. /\ Stretch(got, msg, len, 0) /\ Stretch(outq, msg, len, Len(got))
        /\ txBusy => txBuf = Frame(msg, len)
        /\ ~txBusy => Len(got) + Len(outq) = HdrSize + len
    BY <1>1 DEF Carried
  <2> HIDE DEF msg, len
  <2>2. /\ got \in Seq(ByteOf(Answer)) /\ outq \in Seq(ByteOf(Answer))
        /\ Len(got) \in Nat /\ Len(outq) \in Nat
    BY <1>1, Lengths DEF TypeOK
  <2>3. /\ Outgoing \in Seq(ByteOf(Answer)) /\ Len(Outgoing) = Len(got) + Len(outq)
        /\ Stretch(Outgoing, msg, len, 0)
    <3>0. PICK from \in Nat : from = 0
      OBVIOUS
    <3>1. Stretch(got, msg, len, from) /\ Stretch(outq, msg, len, from + Len(got))
      <4>1. from + Len(got) = Len(got)
        BY <2>2, <3>0
      <4> QED
        BY <2>1, <3>0, <4>1
    <3>2. /\ got \o outq \in Seq(ByteOf(Answer)) /\ Len(got \o outq) = Len(got) + Len(outq)
          /\ Stretch(got \o outq, msg, len, from)
      BY <2>2, <3>1, StretchJoin
    <3> QED
      BY <3>0, <3>2 DEF Outgoing
  <2>4. Returning = IF txBusy THEN <<>> ELSE <<msg>>
    <3>1. CASE txBusy
      BY <3>1 DEF Returning
    <3>2. CASE ~txBusy
      <4>1. 1 \in 1 .. Len(Outgoing) /\ Len(Outgoing) # 0
        BY <2>0, <2>1, <2>2, <2>3, <3>2
      <4>2. Outgoing # <<>>
        BY <4>1, EmptySeq
      <4>3. Outgoing[1].msg = msg
        BY <2>3, <4>1 DEF Stretch
      <4> QED
        BY <3>2, <4>2, <4>3 DEF Returning
    <3> QED
      BY <3>1, <3>2
  <2>5. Waiting = IF txBusy /\ Running THEN <<msg>> ELSE <<>>
    BY <2>0, <2>1, FrameFirst DEF Waiting
  <2> QED
    BY <2>4, <2>5 DEF msg
<1>2. ASSUME TypeOK, ~Answering PROVE Returning = <<>> /\ Waiting = <<>>
  <2>1. got = <<>> /\ outq = <<>> /\ ~txBusy
    BY <1>2 DEF Answering
  <2>2. Outgoing = <<>>
    BY <2>1, EmptySeq, ConcatEmptySeq DEF Outgoing
  <2> QED
    BY <2>1, <2>2 DEF Returning, Waiting
<1> QED
  BY <1>1, <1>2 DEF MessagesKnown

-----------------------------------------------------------------------------
(* The service that the server implements *)

ServiceStep ==
  Service!Next \/ UNCHANGED <<Len(requests), Packets, Returning, Waiting, Opened, Running>>

\* The service knows requests and files as RawFile does.
LEMMA SameFiles ==
  /\ Service!RawfileInit = RawfileInit /\ Service!Request = Request
  /\ \A ch : Service!RawfileReopen(ch) = RawfileReopen(ch)
  /\ \A rq : Service!Silent(rq) = Silent(rq)
  /\ \A ch, rq : Service!AfterRequest(ch, rq) = AfterRequest(ch, rq)
  /\ \A ch, rq : Service!Replies(ch, rq) = Replies(ch, rq)
<1>1. Service!RawfileInit = RawfileInit /\ \A ch : Service!RawfileReopen(ch) = RawfileReopen(ch)
  BY DEF Service!RawfileInit, RawfileInit, Service!BlankCell, BlankCell,
         Service!RawfileReopen, RawfileReopen
<1>2. Service!Request = Request /\ \A rq : Service!Silent(rq) = Silent(rq)
  BY DEF Service!Request, Request, Service!Ops, Ops, Service!Silent, Silent
<1>3. \A n : Service!Search(n) = Search(n)
  BY DEF Service!Search, Search, Service!Glob, Glob, Service!FirstOf, FirstOf
<1>4. \A ch, off, n : Service!Pread(ch, off, n) = Pread(ch, off, n)
  BY DEF Service!Pread, Pread
<1>5. \A ch, rq : Service!AfterRequest(ch, rq) = AfterRequest(ch, rq)
  BY <1>3, <1>4 DEF Service!AfterRequest, AfterRequest, Service!CrfOpenRead, CrfOpenRead,
     Service!CrfClose, CrfClose
<1>6. \A ch, rq : Service!Replies(ch, rq) = Replies(ch, rq)
  BY DEF Service!Replies, Replies, Service!Reply, Reply, Service!DataAttr, DataAttr,
     Service!AttrOf, AttrOf
<1> QED
  BY <1>1, <1>2, <1>5, <1>6

LEMMA SendAsks ==
  ASSUME ServerInv, ServerInv', NEW rq \in Requests, SendWhenAllowed(rq)
  PROVE  ServiceStep
<1> DEFINE n == Len(requests)
           packet == [req |-> n + 1, rq |-> rq]
<1>0. TypeOK /\ TypeOK' /\ Asking
  BY DEF ServerInv
<1>1. /\ toSend = <<>> /\ (Silent(rq) \/ Settled)
      /\ requests' = Append(requests, rq) /\ toSend' = Frame(n + 1, RequestLen(rq))
      /\ UNCHANGED <<got, outq, hup, inq, pc, rxBuf, txBuf, txPos, txBusy, channel>>
  BY DEF SendWhenAllowed, Send, portVars, txVars
<1>2. /\ n \in Nat /\ requests \in Seq(Request) /\ Stream \in Seq(ByteOf(Nat)) /\ rq \in Request
  BY <1>0, Lengths, StreamType
<1>3. Len(requests') = n + 1
  BY <1>1, <1>2, AppendProperties
<1>4. UNCHANGED <<Returning, Waiting, Opened, Running>>
  BY <1>1 DEF Returning, Waiting, Opened, Running, Outgoing
<1>5. CASE ~Running
  <2>1. Packets' = Packets
    BY <1>4, <1>5 DEF Packets
  <2>2. Service!Ask
    BY <1>3, <1>4, <2>1 DEF Service!Ask
  <2> QED
    BY <2>2 DEF ServiceStep, Service!Next
<1>6. CASE Running
  <2>1. PICK first \in Nat : InRow(requests, Stream, first)
    BY <1>0, <1>6 DEF Asking, Awaiting, Running
  <2>2. /\ first \in 1 .. n + 1
        /\ \A k \in first .. n : \E b \in 1 .. Len(Stream) : Stream[b].msg = k
    BY <1>2, <2>1, RowBytes
  <2>3. InRow(requests, Stream, first)'
    <3>1. InRow(requests', Stream', first)
      BY <1>0, <1>1, <1>2, <2>1, SendRow
    <3> QED
      BY <3>1
  <2>4. Packets = From(requests, first) /\ Packets' = From(requests', first)
    <3>1. PacketsKnown'
      BY PacketsAre, PTL
    <3>2. Running'
      BY <1>4, <1>6
    <3>3. Packets = From(requests, first)
      BY <1>0, <1>6, <2>1, PacketsAre DEF PacketsKnown
    <3>4. Packets' = From(requests', first)
      BY <1>0, <2>3, <3>1, <3>2 DEF PacketsKnown
    <3> QED
      BY <3>3, <3>4
  <2>5. Packets' = Append(Packets, packet)
    BY <1>1, <1>2, <2>2, <2>4, FromAppend
  <2>6. packet.req = n + 1 /\ packet.rq = rq
    OBVIOUS
  <2>7. \A k \in 1 .. n - first + 1 : Packets[k].rq = requests[first + k - 1]
    BY <2>4 DEF From
  <2>8. Packets \in Seq([req : Nat, rq : Request]) /\ Len(Packets) = n - first + 1
    <3>1. PICK l \in Nat : l = n - first + 1
      <4>1. n - first + 1 \in Nat
        BY <1>2, <2>2
      <4> QED
        BY <4>1
    <3> DEFINE at(k) == [req |-> first + k - 1, rq |-> requests[first + k - 1]]
    <3>2. \A k \in 1 .. l : at(k) \in [req : Nat, rq : Request]
      <4>1. \A k \in 1 .. l : first + k - 1 \in Nat /\ first + k - 1 \in 1 .. n
        BY <1>2, <2>2, <3>1
      <4>2. \A k \in 1 .. n : requests[k] \in Request
        BY <1>2, ElementOfSeq
      <4> QED
        BY <4>1, <4>2
    <3>3. Packets = [k \in 1 .. l |-> at(k)]
      BY <2>4, <3>1 DEF From
    <3> HIDE DEF at
    <3>4. Packets \in Seq([req : Nat, rq : Request]) /\ Len(Packets) = l
      BY <3>2, <3>3
    <3> QED
      BY <3>1, <3>4
  <2>9. packet \in [req : Nat, rq : Request]
    BY <1>2
  <2> HIDE DEF packet
  <2>10. Packets' # <<>> /\ Packets'[Len(Packets')] = packet
    <3>1. /\ Packets' \in Seq([req : Nat, rq : Request]) /\ Len(Packets') = Len(Packets) + 1
          /\ Packets'[Len(Packets) + 1] = packet
      BY <2>5, <2>8, <2>9, AppendProperties
    <3>2. Len(Packets') # 0
      BY <2>8, <3>1, LenProperties
    <3> QED
      BY <3>1, <3>2, EmptySeq
  <2>11. Settled => Service!Settled
    <3> SUFFICES ASSUME Settled PROVE Service!Settled
      OBVIOUS
    <3>1. Returning = <<>> /\ Waiting = <<>>
      BY <1>0, MessagesAre DEF MessagesKnown, Settled, Answering
    <3>2. \A k \in 1 .. Len(Packets) : Silent(Packets[k].rq)
      <4> SUFFICES ASSUME NEW k \in 1 .. Len(Packets) PROVE Silent(Packets[k].rq)
        OBVIOUS
      <4>1. k \in 1 .. n - first + 1 /\ first + k - 1 \in first .. n
        BY <1>2, <2>2, <2>8
      <4>2. PICK b \in 1 .. Len(Stream) : Stream[b].msg = first + k - 1
        BY <2>2, <4>1
      <4> QED
        BY <2>7, <4>1, <4>2 DEF Settled
    <3> QED
      BY <3>1, <3>2, SameFiles DEF Service!Settled
  <2>12. Service!Ask
    BY <1>1, <1>2, <1>3, <1>4, <2>5, <2>6, <2>10, <2>11, SameFiles DEF Service!Ask, packet
  <2> QED
    BY <2>12 DEF ServiceStep, Service!Next
<1> QED
  BY <1>5, <1>6

\* A byte of the answer comes, which is all of it that is seen when it is the last.
LEMMA UsbOutTakes ==
  ASSUME ServerInv, UsbOut
  PROVE  ServiceStep
<1>0. TypeOK /\ TypeOK'
  BY UsbOutStep DEF ServerInv
<1>1. UNCHANGED <<requests, hup, pc, txBuf, txBusy, channel>> /\ Stream' = Stream
  BY UsbOutStep DEF UsbOut, txVars
<1>2. UNCHANGED <<Packets, Waiting, Opened, Running>>
  BY <1>1 DEF Packets, Waiting, Opened, Running
<1>3. PICK n \in Nat, rp \in Response :
        Carried(n, rp) /\ (Carried(n, rp)' \/ (~txBusy /\ ~Answering'))
  BY UsbOutStep
<1> DEFINE msg == [req |-> n, reply |-> rp]
<1>4. MessagesKnown /\ MessagesKnown'
  BY MessagesAre, PTL
<1>5. Returning = IF txBusy THEN <<>> ELSE <<msg>>
  BY <1>0, <1>3, <1>4 DEF MessagesKnown
<1>6. CASE Carried(n, rp)'
  <2>1. Returning' = IF txBusy' THEN <<>> ELSE <<msg>>
    BY <1>0, <1>4, <1>6 DEF MessagesKnown
  <2> QED
    BY <1>1, <1>2, <1>5, <2>1 DEF ServiceStep
<1>7. CASE ~txBusy /\ ~Answering'
  <2>1. Returning = <<msg>> /\ Returning' = <<>>
    BY <1>0, <1>4, <1>5, <1>7 DEF MessagesKnown
  <2> HIDE DEF msg
  <2>2. Returning # <<>> /\ Returning' = Tail(Returning)
    BY <2>1
  <2>3. Service!Take
    BY <1>1, <1>2, <2>2 DEF Service!Take
  <2> QED
    BY <2>3 DEF ServiceStep, Service!Next
<1> QED
  BY <1>3, <1>6, <1>7

\* The last of a request is read.
LEMMA InputReadServes ==
  ASSUME ServerInv, ServerInv', InputRead
  PROVE  ServiceStep
<1>0. TypeOK /\ TypeOK'
  BY DEF ServerInv
<1>1. pc = "input" /\ ~hup /\ UNCHANGED <<requests, got, outq, hup>>
  BY InputReadCases
<1>2. PICK first \in 1 .. Len(requests) : Awaiting(first) /\ (Partial(first) \/ Whole(first))
  BY InputReadCases
<1>3. CASE Partial(first)
  <2>1. /\ pc' = pc /\ Stream' = Stream /\ UNCHANGED <<txBuf, txPos, txBusy, channel>>
    BY <1>1, <1>3 DEF Partial
  <2> QED
    BY <1>1, <2>1 DEF ServiceStep, Packets, Returning, Outgoing, Waiting, Opened, Running
<1>4. CASE Whole(first)
  <2>k. PICK rq : rq = requests[first]
    OBVIOUS
  <2>0. /\ Len(requests) \in Nat /\ first \in Nat /\ first + 1 \in Nat
        /\ requests \in Seq(Request) /\ rq \in Request
    BY <1>0, <2>k, Lengths
  <2>1. /\ channel' = AfterRequest(channel, rq)
        /\ Replies(channel', rq) = <<>> => UNCHANGED <<txBuf, txPos, txBusy>>
        /\ Replies(channel', rq) # <<>> => SendPacket(first, Replies(channel', rq)[1])
        /\ \/ /\ pc' = "input"
              /\ Stream' = SubSeq(Stream, Size(requests, first) + 1, Len(Stream))
           \/ pc' = "crashed" /\ Size(requests, first) < Len(Stream)
    BY <1>4, <2>k DEF Whole, txVars
  <2>2. InRow(requests, Stream, first) /\ OneDue(first)
    BY <1>2 DEF Awaiting
  <2>3. /\ Packets # <<>> /\ Head(Packets) = [req |-> first, rq |-> rq]
        /\ Tail(Packets) = From(requests, first + 1)
        /\ Len(Packets) = Len(requests) - first + 1
    <3>1. Packets = From(requests, first)
      BY <1>0, <1>1, <2>0, <2>2, PacketsAre DEF PacketsKnown, Running
    <3> QED
      BY <2>0, <2>k, <3>1, FromFirst
  <2>4. ASSUME Replies(channel', rq) # <<>>
        PROVE  Returning = <<>> /\ Waiting = <<>> /\ txBusy' = TRUE /\ Returning' = <<>>
    <3>1. ~Silent(rq)
      BY <2>4 DEF Replies, Silent
    <3>2. first \in first .. Len(requests)
      BY <2>0
    <3>3. ~Answering
      BY <2>2, <2>k, <3>1, <3>2 DEF OneDue
    <3>4. txBusy' = TRUE
      BY <2>1, <2>4 DEF SendPacket
    <3> QED
      BY <1>0, <3>3, <3>4, MessagesAre DEF MessagesKnown, Returning
  <2>5. Replies(channel', rq) = <<>> => Returning' = Returning
    BY <1>1, <2>1 DEF Returning, Outgoing
  <2>6. CASE /\ pc' = "input"
             /\ Stream' = SubSeq(Stream, Size(requests, first) + 1, Len(Stream))
    <3>1. Running /\ Running' /\ Opened = channel /\ Opened' = channel'
      BY <1>1, <2>6 DEF Running, Opened
    <3>2. Packets' = Tail(Packets)
      <4>1. InRow(requests', Stream', first + 1)
        BY <1>0, <1>1, <2>2, <2>6, NoneBehind
      <4>2. InRow(requests, Stream, first + 1)'
        BY <4>1
      <4>3. PacketsKnown'
        BY PacketsAre, PTL
      <4>4. Packets' = From(requests', first + 1)
        BY <1>0, <2>0, <3>1, <4>2, <4>3 DEF PacketsKnown
      <4> QED
        BY <1>1, <2>3, <4>4
    <3>3. Replies(channel', rq) = <<>> => Waiting' = Waiting
      BY <2>1, <3>1 DEF Waiting
    <3>4. ASSUME Replies(channel', rq) # <<>>
          PROVE  Waiting' = <<[req |-> first, reply |-> Replies(channel', rq)[1]]>>
      <4> PICK rp : rp = Replies(channel', rq)[1]
        OBVIOUS
      <4>1. rp \in Response
        <5>1. channel \in Channel
          BY <1>0 DEF TypeOK
        <5> QED
          BY <2>0, <2>1, <3>4, <5>1, RepliesType
      <4>2. txBuf' = Frame([req |-> first, reply |-> rp], ReplyLen(rp)) /\ txBusy' = TRUE
        BY <2>1, <3>4 DEF SendPacket
      <4>3. txBuf'[1].msg = [req |-> first, reply |-> rp]
        BY <4>1, <4>2, ReplyLenType, FrameFirst
      <4> QED
        BY <3>1, <4>2, <4>3 DEF Waiting
    <3> PICK packet : packet = Head(Packets)
      OBVIOUS
    <3>5. packet.req = first /\ packet.rq = rq
      BY <2>3
    <3>6. Service!Serve
      <4>1. CASE Replies(channel', rq) = <<>>
        <5>1. Returning' = Returning /\ Waiting' = Waiting
          BY <2>5, <3>3, <4>1
        <5> QED
          BY <1>1, <2>1, <2>3, <3>1, <3>2, <3>5, <4>1, <5>1, SameFiles DEF Service!Serve
      <4>2. CASE Replies(channel', rq) # <<>>
        <5>1. /\ Returning' = Returning /\ Waiting = <<>>
              /\ Waiting' = <<[req |-> first, reply |-> Replies(channel', rq)[1]]>>
          BY <2>4, <3>4, <4>2
        <5> QED
          BY <1>1, <2>1, <2>3, <3>1, <3>2, <3>5, <4>2, <5>1, SameFiles DEF Service!Serve
      <4> QED
        BY <4>1, <4>2
    <3> QED
      BY <3>6 DEF ServiceStep, Service!Next
  <2>7. CASE pc' = "crashed" /\ Size(requests, first) < Len(Stream)
    <3>1. /\ Running = TRUE /\ Running' = FALSE /\ Opened' = RawfileInit
          /\ Waiting' = <<>> /\ Packets' = <<>>
      BY <1>1, <2>7 DEF Running, Opened, Waiting, Packets
    <3>2. Len(Packets) >= 2
      <4>1. first # Len(requests)
        <5>1. Len(Stream) \in Nat
          BY <1>0, StreamType
        <5>2. first = Len(requests) <=> Size(requests, first) = Len(Stream)
          BY <1>0, <2>2, NoneBehind
        <5> QED
          BY <2>7, <5>1, <5>2
      <4> QED
        BY <2>0, <2>3, <4>1
    <3>3. Returning' = Returning
      BY <2>4, <2>5
    <3>4. Service!Die
      BY <1>1, <3>1, <3>2, <3>3, SameFiles DEF Service!Die
    <3> QED
      BY <3>4 DEF ServiceStep, Service!Next
  <2> QED
    BY <2>1, <2>6, <2>7
<1> QED
  BY <1>2, <1>3, <1>4

\* The port takes the last of the answer.
LEMMA OutputWriteSends ==
  ASSUME ServerInv, OutputWrite
  PROVE  ServiceStep
<1>0. TypeOK /\ TypeOK' /\ Looping
  BY OutputWriteStep DEF ServerInv
<1>1. /\ pc = "output" /\ pc' \in {"output", "poll"} /\ txBusy' \in BOOLEAN
      /\ UNCHANGED <<requests, hup, channel>> /\ Stream' = Stream
  BY <1>0, OutputWriteStep DEF OutputWrite, clientVars, TypeOK
<1>2. UNCHANGED <<Packets, Opened, Running>> /\ Running /\ Running'
  BY <1>1 DEF Packets, Opened, Running
<1>3. PICK n \in Nat, rp \in Response : Carried(n, rp) /\ Carried(n, rp)'
  BY OutputWriteStep
<1> DEFINE msg == [req |-> n, reply |-> rp]
<1>4. MessagesKnown /\ MessagesKnown'
  BY MessagesAre, PTL
<1>5. txBusy /\ Returning = <<>> /\ Waiting = <<msg>>
  <2>1. txBusy
    BY <1>0, <1>1 DEF Looping
  <2> QED
    BY <1>0, <1>2, <1>3, <1>4, <2>1 DEF MessagesKnown
<1>6. /\ Returning' = IF txBusy' THEN <<>> ELSE <<msg>>
      /\ Waiting' = IF txBusy' /\ Running' THEN <<msg>> ELSE <<>>
  BY <1>0, <1>3, <1>4 DEF MessagesKnown
<1> HIDE DEF msg
<1>7. CASE txBusy'
  BY <1>1, <1>2, <1>5, <1>6, <1>7 DEF ServiceStep
<1>8. CASE ~txBusy'
  <2>1. Returning' = <<msg>> /\ Waiting' = <<>> /\ Append(Returning, Waiting[1]) = <<msg>>
    BY <1>5, <1>6, <1>8
  <2>2. Service!Output
    BY <1>1, <1>2, <1>5, <2>1 DEF Service!Output
  <2> QED
    BY <2>2 DEF ServiceStep, Service!Next
<1> QED
  BY <1>7, <1>8

\* The port hangs up, which the server's clients see at once.
LEMMA HangUpReconnects ==
  ASSUME ServerInv, CleanHangUp
  PROVE  ServiceStep
<1>1. /\ ~hup /\ hup' /\ toSend' = <<>> /\ inq' = <<>> /\ outq' = <<>> /\ got' = <<>>
      /\ UNCHANGED <<requests, pc, rxBuf, txBuf, txBusy, channel>>
      /\ rxBuf = <<>> /\ ~txBusy
  BY DEF CleanHangUp, HangUp, txVars
<1>2. Stream' = <<>> /\ Outgoing' = <<>>
  BY <1>1, EmptySeq, ConcatEmptySeq DEF Stream, Outgoing
<1>3. Packets' = <<>> /\ Returning' = <<>> /\ Waiting = <<>> /\ Waiting' = <<>> /\ Running' = Running
  BY <1>1, <1>2 DEF Packets, Returning, Waiting, Running
<1>4. CASE Running
  <2>1. Opened = channel /\ Opened' = RawfileReopen(channel)
    BY <1>1, <1>3, <1>4 DEF Opened
  <2>2. Service!Reconnect
    BY <1>1, <1>3, <1>4, <2>1, SameFiles DEF Service!Reconnect
  <2> QED
    BY <2>2 DEF ServiceStep, Service!Next
<1>5. CASE ~Running
  <2>1. Opened = RawfileInit /\ Opened' = RawfileInit /\ Packets = <<>>
    BY <1>3, <1>5 DEF Opened, Packets
  <2>2. CASE Returning = <<>>
    BY <1>1, <1>3, <2>1, <2>2 DEF ServiceStep
  <2>3. CASE Returning # <<>>
    <3>1. PICK m : Returning = <<m>>
      BY <2>3 DEF Returning
    <3>2. Tail(Returning) = <<>>
      BY <3>1
    <3>3. Service!Take
      BY <1>1, <1>3, <2>1, <2>3, <3>2 DEF Service!Take
    <3> QED
      BY <3>3 DEF ServiceStep, Service!Next
  <2> QED
    BY <2>2, <2>3
<1> QED
  BY <1>4, <1>5

LEMMA ServiceKept == ServerInv /\ ServerInv' /\ [CommandNext]_vars => ServiceStep
<1> SUFFICES ASSUME ServerInv, ServerInv', [CommandNext]_vars PROVE ServiceStep
  OBVIOUS
<1>1. ASSUME NEW rq \in Requests, SendWhenAllowed(rq) PROVE ServiceStep
  BY <1>1, SendAsks
<1>2. CASE CleanHangUp
  BY <1>2, HangUpReconnects
<1>3. CASE UsbIn
  <2>1. UNCHANGED <<requests, got, outq, hup, pc, txBuf, txBusy, channel>> /\ Stream' = Stream
    BY <1>3, UsbInStep DEF UsbIn, txVars
  <2> QED
    BY <2>1 DEF ServiceStep, Packets, Returning, Outgoing, Waiting, Opened, Running
<1>4. CASE UsbOut
  BY <1>4, UsbOutTakes
<1>5. CASE Reopen
  <2>1. /\ UNCHANGED <<requests, got, outq, pc, txBuf, txBusy>> /\ Stream' = Stream
        /\ pc = "poll" /\ hup /\ hup' = FALSE /\ channel' = RawfileReopen(channel)
    BY <1>5 DEF Reopen, Stream, clientVars, txVars
  <2>2. Opened' = Opened
    BY <2>1 DEF Opened, Running
  <2> QED
    BY <2>1, <2>2 DEF ServiceStep, Packets, Returning, Outgoing, Waiting, Running
<1>6. CASE InputRead
  BY <1>6, InputReadServes
<1>7. CASE OutputWrite
  BY <1>7, OutputWriteSends
<1>8. CASE PollIn \/ InputEnd \/ OutputEnd \/ UNCHANGED vars
  <2>1. /\ UNCHANGED <<requests, got, outq, hup, txBuf, txBusy, channel>> /\ Stream' = Stream
        /\ pc' = "crashed" <=> pc = "crashed"
    BY <1>8 DEF PollIn, InputEnd, OutputEnd, vars, clientVars, portVars, txVars, Stream
  <2>2. Running' = Running
    BY <2>1 DEF Running
  <2> QED
    BY <2>1, <2>2 DEF ServiceStep, Packets, Returning, Outgoing, Waiting, Opened
<1> QED
  BY <1>1, <1>2, <1>3, <1>4, <1>5, <1>6, <1>7, <1>8 DEF CommandNext, WireNext, ServerNext

LEMMA ServiceInit == Init => Service!Init
<1> SUFFICES ASSUME Init PROVE Service!Init
  OBVIOUS
<1>1. /\ requests = <<>> /\ got = <<>> /\ outq = <<>> /\ hup = FALSE /\ pc = "poll"
      /\ rxBuf = <<>> /\ inq = <<>> /\ toSend = <<>> /\ txBusy = FALSE
      /\ channel = RawfileInit
  BY DEF Init
<1>2. Stream = <<>> /\ Outgoing = <<>> /\ Len(requests) = 0
  BY <1>1, EmptySeq, ConcatEmptySeq DEF Stream, Outgoing
<1>3. /\ Packets = <<>> /\ Returning = <<>> /\ Waiting = <<>> /\ Opened = RawfileInit
      /\ Running = TRUE
  BY <1>1, <1>2 DEF Packets, Returning, Waiting, Opened, Running
<1> QED
  BY <1>2, <1>3, SameFiles DEF Service!Init

-----------------------------------------------------------------------------
(* Clients that send at any time, and a port that hangs up in a request *)

\* What a packet read from the port is taken for is a request that was made.
ByteUpTo(n) == [msg : 1 .. n, len : Nat \ {0}, off : Nat]
Asked    == ByteUpTo(Len(requests))

\* Of a packet that has come whole nothing is left in rx_buffer.
InPart == pc # "crashed" /\ rxBuf # <<>> => Len(rxBuf) < PacketLen(rxBuf)

\* No variable leaves its type, whatever rx_buffer kept of a packet that the port
\* lost the rest of.
AnyInv ==
  /\ TypeOK
  /\ Len(requests) <= MaxRequests
  /\ toSend \in Seq(Asked) /\ inq \in Seq(Asked) /\ rxBuf \in Seq(Asked)
  /\ InPart

LEMMA AskedGrows ==
  ASSUME NEW m \in Nat, NEW n \in Nat, m <= n
  PROVE  Seq(ByteUpTo(m)) \subseteq Seq(ByteUpTo(n))
<1>1. ByteUpTo(m) \subseteq ByteUpTo(n)
  BY DEF ByteUpTo
<1> SUFFICES ASSUME NEW s \in Seq(ByteUpTo(m)) PROVE s \in Seq(ByteUpTo(n))
  OBVIOUS
<1> PICK S : S = ByteUpTo(n)
  OBVIOUS
<1>2. \A k \in 1 .. Len(s) : s[k] \in S
  BY <1>1, ElementOfSeq
<1>3. s \in Seq(S)
  BY <1>2, LenProperties, IsASeq
<1> QED
  BY <1>3

LEMMA AnySend ==
  ASSUME AnyInv, NEW rq \in Requests, Send(rq)
  PROVE  AnyInv'
<1> DEFINE n == Len(requests)
<1>0. TypeOK /\ toSend \in Seq(Asked) /\ inq \in Seq(Asked) /\ rxBuf \in Seq(Asked)
  BY DEF AnyInv
<1>1. /\ requests' = Append(requests, rq) /\ toSend' = Frame(n + 1, RequestLen(rq))
      /\ n < MaxRequests
      /\ UNCHANGED <<got, answers, lost, portVars, pc, rxBuf, txVars, channel, log>>
  BY DEF Send
<1>2. n \in Nat /\ requests \in Seq(Requests) /\ MaxRequests \in Nat
  BY <1>0, Lengths
<1>3. requests' \in Seq(Requests) /\ Len(requests') = n + 1
  BY <1>1, <1>2, AppendProperties
<1>4. RequestLen(rq) \in Nat \ {0}
  <2>1. rq \in Request
    OBVIOUS
  <2> QED
    BY <2>1, RequestType
<1>5. toSend' \in Seq(ByteUpTo(n + 1)) /\ toSend' \in Seq(ByteOf(Nat))
  <2> DEFINE len == RequestLen(rq)
  <2>1. n + 1 \in 1 .. n + 1 /\ n + 1 \in Nat /\ HdrSize + len \in Nat
    BY <1>2, <1>4
  <2>2. /\ toSend' \in Seq(ByteOf(Nat)) /\ Len(toSend') = HdrSize + len
        /\ \A k \in 1 .. HdrSize + len :
             toSend'[k] = [msg |-> n + 1, len |-> len, off |-> k - 1]
    <3>1. toSend' = Frame(n + 1, len)
      BY <1>1
    <3> HIDE DEF n, len
    <3>2. len \in Nat
      BY <1>4 DEF len
    <3> PICK m : m = n + 1
      OBVIOUS
    <3>3. m \in Nat
      BY <2>1
    <3>4. /\ Frame(m, len) \in Seq(ByteOf(Nat)) /\ Len(Frame(m, len)) = HdrSize + len
          /\ \A k \in 1 .. HdrSize + len :
               Frame(m, len)[k] = [msg |-> m, len |-> len, off |-> k - 1]
      BY <3>2, <3>3, FrameType, ZenonT(30)
    <3> QED
      BY <3>1, <3>4
  <2>3. \A k \in 1 .. Len(toSend') : toSend'[k] \in ByteUpTo(n + 1)
    BY <1>4, <2>1, <2>2 DEF ByteUpTo
  <2> QED
    BY <2>1, <2>2, <2>3, LenProperties, IsASeq
<1>6. Asked = ByteUpTo(n) /\ Asked' = ByteUpTo(n + 1)
  BY <1>3 DEF Asked
<1>7. Seq(ByteUpTo(n)) \subseteq Seq(ByteUpTo(n + 1))
  <2>1. n + 1 \in Nat /\ n <= n + 1
    BY <1>2
  <2> HIDE DEF n
  <2> QED
    BY <1>2, <2>1, AskedGrows
<1>8. inq' \in Seq(Asked') /\ rxBuf' \in Seq(Asked')
  BY <1>0, <1>1, <1>6, <1>7 DEF portVars
<1>9. TypeOK'
  BY <1>0, <1>1, <1>3, <1>5 DEF TypeOK, portVars, txVars
<1>10. Len(requests') <= MaxRequests
  BY <1>1, <1>2, <1>3
<1> QED
  BY <1>0, <1>1, <1>5, <1>6, <1>8, <1>9, <1>10 DEF AnyInv, InPart, PacketLen

LEMMA AnyUsbIn ==
  ASSUME AnyInv, UsbIn
  PROVE  AnyInv'
<1>0. /\ TypeOK /\ Len(requests) <= MaxRequests
      /\ toSend \in Seq(Asked) /\ inq \in Seq(Asked) /\ rxBuf \in Seq(Asked)
      /\ InPart
  BY DEF AnyInv
<1>1. PICK n \in 1 .. Len(toSend) : /\ inq' = inq \o SubSeq(toSend, 1, n)
                                    /\ toSend' = SubSeq(toSend, n + 1, Len(toSend))
  BY DEF UsbIn
<1>2. UNCHANGED <<requests, got, answers, lost, portRoom, outq, hup, breaks, pc, rxBuf,
                  txVars, channel, log>>
  BY DEF UsbIn
<1>3. n \in 0 .. Len(toSend)
  OBVIOUS
<1>4. \A S : toSend \in Seq(S) /\ inq \in Seq(S) => toSend' \in Seq(S) /\ inq' \in Seq(S)
  <2> SUFFICES ASSUME NEW S, toSend \in Seq(S), inq \in Seq(S)
               PROVE  toSend' \in Seq(S) /\ inq' \in Seq(S)
    OBVIOUS
  <2>1. SubSeq(toSend, 1, n) \in Seq(S) /\ SubSeq(toSend, n + 1, Len(toSend)) \in Seq(S)
    BY <1>3, Cut
  <2> QED
    BY <1>1, <2>1, ConcatProperties
<1>5. toSend' \in Seq(Asked) /\ inq' \in Seq(Asked)
  BY <1>0, <1>4
<1>6. toSend' \in Seq(ByteOf(Nat)) /\ inq' \in Seq(ByteOf(Nat))
  BY <1>0, <1>4 DEF TypeOK
<1>7. TypeOK'
  BY <1>0, <1>2, <1>6 DEF TypeOK, txVars
<1>8. Asked' = Asked
  BY <1>2 DEF Asked
<1> QED
  BY <1>0, <1>2, <1>5, <1>7, <1>8 DEF AnyInv, InPart, PacketLen

LEMMA AnyUsbOut ==
  ASSUME AnyInv, UsbOut
  PROVE  AnyInv'
<1>0. /\ TypeOK /\ Len(requests) <= MaxRequests
      /\ toSend \in Seq(Asked) /\ inq \in Seq(Asked) /\ rxBuf \in Seq(Asked)
      /\ InPart
  BY DEF AnyInv
<1> DEFINE frame == Append(got, Head(outq))
           answer == [req |-> frame[1].msg.req, reply |-> frame[1].msg.reply,
                      whole |-> frame = Frame(frame[1].msg, frame[1].len)]
<1>1. /\ outq # <<>> /\ outq' = Tail(outq)
      /\ \/ got' = <<>> /\ answers' = Append(answers, answer)
         \/ got' = frame /\ answers' = answers
      /\ UNCHANGED <<requests, toSend, lost, portRoom, inq, hup, breaks, pc, rxBuf, txVars,
                     channel, log>>
  BY DEF UsbOut
<1>2. /\ outq \in Seq(ByteOf(Answer)) /\ got \in Seq(ByteOf(Answer)) /\ Len(outq) <= portRoom
      /\ answers \in Seq([req : Nat, reply : Response, whole : BOOLEAN])
      /\ Len(outq) \in Nat /\ Len(got) \in Nat /\ portRoom \in Nat
  BY <1>0, Lengths DEF TypeOK
<1>3. /\ Head(outq) \in ByteOf(Answer) /\ Tail(outq) \in Seq(ByteOf(Answer))
      /\ Len(Tail(outq)) = Len(outq) - 1
  BY <1>1, <1>2, HeadTailProperties
<1>4. frame \in Seq(ByteOf(Answer)) /\ Len(frame) = Len(got) + 1
  BY <1>2, <1>3, AppendProperties
<1>5. answer \in [req : Nat, reply : Response, whole : BOOLEAN]
  <2>1. 1 \in 1 .. Len(frame)
    BY <1>2, <1>4
  <2> HIDE DEF frame
  <2>2. frame[1] \in ByteOf(Answer)
    BY <1>4, <2>1, ElementOfSeq
  <2>3. frame[1].msg \in Answer
    BY <2>2 DEF ByteOf
  <2>4. frame[1].msg.req \in Nat /\ frame[1].msg.reply \in Response
    BY <2>3 DEF Answer
  <2>5. (frame = Frame(frame[1].msg, frame[1].len)) \in BOOLEAN
    OBVIOUS
  <2> QED
    BY <2>4, <2>5
<1> HIDE DEF frame, answer
<1>6. got' \in Seq(ByteOf(Answer))
  BY <1>1, <1>4, EmptySeq
<1>7. answers' \in Seq([req : Nat, reply : Response, whole : BOOLEAN])
  <2>1. answers' = Append(answers, answer) \/ answers' = answers
    BY <1>1
  <2>2. Append(answers, answer) \in Seq([req : Nat, reply : Response, whole : BOOLEAN])
    BY <1>2, <1>5, AppendProperties
  <2> QED
    BY <1>2, <2>1, <2>2
<1>8. outq' \in Seq(ByteOf(Answer)) /\ Len(outq') <= portRoom'
  BY <1>1, <1>2, <1>3
<1>9. TypeOK'
  BY <1>0, <1>1, <1>6, <1>7, <1>8 DEF TypeOK, txVars
<1>10. Asked' = Asked
  BY <1>1 DEF Asked
<1> QED
  BY <1>0, <1>1, <1>9, <1>10 DEF AnyInv, InPart, PacketLen

LEMMA AnyHangUp ==
  ASSUME AnyInv, HangUp
  PROVE  AnyInv'
<1>0. /\ TypeOK /\ Len(requests) <= MaxRequests
      /\ rxBuf \in Seq(Asked)
      /\ InPart
  BY DEF AnyInv
<1>1. /\ breaks < MaxBreaks /\ hup' = TRUE /\ breaks' = breaks + 1
      /\ lost' = lost \/ lost' = lost \cup {Len(requests)}
      /\ toSend' = <<>> /\ inq' = <<>> /\ outq' = <<>> /\ got' = <<>>
      /\ UNCHANGED <<requests, answers, portRoom, pc, rxBuf, txVars, channel, log>>
  BY DEF HangUp
<1>2. Len(requests) \in Nat /\ lost \subseteq 0 .. MaxRequests /\ portRoom \in Nat
      /\ breaks \in 0 .. MaxBreaks
  BY <1>0, Lengths DEF TypeOK
<1>3. lost' \subseteq 0 .. MaxRequests
  <2>1. Len(requests) \in 0 .. MaxRequests
    BY <1>0, <1>2
  <2> QED
    BY <1>1, <1>2, <2>1
<1>4. breaks' \in 0 .. MaxBreaks /\ hup' \in BOOLEAN
  BY <1>1, <1>2
<1>5. \A S : toSend' \in Seq(S) /\ inq' \in Seq(S) /\ outq' \in Seq(S) /\ got' \in Seq(S)
  BY <1>1, EmptySeq
<1>6. Len(outq') <= portRoom'
  BY <1>1, <1>2, EmptySeq
<1>7. TypeOK'
  BY <1>0, <1>1, <1>3, <1>4, <1>5, <1>6 DEF TypeOK, txVars
<1>8. Asked' = Asked
  BY <1>1 DEF Asked
<1> QED
  BY <1>0, <1>1, <1>5, <1>7, <1>8 DEF AnyInv, InPart, PacketLen

LEMMA AnyReopen ==
  ASSUME AnyInv, Reopen
  PROVE  AnyInv'
<1>0. /\ TypeOK /\ Len(requests) <= MaxRequests
      /\ toSend \in Seq(Asked) /\ inq \in Seq(Asked) /\ rxBuf \in Seq(Asked)
      /\ InPart
  BY DEF AnyInv
<1> DEFINE e == [req |-> 0, whole |-> TRUE]
<1>1. /\ hup' = FALSE /\ channel' = RawfileReopen(channel) /\ log' = Append(log, e)
      /\ UNCHANGED <<requests, toSend, got, answers, lost, portRoom, inq, outq, breaks, pc,
                     rxBuf, txBuf, txPos, txBusy>>
  BY DEF Reopen, clientVars, txVars
<1>2. e \in [req : Nat, whole : BOOLEAN]
  OBVIOUS
<1> HIDE DEF e
<1>3. log' \in Seq([req : Nat, whole : BOOLEAN])
  BY <1>0, <1>1, <1>2, AppendProperties DEF TypeOK
<1>4. channel' \in Channel /\ hup' \in BOOLEAN
  BY <1>0, <1>1, ChannelType DEF TypeOK
<1>5. TypeOK'
  BY <1>0, <1>1, <1>3, <1>4 DEF TypeOK
<1>6. Asked' = Asked
  BY <1>1 DEF Asked
<1> QED
  BY <1>0, <1>1, <1>5, <1>6 DEF AnyInv, InPart, PacketLen

\* Whatever request the bytes of a packet begin with, it is answered, if at all,
\* with something that tx_buffer holds.
LEMMA AnyDispatch ==
  ASSUME TypeOK, NEW buf \in Seq(Asked), Len(buf) >= 1, NEW dend,
         ProcessPacket(buf, dend)
  PROVE  /\ channel' \in Channel /\ log' \in Seq([req : Nat, whole : BOOLEAN])
         /\ txBuf' \in Seq(ByteOf(Answer)) /\ txPos' \in 0 .. Len(txBuf')
         /\ txBusy' \in BOOLEAN
<1> DEFINE n   == buf[1].msg
           rq  == requests[n]
           e   == [req |-> n, whole |-> Len(buf) >= dend /\
                                        SubSeq(buf, 1, dend) = Frame(n, RequestLen(rq))]
           rps == Replies(channel', rq)
<1>1. /\ log' = Append(log, e) /\ channel' = AfterRequest(channel, rq)
      /\ \/ rps = <<>> /\ UNCHANGED txVars
         \/ rps # <<>> /\ SendPacket(n, rps[1])
  BY DEF ProcessPacket
<1>2. n \in 1 .. Len(requests)
  <2>1. 1 \in 1 .. Len(buf)
    OBVIOUS
  <2>2. buf[1] \in Asked
    BY <2>1, ElementOfSeq
  <2> QED
    BY <2>2 DEF Asked, ByteUpTo
<1>3. n \in Nat /\ rq \in Request
  BY <1>2, Lengths
<1> HIDE DEF n
<1>4. e \in [req : Nat, whole : BOOLEAN]
  BY <1>3
<1> HIDE DEF e
<1>5. log' \in Seq([req : Nat, whole : BOOLEAN])
  BY <1>1, <1>4, AppendProperties DEF TypeOK
<1> HIDE DEF rq
<1>6. channel \in Channel /\ channel' \in Channel
  BY <1>1, <1>3, AfterRequestFile DEF TypeOK
<1>7. CASE rps = <<>> /\ UNCHANGED txVars
  BY <1>5, <1>6, <1>7 DEF TypeOK, txVars
<1>8. CASE rps # <<>> /\ SendPacket(n, rps[1])
  <2> DEFINE rp == rps[1]
  <2>1. rp \in Response
    BY <1>1, <1>3, <1>6, <1>8, RepliesType
  <2> HIDE DEF rp
  <2>2. ReplyLen(rp) \in Nat
    BY <2>1, ReplyLenType
  <2> DEFINE msg == [req |-> n, reply |-> rp]
             len == ReplyLen(rp)
  <2>3. msg \in Answer
    BY <1>3, <2>1 DEF Answer
  <2>4. txBuf' = Frame(msg, len) /\ txPos' = 0 /\ txBusy' = TRUE
    BY <1>8 DEF SendPacket, rp
  <2> HIDE DEF msg, len
  <2>5. txBuf' \in Seq(ByteOf(Answer)) /\ Len(txBuf') \in Nat
    <3>1. len \in Nat
      BY <2>2 DEF len
    <3> QED
      BY <2>3, <2>4, <3>1, FrameType
  <2> QED
    BY <1>5, <1>6, <2>4, <2>5
<1> QED
  BY <1>1, <1>7, <1>8

LEMMA AnyInputRead ==
  ASSUME AnyInv, InputRead
  PROVE  AnyInv'
<1>0. /\ TypeOK /\ Len(requests) <= MaxRequests
      /\ toSend \in Seq(Asked) /\ inq \in Seq(Asked) /\ rxBuf \in Seq(Asked)
  BY DEF AnyInv
<1> PICK n : n = InputRoom(Len(inq))
  OBVIOUS
<1> DEFINE buf == rxBuf \o SubSeq(inq, 1, n)
<1>1. /\ n > 0 /\ inq' = SubSeq(inq, n + 1, Len(inq))
      /\ IF Complete(buf) THEN ProcessPacket(buf, PacketLen(buf))
                          ELSE UNCHANGED <<txVars, channel, log>>
      /\ rxBuf' = RxLeft(buf)
      /\ pc' = IF Excess(buf) THEN "crashed" ELSE "input"
      /\ UNCHANGED <<clientVars, portRoom, outq, hup, breaks>>
  BY DEF InputRead
<1>2. /\ Len(rxBuf) \in Nat /\ Len(inq) \in Nat /\ Len(rxBuf) <= RxBufSize
      /\ RxBufSize \in Nat
  BY <1>0, Lengths DEF TypeOK
<1>3. n \in 0 .. Len(inq) /\ Len(rxBuf) + n <= RxBufSize
  BY <1>1, <1>2 DEF InputRoom
\* The read is given what is left of rx_buffer.
<1>4. \A S : rxBuf \in Seq(S) /\ inq \in Seq(S) =>
        /\ buf \in Seq(S) /\ Len(buf) = Len(rxBuf) + n
        /\ inq' \in Seq(S)
  <2> SUFFICES ASSUME NEW S, rxBuf \in Seq(S), inq \in Seq(S)
               PROVE  buf \in Seq(S) /\ Len(buf) = Len(rxBuf) + n /\ inq' \in Seq(S)
    OBVIOUS
  <2>1. /\ SubSeq(inq, 1, n) \in Seq(S) /\ Len(SubSeq(inq, 1, n)) = n
        /\ SubSeq(inq, n + 1, Len(inq)) \in Seq(S)
    BY <1>3, Cut
  <2> QED
    BY <1>1, <2>1, ConcatProperties
<1>5. buf \in Seq(Asked) /\ Len(buf) = Len(rxBuf) + n /\ inq' \in Seq(Asked)
  BY <1>0, <1>4
<1>6. buf \in Seq(ByteOf(Nat)) /\ inq' \in Seq(ByteOf(Nat))
  BY <1>0, <1>4 DEF TypeOK
<1> HIDE DEF buf
<1>7. /\ channel' \in Channel /\ log' \in Seq([req : Nat, whole : BOOLEAN])
      /\ txBuf' \in Seq(ByteOf(Answer)) /\ txPos' \in 0 .. Len(txBuf')
      /\ txBusy' \in BOOLEAN
  <2>1. CASE Complete(buf)
    <3>1. Len(buf) >= 1
      BY <1>2, <1>3, <1>5, <2>1 DEF Complete
    <3> QED
      BY <1>0, <1>1, <1>5, <2>1, <3>1, AnyDispatch
  <2>2. CASE ~Complete(buf)
    BY <1>0, <1>1, <2>2 DEF TypeOK, txVars
  <2> QED
    BY <2>1, <2>2
<1>8. /\ rxBuf' \in Seq(Asked) /\ rxBuf' \in Seq(ByteOf(Nat)) /\ Len(rxBuf') <= RxBufSize
  <2>1. CASE rxBuf' = buf
    BY <1>3, <1>5, <1>6, <2>1
  <2>2. CASE rxBuf' = <<>>
    BY <1>2, <2>2, EmptySeq
  <2> QED
    BY <1>1, <2>1, <2>2 DEF RxLeft
<1>9. TypeOK'
  BY <1>0, <1>1, <1>6, <1>7, <1>8 DEF TypeOK, clientVars
<1>10. Asked' = Asked
  BY <1>1 DEF Asked, clientVars
<1>11. InPart'
  <2> SUFFICES ASSUME pc' # "crashed", rxBuf' # <<>>
               PROVE  Len(rxBuf') < PacketLen(rxBuf')
    BY DEF InPart, PacketLen
  <2>1. rxBuf' = buf /\ ~Excess(buf) /\ ~(Len(buf) > HdrSize /\ Len(buf) = PacketLen(buf))
    BY <1>1 DEF RxLeft
  <2>2. Len(buf) \in Nat /\ 1 \in 1 .. Len(buf)
    BY <1>1, <1>2, <1>3, <1>5
  <2>3. buf[1] \in Asked
    BY <1>5, <2>2, ElementOfSeq
  <2>4. buf[1].len \in Nat \ {0} /\ HdrSize \in Nat
    BY <2>3 DEF Asked, ByteUpTo
  <2> QED
    BY <2>1, <2>2, <2>4 DEF PacketLen, Excess
<1> QED
  BY <1>0, <1>1, <1>5, <1>8, <1>9, <1>10, <1>11 DEF AnyInv, clientVars

LEMMA AnyOutputWrite ==
  ASSUME AnyInv, OutputWrite
  PROVE  AnyInv'
<1>0. /\ TypeOK /\ Len(requests) <= MaxRequests
      /\ toSend \in Seq(Asked) /\ inq \in Seq(Asked) /\ rxBuf \in Seq(Asked)
      /\ InPart
  BY DEF AnyInv
<1>1. /\ txBuf \in Seq(ByteOf(Answer)) /\ outq \in Seq(ByteOf(Answer))
      /\ Len(txBuf) \in Nat /\ Len(outq) \in Nat /\ txPos \in 0 .. Len(txBuf)
      /\ portRoom \in Nat
  BY <1>0, Lengths DEF TypeOK
<1>2. /\ TxRest \in Seq(ByteOf(Answer)) /\ Len(TxRest) = Len(txBuf) - txPos
  BY <1>1, Cut DEF TxRest
<1> PICK rest : rest = TxRest
  OBVIOUS
<1> DEFINE room == portRoom - Len(outq)
           m == IF Len(rest) <= room THEN Len(rest) ELSE room
<1>3. /\ Len(outq) < portRoom
      /\ outq' = outq \o SubSeq(rest, 1, m) /\ txPos' = txPos + m
      /\ txBusy' \in BOOLEAN
      /\ pc = "output" /\ pc' \in {"output", "poll"}
      /\ UNCHANGED <<clientVars, portRoom, inq, hup, breaks, rxBuf, txBuf, channel, log>>
  BY DEF OutputWrite
<1>4. m \in 0 .. Len(rest) /\ m <= portRoom - Len(outq) /\ rest \in Seq(ByteOf(Answer))
      /\ Len(rest) = Len(txBuf) - txPos
  BY <1>1, <1>2, <1>3
<1> HIDE DEF m, room
<1>5. SubSeq(rest, 1, m) \in Seq(ByteOf(Answer)) /\ Len(SubSeq(rest, 1, m)) = m
  BY <1>4, Cut
<1>6. outq' \in Seq(ByteOf(Answer)) /\ Len(outq') = Len(outq) + m
  BY <1>1, <1>3, <1>5, ConcatProperties
<1>7. Len(outq') <= portRoom' /\ txPos' \in 0 .. Len(txBuf')
  BY <1>1, <1>3, <1>4, <1>6
<1>8. TypeOK'
  BY <1>0, <1>3, <1>6, <1>7 DEF TypeOK, clientVars
<1>9. Asked' = Asked
  BY <1>3 DEF Asked, clientVars
<1> QED
  BY <1>0, <1>3, <1>8, <1>9 DEF AnyInv, InPart, PacketLen, clientVars

LEMMA AnyInit == Init => AnyInv
<1> SUFFICES ASSUME Init PROVE AnyInv
  OBVIOUS
<1>1. ServerInv
  BY ServerInit
<1>2. TypeOK
  BY <1>1 DEF ServerInv
<1> QED
  BY <1>2, EmptySeq DEF Init, AnyInv, InPart

LEMMA AnyStep == AnyInv /\ [AnyNext]_vars => AnyInv'
<1> SUFFICES ASSUME AnyInv, [AnyNext]_vars PROVE AnyInv'
  OBVIOUS
<1>1. CASE \E rq \in Requests : Send(rq)
  BY <1>1, AnySend
<1>2. CASE HangUp
  BY <1>2, AnyHangUp
<1>3. CASE UsbIn
  BY <1>3, AnyUsbIn
<1>4. CASE UsbOut
  BY <1>4, AnyUsbOut
<1>5. CASE Reopen
  BY <1>5, AnyReopen
<1>6. CASE InputRead
  BY <1>6, AnyInputRead
<1>7. CASE OutputWrite
  BY <1>7, AnyOutputWrite
<1>8. CASE PollIn \/ InputEnd \/ OutputEnd
  <2>1. /\ UNCHANGED <<clientVars, portVars, rxBuf, txVars, channel, log>>
        /\ pc' \in {"poll", "input", "output"}
    BY <1>8 DEF PollIn, InputEnd, OutputEnd
  <2>2. UNCHANGED <<requests, toSend, got, answers, lost, portRoom, inq, outq, hup, breaks,
                    rxBuf, txBuf, txPos, txBusy, channel, log>>
    BY <2>1 DEF clientVars, portVars, txVars
  <2>3. TypeOK'
    BY <2>1, <2>2 DEF AnyInv, TypeOK
  <2>4. Asked' = Asked
    BY <2>2 DEF Asked
  <2> QED
    BY <1>8, <2>1, <2>2, <2>3, <2>4 DEF AnyInv, InPart, PacketLen, PollIn, InputEnd, OutputEnd
<1>9. CASE UNCHANGED vars
  <2>1. UNCHANGED <<requests, toSend, got, answers, lost, portRoom, inq, outq, hup, breaks, pc,
                    rxBuf, txBuf, txPos, txBusy, channel, log>>
    BY <1>9 DEF vars, clientVars, portVars, txVars
  <2>2. TypeOK'
    BY <2>1 DEF AnyInv, TypeOK
  <2>3. Asked' = Asked
    BY <2>1 DEF Asked
  <2> QED
    BY <2>1, <2>2, <2>3 DEF AnyInv, InPart, PacketLen
<1> QED
  BY <1>1, <1>2, <1>3, <1>4, <1>5, <1>6, <1>7, <1>8, <1>9
  DEF AnyNext, WireNext, ServerNext

\* No byte of s is of the message msg.
NoneOf(s, msg) == \A k \in 1 .. Len(s) : s[k].msg # msg

LEMMA NoneOfParts ==
  ASSUME NEW S, NEW s \in Seq(S), NEW t \in Seq(S), NEW msg, NoneOf(s, msg), NoneOf(t, msg),
         NEW n \in 0 .. Len(t)
  PROVE  /\ NoneOf(SubSeq(t, 1, n), msg) /\ NoneOf(SubSeq(t, n + 1, Len(t)), msg)
         /\ NoneOf(s \o SubSeq(t, 1, n), msg)
<1>1. /\ SubSeq(t, 1, n) \in Seq(S) /\ Len(SubSeq(t, 1, n)) = n
      /\ \A k \in 1 .. n : SubSeq(t, 1, n)[k] = t[k] /\ k \in 1 .. Len(t)
  OBVIOUS
<1>2. /\ SubSeq(t, n + 1, Len(t)) \in Seq(S) /\ Len(SubSeq(t, n + 1, Len(t))) = Len(t) - n
      /\ \A k \in 1 .. Len(t) - n : /\ SubSeq(t, n + 1, Len(t))[k] = t[n + k]
                                    /\ n + k \in 1 .. Len(t)
  BY SMTT(30)
<1> PICK u : u = SubSeq(t, 1, n)
  OBVIOUS
<1>3. u \in Seq(S) /\ Len(u) = n /\ NoneOf(u, msg)
  BY <1>1 DEF NoneOf
<1>4. /\ Len(s \o u) = Len(s) + Len(u) /\ Len(s) \in Nat /\ Len(u) \in Nat
      /\ \A k \in 1 .. Len(s) : (s \o u)[k] = s[k]
      /\ \A k \in 1 .. Len(u) : (s \o u)[Len(s) + k] = u[k]
  BY <1>3
<1>5. ASSUME NEW k \in 1 .. Len(s) + Len(u) PROVE (s \o u)[k].msg # msg
  <2>1. CASE k <= Len(s)
    BY <1>4, <2>1 DEF NoneOf
  <2>2. CASE k > Len(s)
    <3> DEFINE j == k - Len(s)
    <3>1. j \in 1 .. Len(u) /\ Len(s) + j = k
      BY <1>4, <2>2
    <3> HIDE DEF j
    <3> QED
      BY <1>3, <1>4, <3>1 DEF NoneOf
  <2> QED
    BY <1>4, <2>1, <2>2
<1>6. NoneOf(s \o u, msg)
  BY <1>4, <1>5 DEF NoneOf
<1> QED
  BY <1>2, <1>3, <1>6 DEF NoneOf

\* One request more, or some bytes on from USB to the port: none of them is of the
\* packet that was cut short.
LEMMA TornSend ==
  ASSUME AnyInv, Torn, NEW rq \in Requests, Send(rq)
  PROVE  Torn'
<1>1. /\ toSend' = Frame(Len(requests) + 1, RequestLen(rq))
      /\ UNCHANGED <<rxBuf, inq>>
  BY DEF Send, portVars
<1>0. TypeOK
  BY DEF AnyInv
<1>2. Len(requests) \in Nat /\ RequestLen(rq) \in Nat
  <2>1. rq \in Request
    OBVIOUS
  <2> QED
    <3>1. Len(requests) \in Nat
      BY <1>0, Lengths
    <3>2. RequestLen(rq) \in {1, 2}
      BY <2>1, RequestType
    <3> QED
      BY <3>1, <3>2
<1>3. rxBuf[1].msg \in 1 .. Len(requests)
  <2>1. rxBuf \in Seq(Asked) /\ rxBuf # <<>>
    BY DEF AnyInv, Torn
  <2>2. 1 \in 1 .. Len(rxBuf)
    BY <2>1, EmptySeq
  <2>3. rxBuf[1] \in Asked
    BY <2>1, <2>2, ElementOfSeq
  <2> QED
    BY <2>3 DEF Asked, ByteUpTo
<1>4. \A k \in 1 .. Len(toSend') : toSend'[k].msg = Len(requests) + 1
  <2> DEFINE m == Len(requests) + 1
  <2>1. m \in Nat
    BY <1>2
  <2> HIDE DEF m
  <2>2. /\ Len(Frame(m, RequestLen(rq))) = HdrSize + RequestLen(rq)
        /\ \A k \in 1 .. HdrSize + RequestLen(rq) :
             Frame(m, RequestLen(rq))[k] = [msg |-> m, len |-> RequestLen(rq), off |-> k - 1]
    BY <1>2, <2>1, FrameType
  <2>3. toSend' = Frame(m, RequestLen(rq))
    BY <1>1 DEF m
  <2>4. \A k \in 1 .. Len(toSend') : toSend'[k].msg = m
    BY <2>2, <2>3
  <2> QED
    BY <2>4 DEF m
<1>5. \A k \in 1 .. Len(toSend') : toSend'[k].msg # rxBuf[1].msg
  BY <1>2, <1>3, <1>4
<1> QED
  BY <1>1, <1>5 DEF Torn, PacketLen

LEMMA TornUsbIn ==
  ASSUME AnyInv, Torn, UsbIn
  PROVE  Torn'
<1>1. PICK n \in 1 .. Len(toSend) : /\ inq' = inq \o SubSeq(toSend, 1, n)
                                    /\ toSend' = SubSeq(toSend, n + 1, Len(toSend))
  BY DEF UsbIn
<1>2. rxBuf' = rxBuf
  BY DEF UsbIn
<1>3. toSend \in Seq(Asked) /\ inq \in Seq(Asked) /\ n \in 0 .. Len(toSend)
  BY DEF AnyInv
<1>4. NoneOf(inq, rxBuf[1].msg) /\ NoneOf(toSend, rxBuf[1].msg)
  BY DEF Torn, NoneOf
<1>5. NoneOf(inq', rxBuf[1].msg) /\ NoneOf(toSend', rxBuf[1].msg)
  BY <1>1, <1>3, <1>4, NoneOfParts
<1> QED
  BY <1>2, <1>5 DEF Torn, NoneOf, PacketLen

\* A read takes the start of another packet for the rest of it.
LEMMA TornRead ==
  ASSUME AnyInv, Torn, InputRead
  PROVE  Torn' \/ ~InStep'
<1> PICK n : n = InputRoom(Len(inq))
  OBVIOUS
<1> DEFINE buf == rxBuf \o SubSeq(inq, 1, n)
           m == rxBuf[1].msg
           dend == PacketLen(buf)
<1>0. TypeOK /\ inq \in Seq(Asked) /\ rxBuf \in Seq(Asked) /\ toSend \in Seq(Asked)
  BY DEF AnyInv
<1>1. /\ n > 0 /\ inq' = SubSeq(inq, n + 1, Len(inq)) /\ toSend' = toSend
      /\ IF Complete(buf) THEN ProcessPacket(buf, PacketLen(buf)) ELSE log' = log
      /\ rxBuf' = RxLeft(buf)
  BY DEF InputRead, clientVars
<1>2. /\ Len(rxBuf) \in Nat /\ Len(inq) \in Nat /\ Len(rxBuf) <= RxBufSize
      /\ RxBufSize \in Nat /\ rxBuf # <<>> /\ Len(rxBuf) < PacketLen(rxBuf)
      /\ NoneOf(inq, m) /\ NoneOf(toSend, m)
  BY <1>0, Lengths DEF TypeOK, Torn, NoneOf
<1>3. n \in 0 .. Len(inq) /\ n \in 1 .. Len(inq) /\ Len(rxBuf) \in Nat \ {0}
  <2>1. Len(rxBuf) # 0
    BY <1>0, <1>2, EmptySeq
  <2> QED
    BY <1>0, <1>1, <1>2, <2>1 DEF InputRoom
<1>4. /\ buf \in Seq(Asked) /\ Len(buf) = Len(rxBuf) + n
      /\ buf[1] = rxBuf[1] /\ buf[Len(rxBuf) + 1] = inq[1]
  <2> PICK t : t = SubSeq(inq, 1, n)
    OBVIOUS
  <2>1. t \in Seq(Asked) /\ Len(t) = n
    BY <1>0, <1>3, Cut
  <2>2. t[1] = inq[1]
    BY <1>0, <1>3
  <2>3. /\ rxBuf \o t \in Seq(Asked) /\ Len(rxBuf \o t) = Len(rxBuf) + Len(t)
        /\ \A k \in 1 .. Len(rxBuf) : (rxBuf \o t)[k] = rxBuf[k]
        /\ \A k \in 1 .. Len(t) : (rxBuf \o t)[Len(rxBuf) + k] = t[k]
    BY <1>0, <2>1
  <2>4. 1 \in 1 .. Len(rxBuf) /\ 1 \in 1 .. Len(t)
    BY <1>3, <2>1
  <2> QED
    BY <2>1, <2>2, <2>3, <2>4
<1>5. NoneOf(inq', m) /\ inq[1].msg # m
  <2>1. NoneOf(inq', m)
    BY <1>0, <1>1, <1>2, <1>3, NoneOfParts
  <2>2. 1 \in 1 .. Len(inq)
    BY <1>2, <1>3
  <2> QED
    BY <1>2, <2>1, <2>2 DEF NoneOf
<1> HIDE DEF buf
<1>6. /\ m \in 1 .. Len(requests) /\ rxBuf[1].len \in Nat \ {0} /\ HdrSize \in Nat \ {0}
      /\ dend = HdrSize + rxBuf[1].len
  <2>1. 1 \in 1 .. Len(rxBuf)
    BY <1>3
  <2>2. rxBuf[1] \in Asked
    BY <1>0, <2>1, ElementOfSeq
  <2> QED
    BY <1>4, <2>2 DEF Asked, ByteUpTo, PacketLen
<1>7. Len(rxBuf) < dend
  BY <1>2, <1>4 DEF PacketLen
<1> PICK len0 : len0 = rxBuf[1].len
  OBVIOUS
<1>10. len0 \in Nat \ {0} /\ HdrSize \in Nat \ {0} /\ dend = HdrSize + len0
  BY <1>6
<1>11. Len(buf) \in Nat
  <2>1. Len(buf) = Len(rxBuf) + n
    BY <1>4
  <2> QED
    BY <1>2, <1>3, <2>1
<1>8. CASE ~Complete(buf)
  <2>1. rxBuf' = buf /\ Len(buf) < dend
    <3> PICK pl : pl = dend
      OBVIOUS
    <3>0. pl = HdrSize + len0 /\ len0 \in Nat \ {0} /\ HdrSize \in Nat \ {0}
      BY <1>10
    <3>1. pl \in Nat /\ HdrSize < pl /\ Len(buf) \in Nat /\ HdrSize \in Nat
      BY <1>11, <3>0
    <3>2. ~(Len(buf) > HdrSize /\ Len(buf) >= pl)
      BY <1>8 DEF Complete
    <3>3. Len(buf) < pl
      BY <3>1, <3>2
    <3>4. rxBuf' = IF Len(buf) > HdrSize /\ Len(buf) = pl THEN <<>> ELSE buf
      BY <1>1 DEF RxLeft
    <3> QED
      BY <3>1, <3>3, <3>4
  <2>2. rxBuf' # <<>> /\ rxBuf'[1] = rxBuf[1]
    <3>1. Len(rxBuf') # 0
      BY <1>2, <1>3, <1>4, <2>1
    <3> QED
      BY <1>4, <2>1, <3>1, EmptySeq
  <2>3. Torn'
    BY <1>1, <1>2, <1>4, <1>5, <1>6, <2>1, <2>2 DEF Torn, NoneOf, PacketLen
  <2> QED
    BY <2>3
<1>9. CASE Complete(buf)
  <2>1. dend <= Len(buf) /\ dend \in 1 .. Len(buf)
    <3> PICK pl : pl = dend
      OBVIOUS
    <3>0. pl = HdrSize + len0 /\ len0 \in Nat \ {0} /\ HdrSize \in Nat \ {0}
      BY <1>10
    <3>1. Len(buf) >= pl
      BY <1>9 DEF Complete
    <3>2. pl \in Nat /\ 1 <= pl /\ Len(buf) \in Nat
      BY <1>11, <3>0
    <3> QED
      BY <3>1, <3>2
  <2> DEFINE frame == Frame(m, RequestLen(requests[m]))
             part  == SubSeq(buf, 1, dend)
             e     == [req |-> m, whole |-> Len(buf) >= dend /\ part = frame]
  <2>2. log' = Append(log, e)
    BY <1>1, <1>4, <1>9 DEF ProcessPacket
  <2>3. part # frame
    <3>1. Len(rxBuf) + 1 \in 1 .. dend
      BY <1>3, <1>6, <1>7
    <3>2. part[Len(rxBuf) + 1] = inq[1] /\ Len(part) = dend
      <4>1. part[Len(rxBuf) + 1] = buf[Len(rxBuf) + 1] /\ Len(part) = dend
        BY <1>4, <2>1, <3>1
      <4> QED
        BY <1>4, <4>1
    <3> DEFINE len == RequestLen(requests[m])
    <3>3. m \in Nat /\ len \in Nat
      <4>1. len \in {1, 2}
        BY <1>0, <1>6, Lengths
      <4>2. Len(requests) \in Nat
        BY <1>0, Lengths
      <4> HIDE DEF m
      <4> QED
        BY <1>6, <4>1, <4>2
    <3>4. /\ Len(frame) = HdrSize + RequestLen(requests[m])
          /\ \A k \in 1 .. HdrSize + RequestLen(requests[m]) : frame[k].msg = m
      <4> HIDE DEF m, len
      <4>1. /\ Len(Frame(m, len)) = HdrSize + len
            /\ \A k \in 1 .. HdrSize + len :
                 Frame(m, len)[k] = [msg |-> m, len |-> len, off |-> k - 1]
        BY <3>3, FrameType
      <4>2. \A k \in 1 .. HdrSize + len : Frame(m, len)[k].msg = m
        BY <4>1
      <4> QED
        BY <4>1, <4>2 DEF len
    <3> HIDE DEF frame, part
    <3>5. part = frame => part[Len(rxBuf) + 1].msg = m
      BY <3>1, <3>2, <3>4
    <3> QED
      BY <1>5, <3>2, <3>5
  <2>4. ~e.whole
    BY <2>3
  <2> HIDE DEF e
  <2>5. Len(log') \in 1 .. Len(log') /\ log'[Len(log')] = e
    BY <1>0, <2>2, Lengths, AppendProperties DEF TypeOK
  <2> QED
    BY <2>4, <2>5 DEF InStep
<1> QED
  BY <1>8, <1>9

LEMMA TornHangUp ==
  ASSUME AnyInv, HangUp, rxBuf # <<>>, pc # "crashed"
  PROVE  Torn'
<1>1. toSend' = <<>> /\ inq' = <<>> /\ rxBuf' = rxBuf
  BY DEF HangUp
<1>2. rxBuf \in Seq(Asked) /\ Len(rxBuf) < PacketLen(rxBuf)
  BY DEF AnyInv, InPart
<1> QED
  BY <1>1, <1>2, EmptySeq DEF Torn, PacketLen

LEMMA TornStep ==
  ASSUME AnyInv, [AnyNext]_vars
  PROVE  /\ HangUp /\ rxBuf # <<>> /\ pc # "crashed" => Torn'
         /\ Torn => Torn' \/ ~InStep'
<1>1. HangUp /\ rxBuf # <<>> /\ pc # "crashed" => Torn'
  BY TornHangUp
<1> SUFFICES ASSUME Torn PROVE Torn' \/ ~InStep'
  BY <1>1
<1>2. CASE \E rq \in Requests : Send(rq)
  BY <1>2, TornSend
<1>3. CASE UsbIn
  BY <1>3, TornUsbIn
<1>4. CASE InputRead
  BY <1>4, TornRead
<1>5. CASE HangUp
  <2>1. toSend' = <<>> /\ inq' = <<>> /\ rxBuf' = rxBuf
    BY <1>5 DEF HangUp
  <2> QED
    BY <2>1, EmptySeq DEF Torn, PacketLen
<1>6. CASE UsbOut \/ Reopen \/ PollIn \/ InputEnd \/ OutputWrite \/ OutputEnd
           \/ UNCHANGED vars
  <2>1. UNCHANGED <<rxBuf, inq, toSend>>
    BY <1>6 DEF UsbOut, Reopen, PollIn, InputEnd, OutputWrite, OutputEnd, vars, clientVars,
                portVars
  <2> QED
    BY <2>1 DEF Torn, PacketLen
<1> QED
  BY <1>2, <1>3, <1>4, <1>5, <1>6 DEF AnyNext, WireNext, ServerNext

-----------------------------------------------------------------------------
(* What it all shows *)

\* Whatever bytes its clients send as the commands do, every variable of the
\* server keeps to its type: in particular no read goes past the end of
\* rx_buffer (read in process_input), and tx_pos never passes the end of the
\* answer (process_output).
THEOREM TypeCorrectForCommands == CommandSpec => []TypeOK
<1>1. ServerInv => TypeOK
  BY DEF ServerInv
<1> QED
  BY <1>1, ServerInvHolds, PTL

\* However the bytes of requests come in, and though one may be on its way
\* behind another, process_packet is given each whole, once, and in the order in
\* which they were made: also when the port hung up between them.
THEOREM KeepsInStepForCommands == CommandSpec => []DispatchesWhatWasSent
<1>1. ServerInv => DispatchesWhatWasSent
  BY DEF ServerInv, Histories
<1> QED
  BY <1>1, ServerInvHolds, PTL

\* However the port takes an answer, and though a request that has none may be
\* dispatched meanwhile, it comes whole, and is what the file open at that point
\* of the dispatches calls for, in the order of the requests.
THEOREM AnswersRightForCommands == CommandSpec => []AnswersAreRight
<1>1. ServerInv => AnswersAreRight
  BY DEF ServerInv, Histories
<1> QED
  BY <1>1, ServerInvHolds, PTL

\* service_loop, the port and USB move bytes in pieces of any size; together
\* they are the service that takes whole requests in order and answers each at
\* once: what the commands are proved to use.
THEOREM ServiceImplemented == CommandSpec => ImplementsService
<1>1. ServerInv /\ ServerInv' /\ [CommandNext]_vars => [Service!Next]_(Service!serviceVars)
  <2> SUFFICES ASSUME ServerInv, ServerInv', [CommandNext]_vars PROVE ServiceStep
    BY DEF ServiceStep, Service!serviceVars
  <2> QED
    BY ServiceKept
<1> QED
  BY <1>1, ServiceInit, ServerInvHolds, PTL DEF CommandSpec, ImplementsService, Service!Spec

\* Clients that leave the link alone until it is quiet send as the commands do:
\* so all of the above holds for them.
THEOREM WaitingClients == Spec => CommandSpec
  BY QuietClients, PTL

\* The same service for clients that leave the link alone until it is quiet.
THEOREM ServiceForWaiting == Spec => ImplementsService
  BY WaitingClients, ServiceImplemented, PTL

\* Neither of process_input's and process_output's buffers is overrun for them.
THEOREM TypeCorrect == Spec => []TypeOK
  BY WaitingClients, TypeCorrectForCommands, PTL

\* process_packet is given each of their requests whole, once, and in order.
THEOREM KeepsInStep == Spec => []DispatchesWhatWasSent
  BY WaitingClients, KeepsInStepForCommands, PTL

\* They get each answer whole, and it is what their requests call for.
THEOREM AnswersRight == Spec => []AnswersAreRight
  BY WaitingClients, AnswersRightForCommands, PTL

\* Clients that send at any time, whatever is due, and a port that hangs up at any
\* time, in the middle of a request, of its header or of an answer (main.c:285),
\* overrun neither rx_buffer nor the answer in tx_buffer, until a packet is dispatched
\* that nobody sent or a header is put together of two.
THEOREM TypeCorrectForAny == AnySpec => [](InStep => TypeOK)
<1>1. AnyInv => (InStep => TypeOK)
  BY DEF AnyInv
<1> QED
  BY <1>1, AnyInit, AnyStep, PTL DEF AnySpec

\* Which comes of such a hang-up: main.c leaves rx_pos as it is, no reopening and no
\* request made since brings the server back into step, and the next packet that is
\* dispatched, or already its header, is put together of two.
THEOREM CutShortForGood == AnySpec => CutShortStaysCutShort
<1>1. AnyInv /\ [AnyNext]_vars =>
        [/\ HangUp /\ rxBuf # <<>> /\ pc # "crashed" => Torn'
         /\ Torn => Torn' \/ ~InStep']_vars
  BY TornStep
<1> QED
  BY <1>1, AnyInit, AnyStep, PTL DEF AnySpec, CutShortStaysCutShort

\* For clients that leave the link alone until it is quiet the excess of a read
\* (process_input's memmove) never arises: a read ends with the request or before
\* its end.
THEOREM ReadsOneRequest == Spec => []NoFault
<1>1. Init => Alone
  <2> SUFFICES ASSUME Init PROVE Alone
    OBVIOUS
  <2>1. pc = "poll" /\ rxBuf = <<>> /\ inq = <<>> /\ toSend = <<>>
    BY DEF Init
  <2>2. Stream = <<>>
    BY <2>1, EmptySeq, ConcatEmptySeq DEF Stream
  <2> QED
    BY <2>1, <2>2, EmptySeq DEF Alone
<1>2. Alone => NoFault
  BY DEF Alone, NoFault
<1> QED
  BY <1>1, <1>2, AloneStep, QuietClients, PTL DEF Spec
=============================================================================
