------------------------------- MODULE RawFile -------------------------------
(***************************************************************************)
(* What the server does with a packet (server/main.c, process_packet and   *)
(* channel_hostinfo_rx; server/channel_rawfile.c): the file it has open,   *)
(* the buffer it reads blocks into, and the answer, if any.                *)
(*                                                                         *)
(* A byte of a file is known by the file and its position.  What a name on *)
(* the host ends in, ",fff" or ",8000-8000", is the file's tag.            *)
(***************************************************************************)
EXTENDS Integers, Sequences

CONSTANTS
  Names,        \* file names a client may ask for
  Files,        \* the files in the server's directory
  BaseOf,       \* their names up to the tag
  TagOf,        \* and the kind of tag
  FileLen,      \* length of each of them
  BlkSize,      \* sizeof(read_buff), scaled down
  NoFile        \* current_file == -1

ASSUME FileAssumption ==
  /\ NoFile \notin Files
  /\ BaseOf \in [Files -> Names]
  /\ TagOf \in [Files -> {"none", "type", "addr"}]
  /\ FileLen \in [Files -> Nat]
  /\ BlkSize \in Nat \ {0}

Cell      == [file : Files \cup {NoFile}, pos : Nat]
BlankCell == [file |-> NoFile, pos |-> 0]      \* a byte of read_buff never read into

Ops == {"ignore", "info", "init", "read", "close", "odd"}

\* A request, as its packet's channel and first byte tell, with its arguments.
Request == [op : Ops, name : Names, off : Nat, size : 0 .. BlkSize]

\* What the server keeps between packets.
Channel == [file : Files \cup {NoFile}, buff : [1 .. BlkSize -> Cell]]

\* Load and exec address: a type with a time stamp, or two addresses, and the
\* file they were read from, if any.
Attr == [kind : {"type", "addr"}, of : Files \cup {NoFile}]

\* A response: host information, the result of an open, or a block.
Response == [kind : {"info", "init", "block"}, ok : BOOLEAN, size : Nat,
             attr : Attr, data : Seq(Cell)]

RawfileInit == [file |-> NoFile, buff |-> [k \in 1 .. BlkSize |-> BlankCell]]

\* CID_RAWFILE_CLOSE.
CrfClose(ch) == [ch EXCEPT !.file = NoFile]

\* channel_rawfile_init, at the start of each connection.
RawfileReopen(ch) == [ch EXCEPT !.file = NoFile]

\* The files of that name with that kind of tag, which is what glob looks for.
Glob(name, tag) == {f \in Files : BaseOf[f] = name /\ TagOf[f] = tag}

\* "Just take first match".
FirstOf(found) == IF found = {} THEN NoFile ELSE CHOOSE f \in found : TRUE

\* Mutant: the name as it stands is tried first.
Search_Plain(name) ==
  LET plain == Glob(name, "none")
  IN  IF plain # {} THEN FirstOf(plain) ELSE FirstOf(Glob(name, "type"))

\* The file to open for a name: one with a type, else one with addresses, else
\* the name as it stands.
Search(name) ==
  LET typed == Glob(name, "type")
      addr  == Glob(name, "addr")
  IN  CASE typed # {} -> FirstOf(typed)
        [] typed = {} /\ addr # {} -> FirstOf(addr)
        [] OTHER -> FirstOf(Glob(name, "none"))

\* The attributes given to it: "Filetype: Data" unless the name says otherwise.
DataAttr == [kind |-> "type", of |-> NoFile]
AttrOf(f) ==
  IF f = NoFile \/ TagOf[f] = "none" THEN DataAttr ELSE [kind |-> TagOf[f], of |-> f]

\* Mutant: when the file cannot be opened the one before stays.
CrfOpenRead_Keeps(ch, name) ==
  [ch EXCEPT !.file = IF Search(name) # NoFile THEN Search(name) ELSE ch.file]

\* crf_open_read: the file open before is closed, whether this one opens or not.
CrfOpenRead(ch, name) == [ch EXCEPT !.file = Search(name)]

\* pread into read_buff: past the end of the file the bytes there stay.
Pread(ch, off, size) ==
  [ch EXCEPT !.buff = [k \in 1 .. BlkSize |->
     IF k <= size /\ off + k <= FileLen[ch.file]
       THEN [file |-> ch.file, pos |-> off + k]
       ELSE ch.buff[k]]]

\* The channels after a request.
AfterRequest(ch, rq) ==
  CASE rq.op = "init"  -> CrfOpenRead(ch, rq.name)
    [] rq.op = "read" /\ ch.file # NoFile -> Pread(ch, rq.off, rq.size)
    [] rq.op = "close" -> CrfClose(ch)
    [] OTHER           -> ch

\* The responses sent for it, none or one; ch is the state after it.
Reply(kind, ok, size, attr, data) ==
  << [kind |-> kind, ok |-> ok, size |-> size, attr |-> attr, data |-> data] >>

\* Requests that are not answered, whatever the file.
Silent(rq) == rq.op \notin {"info", "init", "read"}

Replies(ch, rq) ==
  CASE rq.op = "info" -> Reply("info", TRUE, 0, DataAttr, <<>>)
    [] rq.op = "init" ->
         Reply("init", ch.file # NoFile,
               IF ch.file # NoFile THEN FileLen[ch.file] ELSE 0, AttrOf(ch.file), <<>>)
    [] rq.op = "read" /\ ch.file # NoFile ->
         Reply("block", TRUE, rq.size, DataAttr, SubSeq(ch.buff, 1, rq.size))
    [] OTHER -> << >>
=============================================================================
