------------------------------ MODULE ChunkDir ------------------------------
(***************************************************************************)
(* The image builder (tools/mk_chunk_dir.py).  It lays out what a podule's *)
(* ROM holds: a header if asked for, the chunk directory, the chunks it    *)
(* locates, and padding.  The build runs it twice: for the page that holds *)
(* the loader, with a header, and for the paged ROM, without one.          *)
(*                                                                         *)
(* RISC OS and the loader find a chunk by the address and size that are    *)
(* computed in one pass (calculate) and written, with the data, in         *)
(* another (render).  A pass is an action per entry.                       *)
(***************************************************************************)
EXTENDS Integers, Sequences

CONSTANTS
  Jobs,         \* invocations: options and arguments, files by their sizes
  SizeLimit     \* 2^24, scaled down: a size takes three bytes of an entry

TextOptions == {"descr", "date", "serial", "mod", "place"}
NoFile      == -1                          \* the file cannot be opened

Job == [header : BOOLEAN, texts : [TextOptions -> Nat],
        loader : Seq(Nat \cup {NoFile}), modules : Seq(Nat \cup {NoFile}),
        part : BOOLEAN, outfile : BOOLEAN, round : Nat]

ASSUME ChunkAssumption ==
  /\ Jobs \subseteq Job
  /\ SizeLimit \in Nat \ {0}

VARIABLES
  job,        \* the invocation
  pc,         \* the phase: calculate runs for describe, and again for render
  entries,    \* cd.entries
  i,          \* the entry the running pass is at
  addr,       \* addr of calculate
  dir,        \* chdir of render
  payloads,   \* payloads of render
  padding     \* bytes appended to the output

vars == <<job, pc, entries, i, addr, dir, payloads, padding>>

HeaderLen(j) == IF j.header THEN 16 ELSE 0
EntryLen     == 8

\* A byte of a chunk is known by where it is; zero bytes are Zero.
ByteOf(k, at) == [chunk |-> k, at |-> at]
Zero          == ByteOf(0, 0)

\* CDEntry.getOSIB: kind and type of the data in a byte.
Osib(os, d) == 16 * os + d
NullEntry   == [osib |-> 0, size |-> 0, addr |-> 0]

\* A text ends with a zero byte; options not given, or empty, add nothing.
Text(j, option, d) ==
  IF j.texts[option] = 0 THEN <<>>
  ELSE <<[osib |-> Osib(15, d), size |-> j.texts[option] + 1]>>
Loader(j)  == [k \in DOMAIN j.loader  |-> [osib |-> Osib(8, 0), size |-> j.loader[k]]]
Modules(j) == [k \in DOMAIN j.modules |-> [osib |-> Osib(8, 1), size |-> j.modules[k]]]

\* What the image is to hold, in the order of the script.
Chunks(j) ==
  Text(j, "descr", 5) \o Text(j, "date", 2) \o Text(j, "serial", 1)
    \o Text(j, "mod", 3) \o Text(j, "place", 4) \o Loader(j) \o Modules(j)

\* -n is not understood, an output file is required, files must exist.
Legal(j) ==
  /\ ~j.part /\ j.outfile
  /\ \A k \in DOMAIN Chunks(j) : Chunks(j)[k].size # NoFile

\* "The first payload address starts after the header, which is nentries+8
\* long (including an end marker)": the comment means (nentries + 1) * 8.
FirstAddr(j, n) == HeaderLen(j) + (n + 1) * EntryLen

\* "(l + 3) & ~3".
RoundUp(l) == (l + 3) - ((l + 3) % 4)

\* Mutant: a whole word of padding when none is needed.
PadTo4_Word(l) == 4 - (l % 4)

\* "(4 - e.getSize()) & 3".
PadTo4(l) == (4 - l) % 4

Init ==
  /\ job \in Jobs
  /\ pc = "add" /\ entries = <<>> /\ i = 1 /\ addr = 0
  /\ dir = <<>> /\ payloads = <<>> /\ padding = 0

-----------------------------------------------------------------------------
(* The script *)

\* fatal, or an exception: nothing is written.
Fatal ==
  /\ pc = "add" /\ ~Legal(job)
  /\ pc' = "failed"
  /\ UNCHANGED <<job, entries, i, addr, dir, payloads, padding>>

\* The add* calls, up to the first line of calculate.
AddAll ==
  /\ pc = "add" /\ Legal(job)
  /\ entries' = [k \in DOMAIN Chunks(job) |->
                   [osib |-> Chunks(job)[k].osib, size |-> Chunks(job)[k].size,
                    addr |-> 0]]
  /\ i' = 1 /\ addr' = FirstAddr(job, Len(Chunks(job)))
  /\ pc' = "describe"
  /\ UNCHANGED <<job, dir, payloads, padding>>

\* Mutant: the address runs on without the padding.
Calculate_Unpadded ==
  /\ pc \in {"describe", "calculate"} /\ i <= Len(entries)
  /\ entries' = [entries EXCEPT ![i].addr = addr]
  /\ addr' = addr + entries[i].size
  /\ i' = i + 1
  /\ UNCHANGED <<job, pc, dir, payloads, padding>>

Calculate ==
  /\ pc \in {"describe", "calculate"} /\ i <= Len(entries)
  /\ entries' = [entries EXCEPT ![i].addr = addr]
  /\ addr' = addr + RoundUp(entries[i].size)
  /\ i' = i + 1
  /\ UNCHANGED <<job, pc, dir, payloads, padding>>

\* The description is printed; render calculates again.
Described ==
  /\ pc = "describe" /\ i > Len(entries)
  /\ i' = 1 /\ addr' = FirstAddr(job, Len(entries))
  /\ pc' = "calculate"
  /\ UNCHANGED <<job, entries, dir, payloads, padding>>

Calculated ==
  /\ pc = "calculate" /\ i > Len(entries)
  /\ i' = 1
  /\ dir' = [k \in 1 .. Len(entries) + 1 |-> NullEntry]
  /\ payloads' = <<>>
  /\ pc' = "render"
  /\ UNCHANGED <<job, entries, addr, padding>>

\* Data and padding of entry k.
Data(k) ==
  [x \in 1 .. entries[k].size + PadTo4(entries[k].size) |->
     IF x <= entries[k].size THEN ByteOf(k, x - 1) ELSE Zero]

Render ==
  /\ pc = "render" /\ i <= Len(entries)
  /\ dir' = [dir EXCEPT ![i] = [osib |-> entries[i].osib,
                                size |-> entries[i].size % SizeLimit,
                                addr |-> entries[i].addr]]
  /\ payloads' = payloads \o Data(i)
  /\ i' = i + 1
  /\ UNCHANGED <<job, pc, entries, addr, padding>>

OutputLen == HeaderLen(job) + Len(dir) * EntryLen + Len(payloads) + padding

\* Mutant: up to a whole round_size is added.
PadWith_Whole(l) == IF job.round > 0 THEN job.round - (l % job.round) ELSE 0

PadWith(l) == IF job.round > 0 THEN (job.round - (l % job.round)) % job.round ELSE 0

\* "Null entry on end"; the output is rounded and written.
Write ==
  /\ pc = "render" /\ i > Len(entries)
  /\ dir' = [dir EXCEPT ![i] = NullEntry]
  /\ padding' = PadWith(OutputLen)
  /\ pc' = "done"
  /\ UNCHANGED <<job, entries, i, addr, payloads>>

Next ==
  Fatal \/ AddAll \/ Calculate \/ Described \/ Calculated \/ Render \/ Write

Spec == Init /\ [][Next]_vars

-----------------------------------------------------------------------------
(* Properties *)

\* The byte of the output at an address behind the directory.
DataAt(a) ==
  LET at == a - HeaderLen(job) - Len(dir) * EntryLen + 1 IN
  IF at \in DOMAIN payloads THEN payloads[at] ELSE Zero

Entry == [osib : Nat, size : Nat, addr : Nat]

\* Types; and no address computed by calculate is off the word boundary its
\* comment promises.
TypeOK ==
  /\ job \in Jobs
  /\ pc \in {"add", "describe", "calculate", "render", "done", "failed"}
  /\ entries \in Seq(Entry) /\ dir \in Seq(Entry)
  /\ i \in 1 .. Len(entries) + 1
  /\ addr \in Nat /\ padding \in Nat
  /\ payloads \in Seq([chunk : Nat, at : Nat])
  /\ addr % 4 = 0 /\ \A k \in DOMAIN entries : entries[k].addr % 4 = 0

\* Whoever follows the directory of a finished image finds in it every chunk the
\* script was asked for, in order and of the right kind, then the null entry and
\* no entry more; and each entry leads to all the bytes of its chunk and to no
\* other, though addresses and data were laid out by different passes.
EveryChunkFound ==
  pc = "done" =>
    LET chunks == Chunks(job) IN
    /\ Len(dir) = Len(chunks) + 1
    /\ dir[Len(dir)] = NullEntry
    /\ \A k \in DOMAIN chunks :
         /\ dir[k].osib = chunks[k].osib /\ dir[k].osib # NullEntry.osib
         /\ dir[k].addr >= HeaderLen(job) + Len(dir) * EntryLen
         /\ chunks[k].size < SizeLimit => dir[k].size = chunks[k].size
         /\ \A at \in 0 .. chunks[k].size - 1 : DataAt(dir[k].addr + at) = ByteOf(k, at)

\* "Round/pad output size up": a multiple of the size asked for, and the nearest.
RoundedUp ==
  pc = "done" /\ job.round > 0 =>
    OutputLen % job.round = 0 /\ padding < job.round
=============================================================================
