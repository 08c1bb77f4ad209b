# ArcPipePodule: models, checks and proofs

ArcPipePodule is an expansion card ("podule") for Acorn Archimedes computers,
built on an RP2040. To the Archimedes ("the Arc") it is 4 KB of memory: a
loader, a 1 KB window on a paged ROM, and registers. To a host computer it is a
USB serial port. Software on the Arc sends packets through the registers, the
podule forwards them over USB to a server, and the server's responses come back
the same way. This directory holds TLA+ models of that system, configurations
that check them with TLC, and proofs that TLAPS checks.

## 1. Inventory

| Component | Source | State | Operations | Interacts with |
|---|---|---|---|---|
| Bus slave (core 1) | `podule_interface.c` | data pins, 4 KB shared memory | one bus read or write at a time; writes below 2 KB ignored | Arc (bus), core 0 (shared memory) |
| ROM window and reset request (core 0) | `arc_pipe_podule.c` | window, `PR_PAGE_L/H`, `PR_RESET`, `reset_generation` | `podule_poll`: serve a page, act on a reset; `main`: start, reset the Arc | loader (registers), pipe (`pipe_init`) |
| Loader (Arc) | `loader/loader.S` | `current_page` | `reset`, `read_byte` | ROM window |
| Pipe, podule side (core 0) | `pipe_packet.c` | `state` (staging buffers, flags), descriptors, `TX_TAIL`, `RX_HEAD` | `pipe_poll`: receive, start, continue and abort a transmission; `pipe_init` | Arc (descriptors, buffers), TinyUSB |
| Pipe, Arc side | `mod_pipe/pipe_packet.S`, `module.S` | `TX_HEAD`, `RX_TAIL` in the workspace | `pipe_packet_tx`, `pipe_packet_rx`, module init | podule (descriptors, buffers), commands |
| Commands (Arc) | `mod_pipe/commands.S`, `commands_rawfile.S` | scratch buffer, file position | `pipetest`, `pipeinfo`, `pcpl` | pipe, RISC OS files |
| Server | `server/main.c`, `channel_rawfile.c` | input and output buffers, open file | read, dispatch, respond, reconnect | serial port, files |
| Chunk directory builder | `tools/mk_chunk_dir.py` | entries, directory, payloads of one invocation | two passes over the entries, render, round up | ROM image |

USB configuration, board tests, pin and LED utilities and the build files keep
no state worth a model; `PROJECT.json` lists them with the reason.

What is hard here:

* **Two processors, one memory, no interrupts and no locks.** Core 0, and the
  Arc through core 1, read and write the same bytes. Order of access is the only
  protocol: fill the buffer, then set READY; clear READY, then move the index.
* **Queue indices kept twice.** The Arc never reads `RX_HEAD` or `TX_TAIL`; each
  side counts for itself, and resets, timeouts and disconnections reach the two
  sides at different moments.
* **Partial transfers.** USB gives and takes any number of bytes at a time.
* **Giving up.** Every wait of the Arc ends after a million polls, and the
  podule is not told.
* **Reset in the middle of anything**, on one side only: of the Arc, or of the podule.
* **Nothing in an answer says what it answers.** A command takes the packet that comes
  next; the server has one buffer for answers and one for input.
* **The same number written down twice**: descriptors, register addresses and chunk
  addresses are put together by one program and taken apart by another.

What makes each component correct, in short: the pipe carries whole packets, in
order, once, and in each direction one buffer has one owner at a time; the ROM
window gives the byte asked for; the server answers a request once and keeps the
framing; the copy command writes the file it was asked for, or says that it did not; the
bus slave drives the data pins only while it is selected for a read; the image builder's
directory leads to the chunks it describes.

## 2. Modules

| Module | Models |
|---|---|
| `PipeRegs` | what both directions of the pipe share: queue indices, framing |
| `PacketChannel` | abstract specification: a reliable, ordered channel |
| `PipeRx` | host to Arc: `pipe_rx`, `pipe_rx_packet`, `pipe_packet_rx` |
| `PipeTx` | Arc to host: `pipe_tx_*`, `pipe_packet_tx` |
| `PodulePages` | ROM window, loader, and the reset request |
| `SharedMemory` | abstract specification: the memory that Arc and core 0 share, an access a step |
| `PoduleBus` | the bus slave: `podule_if_thread` against the lines of the Arc's bus |
| `RawFile` | the server's channels: which file a name finds, what each request does and is answered with |
| `PacketService` | abstract specification: the server as its clients know it, with whole packets |
| `Server` | the server's loop: input, output, hang-up and reopening |
| `FileCopy` | abstract specification: what `*PCPL` promises |
| `Commands` | the commands and the server, packet by packet, over a pipe that may time out |
| `ChunkDir` | the image builder `mk_chunk_dir.py` |
| `Descriptor` | the descriptor word, bit by bit, as each side makes it and takes it apart |
| `AddressMap` | pins, address lines, `podule_space`, and the registers' places in it |
| `MCPipeRx`, `MCPipeTx`, `MCPodulePages`, `MCPoduleBus`, `MCServer`, `MCCommands`, `MCChunkDir` | the values TLC uses for the constants |
| `PipeRxProofs`, `PipeTxProofs`, `PodulePagesProofs`, `PoduleBusProofs`, `ServerProofs`, `CommandsProofs`, `ChunkDirProofs` | theorems and proofs about the module of that name |
| `RegisterProofs` | theorems and proofs about `Descriptor` and `AddressMap` |

How they build on each other: `AddressMap` and `PoduleBus` justify that an access of the
Arc to a register is one step on the byte the podule means. From that start
`PodulePages`, `PipeRx` and `PipeTx`; `Descriptor` justifies that they treat a
descriptor as a record. `PipeRx` and `PipeTx` implement `PacketChannel`, the queues of
whole packets that `Commands` starts from. `Commands` and `Server` share `RawFile`: one
sees packets and losses, the other bytes and system calls. They meet at `PacketService`:
`Server` implements it from below, with bytes, and `Commands` keeps to it from above.

Conventions. Where two processors share memory, each access the other could
observe is an action of its own, guarded by a program counter (`podPc`, `arcPc`).
What runs between two shared accesses is one action. A byte is a record saying
which packet (or ROM page) it belongs to and where in it it stands, so that a
torn, stale or displaced byte is visible; its value is not modelled. Variables
marked *history* are not in the program; no action reads them in a guard, except
where a bound counts packets. Operators whose names have a suffix
(`RxNoRoom_Head`) and whose comment says *Mutant* are not part of a model: they
are the plausible mistakes that each property has been seen to catch.

### PipeRx

`pipe_poll` calls `pipe_rx` when USB has data or a packet is held back (`RxHasWork`).
`RxRead` is the read and the check for completeness; `RxStall` and `RxAccept` are
the two answers of `pipe_rx_packet`; `RxCopy` and `RxPost` are its `memcpy` and its
descriptor store; `RxTrim` is the end of `pipe_rx`. The podule's `memcpy` is one
action: the Arc reads the buffer only behind a READY descriptor, and
`BufferStable` shows that there is none while the podule copies. The Arc's copy
loop is one action per byte. The RX
descriptor is written by the podule as a word, so the Arc never sees half of one.
`ModuleReInit`, part of `ReInitNext` only, is the module's `init` without a reset (RMReInit): it zeroes
the Arc's index and tells the podule nothing. `PipeTx` has it, too.
`HostSend`, `UsbDeliver`, `UsbConnect` and `UsbDisconnect` are the server and USB;
USB may deliver in any chunks. `Spaced` says whether the host waits for the link
to drain between packets; a request/response server does, unless the Arc has
given up on a response.

### PipeTx

`ArcTxCall`, `ArcTxFill`, `ArcTxStore`, `ArcTxSent` and `ArcTxTimeout` are
`pipe_packet_tx`. The four stores of the descriptor are modelled as two: the
bytes holding the length, then the byte holding CID and READY. `TxLook` is the
transmit half of `pipe_poll` finding a descriptor; `TxDrop`, `TxHeader`, `TxCopy`,
`TxFirst` are `pipe_tx_start`, with one action per byte copied; `TxContinue` and
`TxAbort` are the other branches; `TxDoneLoad`, `TxDoneStore`, `TxAdvance` are
`pipe_tx_done`, whose `descr & ~READY` is a load and a store. The host reads the
FIFO a byte at a time and frames it by its headers.

The two directions of the pipe share no state but `PR_RESET`, which both modules
model, and the serial port's connection; they are modelled apart.

### PodulePages

`PageLook` to `FlagStore` are the page half of `podule_poll`, access by access,
`ResetLook` is its other half; the pipe polling that follows is not part of this
module. `ReadByte`, `StoreLow`, `StoreHigh`, `PollDone`, `PollTimeout`, `GetByte`
are `read_byte`. An Arc reset may come at any step. `LoaderReset` needs `Settled`:
RISC OS takes seconds to start and the podule a few microseconds to finish a turn
of its loop. RISC OS is taken to enter the loader's `reset` before it reads the
module, and to start the module after reading all of it.

`PoduleStop` ends the podule's program at any step, while the Arc runs on: no byte and no
register is there then, and what the Arc reads of the flag is anything. `IfInit`
(`podule_if_init`: core 1 answers again), `InitWindow` and `InitRegs`
(`init_podule_space`), `ResetHost` and `ReleaseHost` (`podule_if_reset_host`) are `main` up
to its loop. `Serving` says that core 0 is in its main loop, `Listening` that core 1
answers. While the podule is not serving, a loader that does not know may wait, time out
(`PollTimeout`), or take a byte of the cleared window. So `ByteRight` and `PipeInitFirst`
speak of what the Arc gets while the podule is serving (`answer.served`), which a restart
must not spoil: `main` resets the Arc before it enters its loop, so that no loader goes on
believing that its page is in the window, and no module keeps indices of the queue before.
The mutant `ResetHost_Skips` shows both broken. `stale` notes that `pipe_init` ran under a
module that had started. The loader's timeout under a podule that is serving, but too slow, is
left out (see Runs).

The property `PipeInitFirst` of this module is what `PipeRx` and `PipeTx` assume
when their `ModuleInit` has the guard `~resetReq`.

### PoduleBus

Core 1 runs one loop, `pif_mainloop`, with an action for each of its accesses to pins or
memory; its address arithmetic is in `AddressMap`, and the debug counters are left out. A byte is the set of
data lines that are high, because the code puts a byte on the lines by *setting* bits
and relies on all of them being clear. The Arc's bus is external: select, strobe, data
and their ends are actions of their own, and select and strobe may go in either order.
The Arc does not wait for the podule, so speed is an assumption, made in two places:
`InTime` (a read lasts until the byte is on the lines, a write until core 1 has sampled
it) and `Ready` (core 1 has seen the end of a cycle before the next begins). The store
of a write may come after the end of its cycle. The comment before the loop speaks of
waiting for `/RD` or `/WR` to go inactive "(and /SEL)"; the code looks at select alone,
which is the same if select goes up after each cycle, and `Select` says that it does.

`SharedMemory` is what the other modules take for granted: each access of the Arc to
the shared memory is one step. `PoduleBus` implements it, through `Op`, which says
when the access under way takes effect: a read at `PifLoad`, a write at `PifStore`.

### RawFile and Server

`RawFile` has no state of its own: `AfterRequest` is what a request does to the open
file and to `read_buff`, `Replies` what is sent back. `Search` is `crf_open_read`'s search:
the host's files carry RISC OS attributes in a tag of their names (`,fff` or
`,load-exec`), and a name may find several; `AttrOf` is what the client is told of the
one found. A byte of a file is its name and
position, so that a block of the wrong file, of the wrong place or left over from
before can be told from the right one. Failing system calls have no branch of their own:
the failed open of the model is that of a name without a file (`perror`, `errno` as the answer), and a
short read that of a block past the end of its file, after which `read_buff` keeps what was there (the
result of `pread` is not looked at). See section 5.

`Server` is `service_loop`. One action is one turn of a loop, from one system call to
the next: `InputRead` is a `read` in `process_input` with the `packet_check` behind it
and, through `ProcessPacket`, the dispatch; `OutputWrite` is a `write` in
`process_output`; `InputEnd` and `OutputEnd` are the calls that return nothing.
`PollIn` and `Reopen` are the two ways out of `poll`. Clients, podule, USB and the tty
layer are external: bytes go in in any pieces and come out as the port has room
(`portRoom`, chosen at the start). `SendWhenQuiet` is a client that leaves the link
alone until nothing is under way; `SendWhenAllowed` one that waits for an answer only
if there is to be one, as the commands do. `AnswersAreRight` does not look at
`channel`: it tells from the requests dispatched so far which file is meant, and has an answer to an open
carry the size and the attributes of that file (`RightFile`).

There are three specifications. In `Spec` clients wait for quiet, in `CommandSpec` they send
as the commands do, and in both the port hangs up only between packets (`CleanHangUp`). In
`AnySpec` they send at any time and the port hangs up at any time (`HangUp` without a guard): in
the middle of a request or of its header, with an answer waiting in `tx_buffer` or partly written. What
comes of a packet put together of two is left open (`InStep`): a behaviour ends where one is
dispatched, or where a header is put together of two, since its length is then anybody's guess. What
the podule makes of the rest of an answer that was cut short (`UsbOut` goes by the length in the byte it
begins with) is left open too, and touches nothing but `got` and `answers`.

### PacketService

The server, the serial port and USB seen with whole packets: `Serve` takes the next request,
does what `RawFile` says of it, and leaves its answer in `held`, which must be empty; `Output`
sends it; `Ask` is a client that makes a request, and has to be one that lets no answer be due
when it asks for another (`Settled`). `Reconnect` is a hang-up and reopening, `Die` two requests
read together, `Restart` a new server. It has no bytes, no pieces and no lost answers but with
a connection. `Server` implements it: the requests are cut out of the bytes that are on their
way (`Packets`), and an answer counts as sent when the last of it is in the port (`Returning`).
`Commands` implements it as it stands, which says that the commands, whatever timed out before,
are clients that the server is made for.

### Commands and FileCopy

`Commands` puts the three commands, the pipe and the server together at the level of
packets. The command that runs is a program counter (`pc`): `TestSend` is `*PT`, `InfoSend`
and `InfoAnswer` `*PI`, the others `*PCPL`, with an action for each packet sent, each
answer or timeout, the setting of attributes, and the exit (`Close`), with every error exit of
`commands_rawfile.S` a disjunct. `scratch` is the one buffer for requests and answers: bytes that
an answer does not bring are those that were there, as `pipe_packet_rx` leaves them.
`Transmit` with `ok` FALSE is a timeout of `pipe_packet_tx`, after which the packet may yet go
out. The local disc may fill up at any block, and the file may not be created.
`Serve` is a turn of `process_input`, `Output` one of `process_output`; `ReadTogether` is
the fatal read of two packets at once (`NoFault` of `Server`), `Reopen` a hang-up,
`Restart` a new server. A hang-up in the middle of a packet is in `Server` and the pipe's
modules, not here.

There are two specifications. In `Spec` the user types when the link is `Quiet`; in
`AnySpec` at any time. The difference is the finding of run `CopyStale`: nothing in an
answer says what it answers, so that after a timeout the next command may take the late
answer for its own, and report a complete copy of the wrong bytes.

`FileCopy` is the promise: the local file is a beginning of the remote one at all
times, "done" means that it is the whole with its attributes, "refused" that there is no
such file and nothing was touched. `Commands` implements it by the mapping `asked <- name`.
`Meant` and `Says`, which say what file a name stands for, are written without looking at
the order of `Search`. Taken for granted: `OS_GBPB` writes through to the disc; an
error that a flush brings up at the final close is ignored by the code and is not modelled.

### ChunkDir

One invocation of the script: `AddAll` makes the entries from the options in the order of
the code, `Calculate` is one entry of the first pass (run twice, by `describe` and by `render`),
`Render` one entry of the second, `Write` padding and rounding. What the script refuses (no
output, a file that cannot be opened) ends in `Fatal`. A file longer than the 24 bits of an entry's
size it does not refuse: the size is cut to 24 bits, in the script and in the model, and
`EveryChunkFound` asks nothing of the size of such an entry, only that its bytes are where it points. A byte of the image is known by its chunk and place. `EveryChunkFound` reads the image as RISC OS does:
it follows the addresses and sizes in the directory, and compares what it finds with the files.

### Descriptor and AddressMap

Both are operators on bits and numbers, without state. `MCPipeRx` (`PostedSamples`) and
`MCPoduleBus` (`MapSamples`) have TLC evaluate them on samples at the start of a run; their
theorems are about all words, all pins and all lengths. `Descriptor` has the masks and
shifts of `podule_regs.h` as sets of bit positions next to the pairs of shifts, and the four
byte stores and loads, of `pipe_packet.S`. `AddressMap` has the pin numbers of the two
boards (`hw.h`), the expression in `pif_mainloop` that puts an address together from them, and
the registers' numbers as the Arc (times four, from `PR_BASE`) and the podule (from
`PODULE_REGS`) use them.

## 3. Runs

TLC finishes each of the passing runs in a minute or less, `PagesHandshake` in two. "Violation" runs
reproduce disagreements between the code and what its documentation or comments
say; each is described under `findings` in `PROJECT.json`.

| Run | Specification | Shows |
|---|---|---|
| `RxHandover` | `Spec` | types, one READY slot where the Arc polls, buffer untouched behind it, what is read is what was posted, and a packet that a lost connection cut short is posted with bytes of the next: with timeouts, breaks, resets, packets run together |
| `RxChannel` | `FairLinkSpec` | one connection, spaced packets: implements `PacketChannel`, no fault, every packet arrives |
| `TxHandover` | `FairPatientSpec` | types, queue ends meet, one packet outstanding, nothing torn, repeated or reported as sent without the podule having dealt with it, every call comes to an end: with breaks and resets, the Arc waiting as long as it takes |
| `TxChannel` | `FairLinkSpec` | one connection: host in step with the framing, implements `PacketChannel`, every packet arrives |
| `PagesHandshake` | `FairSpec` | the byte read is the byte asked for, `pipe_init` before the module and not under it, every read returns: with resets of the Arc and a restart of the podule at any step |
| `Server` | `FairSpec` | requests dispatched whole, once, in order; answers right, whole, in order; implements `PacketService`; every request answered if the port has room: with pieces of any size, and the port hanging up |
| `Bus` | `FairSpec` | implements `SharedMemory`, no contention for the data lines, every cycle ends with core 1 ready for the next: with core 0 writing the same bytes |
| `Copy` | `FairSpec` | implements `FileCopy`, keeps to `PacketService`, a command takes its own answer, no file is left open, every command returns: with timeouts at any call, full discs, hang-ups, server restarts |
| `ChunkDir` | `Spec` | the directory leads to every chunk and nothing else; the output is rounded as asked |
| `TxWedge` | `FairStallSpec` | one late answer after a timeout leaves the queue ends apart for good |
| `ServerFault` | `CommandSpec` | two requests read together: length underflow in the server |
| `CopyStale` | `AnySpec` | a late answer is taken for another command's; a copy reported complete is not one |

Further facts came up and are not kept as runs of their own; where a theorem of section 4 is named, TLC
has also checked its statement on values like those of `RxHandover`, `TxHandover` and `Server`. A packet of exactly 512 bytes is
dropped by `pipe_tx_start` and reported as sent (`LongestIsDropped`; `dropped` in `PipeTx`), where the
repository's README promises "packets from 1-512 bytes". With packets run together (`Spaced`
FALSE) `pipe_rx` has the same underflow as the server (`NoFault` of `PipeRx`; the run
`RxHandover` goes on to show that nothing else is disturbed up to then). Bytes of a
packet cut short by a disconnection stay in `rx_buf`, and in the server's
`rx_buffer` and `tx_buffer`, and are joined to those of the next connection (`CutShortIsMixed`,
which `RxHandover` checks, and `CutShortForGood`).
Re-initialising the module (`module.S:93`) zeroes its queue indices and not the
podule's, so that they disagree if they were odd, and stay so (`ApartStaysApart`, `WedgeIsForGood`). A packet announced as longer
than the RX buffer never becomes complete in `rx_buf`, so the "too large" branch
of `pipe_rx_packet` is not reached and reception stops (`TooLongIsStuck`; reached with `GarbageLen`
above `BufSize`). A transmission aborted by a disconnection leaves part of its
frame in the USB FIFO (`Framed` is false of `PatientSpec` with `MaxBreaks = 1`).
An empty packet arrives as 512 bytes on channel 127 (`EmptyIsLongest` of
`RegisterProofs`; `ReadsWhatWasPosted` is false if `Lens` has 0). When a page times out
because the podule is too slow, the next read of that page skips the handshake
(`loader.S:81`, 106-108) and returns a byte of the page before. An answer the port took only in part is
never finished (`main.c:278`), so `EveryRequestAnswered` is about ports with room
(`Roomy`). `pipe_packet_rx` takes the address field out of a descriptor with a shift that
is right for another field width: an address would lose two bits, which does
not matter as long as it is always 0. `mk_chunk_dir.py` prints "-n <text> Add part number"
(line 228) but looks for `-P` (line 275), so `-n` is an unknown option (`part` in
`ChunkDir`). The copy of the ROM's last page (`arc_pipe_podule.c:57`) reads past an image that was not rounded to a
page, and the build does not round it; no chunk holds the bytes it finds there.

### Bounds

* `NumDescrs = 2` is the program's value. Two or three packets take the indices
  round once and a step further; the proofs do not depend on it.
* `BufSize` 2 or 3 for 512, `HdrSize` 1 or 2 for 3: room for a packet that fills
  the buffer and one that leaves an old byte behind it. With two bytes of
  header a header, too, can be split over two reads.
* `FifoSize = 4` for 1024: larger than any one frame, smaller than two, so that
  frames are submitted in pieces.
* `GarbageLen = 1`: what a payload byte means when taken for a length. Other
  values give other garbage.
* `RomPages = 257`, pages 0, 1, 256, 257 asked for: numbers that differ in the low
  byte, in the high byte, in both, and one off the end of the ROM.
* `Server`: `BlkSize = 2` for 512 and files of 3 bytes, 1 byte and none: a whole
  block, a last short one, one past the end. `HdrSize = 2` of `RxBufSize = 5` for 3 of
  4096: one request with room to spare. `PortRooms` 3 and 4: the longest answer has 4
  bytes. Three requests: open, something that takes the file away, a block.
* `PoduleBus`: two data lines, three bytes of memory, two of them read-only: a line set
  by one byte and not by the next, the last read-only byte and the first writable one.
* `PagesHandshake`: one reset and one restart, each at any step and in either order: the
  recovery from one has no memory of another, and the proofs allow any number.
* `Copy`: three commands, one to be late, one to be hit, one to find out; two hang-ups or restarts, so that
  one can hit what another left. `BlkSize = 2` for 512 and files of 0, 1, 2 and 3 bytes. Names
  that find one file, two with different tags, and none.
* `ChunkDir`: sizes of every remainder modulo 4, an empty and a missing file, `SizeLimit =
  16` for 2^24 and a file above it; rounding to none, 16 and 24.
* `MaxPackets`, `MaxRequests`, `MaxCommands`, `MaxBreaks`, `MaxResets`, `MaxRestarts` bound histories and are guards of the
  actions that make them grow.

`CHECK_DEADLOCK FALSE` is set where the Arc has sent all it will send and no reset
or break is in the specification, no more commands are typed, or the script has ended: the
system may then really be at rest.

### Fairness

Weak fairness of core 0's actions as a group (`PoduleNext`): the main loop in
`main` never stops, every call in it returns, and a podule that was stopped comes up again
(it does so by itself: the program is in its flash). Weak fairness of the actions of
a running call on the Arc (`ArcProgress`, `ArcStep`, `LoaderStep`): loops over
memory reads that nothing interrupts for ever. Weak fairness of the command that runs
(`CommandStep`), whose every wait has a limit; none of the server, which may be gone. Weak fairness of USB moving bytes
while connected, of the server's loop (`ServerNext`), and of core 1 (`PifNext`) and a bus
cycle that has begun (`CycleNext`). `RxChannel` also assumes that the Arc goes on asking for packets
(a host has no way to make it) and that the host connects. No fairness is
assumed of senders, connections in general, timeouts or resets.

## 4. Proofs

The theorems hold for every value of the constants that the modules' `ASSUME`s
allow.

`PipeRxProofs`, the first four about `Spec` (timeouts, breaks and resets included), the last
about `ReInitSpec`:

* `TypeCorrect`: `[]TypeOK`. `TypeOK` alone is not inductive: the staging buffer
  has to be known not to be overrun and to hold a whole packet when one is
  posted (`Staged`).
* `SlotsAgree`: `[]SlotAgreement`. The inductive invariant `HandoverInv` adds that
  the READY slot is always the one posted last, one behind the head; that
  none is READY while the podule is between looking and posting (this is where
  "check that the last created has been consumed" earns its place); that the
  descriptor the Arc has read does not change under it; and how the two ends
  meet again after a reset.
* `BufferIsStable`: an action property, from `HandoverInv`.
* `ReadsAreFaithful`: `[]ReadsWhatWasPosted`, assuming no empty packets (`NoEmpty`;
  see `EmptyIsLongest` below for what happens otherwise). `ReadsInv` says that the buffer
  behind a READY descriptor holds the packet posted last, that posted and
  received differ by at most that packet, and that the bytes copied so far are
  its first bytes.
* `LinkHasNoFault`, `ChannelImplemented`: `[]NoFault` and the refinement of `PacketChannel`,
  of `LinkSpec`, which has one connection and no reset, for a host that spaces packets that
  fit the buffer (`Orderly`); the second assumes no empty packets, too. These need to know
  what has *not* been read. `LinkInv` says that `rx_buf` begins a packet; that FIFO and host
  hold the rest of it, or, if it is whole, at most one more; and that what was posted
  is what was sent, up to the packet in `rx_buf`.
* `BufferStaysStable`, `ApartStaysApart`, `TooLongIsStuck`, `CutShortIsMixed`, of `ReInitSpec`, in which the
  module may start again between any two commands: what holds of the one buffer even so, and how
  three states persist that the code has no other way out of than a reset or another start (`Apart`), or
  `pipe_init` (`TooLong`, and `Torn`, which ends in a packet of mixed bytes). `PostedInv` says that the READY
  descriptor is the one posted last, and that the podule is between looking and posting only when there is
  none; `Decoded`, that a packet held back or being delivered is whole in `rx_buf`; `CutInv`, that the
  bytes on their way are of packets that were sent, so that a packet to come is not taken for
  the one cut short.

`PipeTxProofs`:

* `TypeCorrect`: `[]TypeOK` of `Spec`, timeouts included. `Staged` adds what bounds the
  copies: `tx_buf` goes no further than the packet it is filled from, what is
  sent fits the TX buffer, the Arc's loop counters stay in their loops.
* `OneIsOutstanding`: `[]OneOutstanding` of `Spec`. `OwnerInv` says that only the Arc
  makes a descriptor READY, only the one at its head, and that between a reset and
  the module's start the podule has cleared them all.
* `SlotsAgree`, `SubmissionsAreFaithful`, `ReportsAreHonest`: `[]SlotAgreement`,
  `[]SubmitsWhatWasAsked` and `[]ReportedWasHandled` of `PatientSpec`, in which the Arc
  waits as long as it takes: after a timeout they need not hold (run `TxWedge`).
  `HandoverInv` adds that READY is the last thing stored and then waited for, and
  that the podule works only on a descriptor that is READY until `pipe_tx_done`;
  this is what makes the one TX buffer safe without a lock. `DataInv` says that the
  buffer holds the packet `pipe_packet_tx` was called with before its descriptor
  says so and until READY goes, that `tx_buf` is a prefix of that packet framed,
  that it has not been submitted before, and that READY goes only after it has
  been dealt with. Connections may break at any point and the Arc may reset.
* `StreamIsFramed`, `ChannelImplemented`: `[]Framed` and the refinement of `PacketChannel`,
  of `LinkSpec`. All frames submitted make one stream of bytes, and `LinkInv` says that
  the FIFO holds those between the host's place in it and the podule's, and that all
  packets asked for have been submitted but the one outstanding. They assume `Fits`: a packet
  of exactly `BufSize` is dropped, and the path does not implement the channel then.
* `TypeCorrectAnyway`, `WedgeIsForGood`, `LongestIsDropped`, of `ReInitSpec`: the types, whatever becomes of the
  queue's ends; that once the podule rests at a slot which the Arc does not write (`Wedged`),
  it sends, consumes and reports nothing until a reset or another start; and that `tx_buf` is never
  given a packet of `BufSize` bytes (`ShortInv`).

`PodulePagesProofs`, about `Spec`, resets and restarts included:

* `TypeCorrect`: `[]TypeOK`.
* `BytesAreRight`: `[]ByteRight`. The inductive invariant `HandshakeInv` is `(Serving =>
  Handshake) /\ Held /\ ByteRight`. `Handshake` says that registers and window are left alone by one
  side while the other uses them, that the podule works on the page asked for and has
  copied all of it before it answers, and that `current_page` names the page the window
  holds. `Held` says that the podule enters its main loop with the Arc in reset, which is what
  brings `Handshake` about again after a restart.
* `PipeInitIsFirst`: `[]PipeInitFirst` for a module of more than one page. In `BootInv`,
  `FirstPageOnly` says that as long as a reset request is pending the podule is
  in the turn of its loop that served the first page, so that at most one page
  has been read. With one page TLC finds the module starting first.

`PoduleBusProofs`, about `Spec`: `TypeCorrect`, `NeverContends` (`[]NoContention`), and
`MemoryIsShared`: the bus slave implements `SharedMemory`. The invariant `BusInv` ties
the Arc's place in a cycle to the lines and to core 1's place in its loop, and says
that the lines carry the byte loaded and no other from `PifEnable` to `PifRelease`.

`CommandsProofs`, about `Spec`, for any files, names, block size and numbers of commands,
hang-ups and restarts: `TypeCorrect`; `OwnAnswersTaken` and `NothingIsOverwritten`, two
action properties; `NothingIsLeftOpen`; and `CopyImplemented`, the refinement of
`FileCopy`. `CopiesAreTrue` says the last in the
words of run `CopyStale`, and `ServiceUsed` that the commands are clients `PacketService` is for. All rest on one invariant, `CopyInv`. `Alone` says that at most one packet that
will be answered, or its answer, is under way, in the host's queue, the server's buffer or
the Arc's queue; `Undisturbed` that there is none when a request is about to be sent;
`Awaited` that while a command waits, what is under way is what it asked for, and that the
server has that file open or, after a restart, none; `Opening` and `Copying` how far the local file has got, and that it is a beginning of the remote one.
About `AnySpec`, with users who type at any time: `TypeCorrectForAny`, a block that a stale answer makes a
command ask for still fits the buffer, and `NothingIsEverLeftOpen`.

`ChunkDirProofs`, about `Spec`, for any options, files and number of modules: `TypeCorrect`,
`ChunksAreFound` (`[]EveryChunkFound`) and `ImagesAreRounded`. `LayoutInv` says what each pass has
done up to the entry it is at, and that the address of the next entry is what the first
pass said it would be: the two passes add up the same padded lengths.

`ServerProofs`, for any files, requests and sizes. `TypeCorrectForCommands`, `KeepsInStepForCommands`
(`[]DispatchesWhatWasSent`), `AnswersRightForCommands` (`[]AnswersAreRight`) and `ServiceImplemented` (the
refinement of `PacketService`) are about `CommandSpec`: clients that send as the commands do, so that a
request may come behind one that has no answer, and a port that hangs up between packets.
`WaitingClients` says that `Spec` is a case of it, from which follow `TypeCorrect`, `KeepsInStep`, `AnswersRight`
and `ServiceForWaiting`, the properties of the run `Server`. `ReadsOneRequest` (`[]NoFault`) is of `Spec` only:
`Alone` says that no read can bring more than the request it is of, which is false of `CommandSpec` (run
`ServerFault`). None of these is inductive: `ServerInv` says where every byte is. `Asking`: unless the
server has crashed, `rxBuf`, `inq` and `toSend` hold, in this order, consecutive stretches of the frames of the requests
not dispatched yet, of which at most one calls for an answer, and none while one is being given.
`Replying`: if an answer is under way, then `got`, `outq` and the rest of `txBuf` hold consecutive stretches of
*its* frame, it is the right one to the request it is for, and has not come before. `Filed`: the
file open is the one that the dispatches so far call for, which is the step from what the code
knows (`channel`) to what the property speaks of (`FileAt`). For the refinement, `Packets` reads the
requests off the first byte under way: a read that does not complete a packet is a stutter, one
that does is `Serve`, a write is `Output` when it is the last, and a crash is `Die`.

Two theorems are about `AnySpec`, where clients send and the port hangs up when they like, with part of a
request, of its header or of an answer in the buffers. `TypeCorrectForAny`: neither buffer is overrun, up to
the dispatch of a packet that nobody sent, or a header put together of two. `CutShortForGood`: once the port
has hung up with part of a request in `rx_buffer`, be it of the header, no reopening and no later request
brings the server back into step, and the next packet dispatched, or already its header, is put together
of two. They rest on `AnyInv`, which says of the bytes only that they are of requests that were made,
and that no packet that is whole stays in `rx_buffer`.

`RegisterProofs`: for every channel and length of 1 to 512, what one side stores in a descriptor
the other finds (`SubmittedArrives`, `PostedArrives`), READY is in the byte that is stored last
(`ReadyIsInTheLastByte`), and an empty packet is taken for the longest (`EmptyIsLongest`). On
both boards core 1 computes the number on the address lines, whatever the other pins carry
(`Board1Address`, `Board2Address`); the Arc and the podule mean the same byte by a register's
number, and it may be written (`RegistersAgree`); registers, descriptors and buffers do not
overlap (`RegistersApart`, `DescriptorsAreWords`).

Not proved, only model-checked: the liveness properties, which are beyond this prover. Every
safety property and every refinement of a passing run is proved. The violations are
runs of their own.

## 5. Not modelled

* Weak memory effects: both cores of the RP2040 see memory in order, and all the
  shared accesses are through `volatile` pointers (the `memcpy`s are not; a
  compiler that moved a `memcpy` past the store of a descriptor is not modelled).
* The module's `fini`, which gives its workspace back. A repeated initialisation (RMReInit) is
  modelled in `PipeRx` and `PipeTx` (`ModuleReInit`) between commands, not in the middle of one.
* What the server takes a packet put together of two for, and the podule's answers to a module
  that it does not know to have started again, as far as the theorems of section 4 do not say.
* The loader's timeout under a podule that serves, but slower than the million polls.
* The parsing of command lines, and errors of the Arc's filing system other than a disc
  that is full or a file that cannot be created.
* More than 255 resets within one turn of the podule's loop.
* Failures of the host's file system under `RawFile`: an `open` that fails although `Search` found a file
  (its effect is that of a name without one, `Files` being what can be opened), and a `pread` that fails or
  stops before the end of the file (its effect, old bytes in a block, is modelled for blocks past the end).
* Contents of packets, console output, LEDs, pin set-up.
* The components listed as `not_modelled` in `PROJECT.json`.

## 6. What is left

The module's `fini` is the only code left that changes state the models know of. A hang-up in the middle
of an *answer* leaves part of it in `tx_buffer`, which the reopened port is then sent from where it was:
`AnySpec` of `Server` has such hang-ups, and it is proved that the server's buffers stay sound, but what the
client gets, the rest of an answer in front of the next, is not stated as a property. The podule's aborted
transmission (`pipe_packet.c:398`) is the same on the other side of the cable; what its host makes of
half a frame is not described further than that `Framed` fails.
