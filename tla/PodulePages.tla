---------------------------- MODULE PodulePages ----------------------------
(***************************************************************************)
(* The paged ROM window and the reset request.  After a reset RISC OS      *)
(* enters the loader (loader/loader.S), which counts PR_RESET up, and      *)
(* reads the module out of the podule's ROM a byte at a time: the loader   *)
(* writes a page number with the top bit of its high byte set, waits until *)
(* the podule (arc_pipe_podule.c, podule_poll) has copied the page into    *)
(* the window and cleared the bit, and takes the byte from the window.     *)
(* podule_poll looks at the page registers first and at PR_RESET second.   *)
(*                                                                         *)
(* The podule may restart while the Arc runs: it loses everything, comes   *)
(* up with its registers clear (init_podule_space), which the Arc may see, *)
(* and resets the Arc before it enters its main loop (main).               *)
(*                                                                         *)
(* The two processors share the page registers, PR_RESET and the window:   *)
(* every access to one of them is a step of its own.                       *)
(***************************************************************************)
EXTENDS Integers

Below(n)   == {i \in Nat : i < n}
Byte       == Below(256)
HighByte   == Below(128)                    \* without the top bit
PageNumber == Below(32768)

CONSTANTS
  PageSize,     \* bytes in a page, scaled down from 1024
  RomPages,     \* pages in podule_rom
  AskedPages,   \* pages the OS reads from
  ModulePages,  \* pages the RISC OS module is spread over
  MaxResets,    \* bound: times the Arc is reset by its user
  MaxRestarts   \* bound: times the podule is restarted

ASSUME PagesAssumption ==
  /\ PageSize \in Nat \ {0}
  /\ RomPages \in Nat \ {0}
  /\ AskedPages \subseteq PageNumber     \* others are "too_big" at once
  /\ ModulePages \subseteq AskedPages
  /\ MaxResets \in Nat /\ MaxRestarts \in Nat

VARIABLES
  window,       \* register: the 1 KB ROM window
  pageL,        \* register: PR_PAGE_L
  pageH,        \* register: PR_PAGE_H, its top bit apart: [load, page]
  resetReg,     \* register: PR_RESET
  podPc,        \* where core 0 is in main and podule_poll
  podPage,      \* page, as podule_poll puts it together
  podK,         \* bytes of the page copied so far
  podH,         \* PR_PAGE_H as loaded for "&= ~0x80"
  resetGen,     \* reset_generation
  arcPc,        \* where the loader is in read_byte
  wanted,       \* the address it was called with: [page, off]
  currentPage,  \* current_page
  answer,       \* the last byte returned, the address it was asked for, and
                \* whether the podule was in its main loop (history)
  pagesRead,    \* pages the OS has read from since the reset
  running,      \* the module is initialised
  stale,        \* pipe_init has run since the module was (history)
  resets,       \* resets so far
  restarts      \* restarts so far

regVars  == <<window, pageL, pageH, resetReg>>
podVars  == <<podPc, podPage, podK, podH, resetGen>>
readVars == <<arcPc, wanted, currentPage, answer, pagesRead>>
bootVars == <<running, stale, resets, restarts>>
vars     == <<regVars, podVars, readVars, bootVars>>

Offsets == 0 .. PageSize - 1
NoPage  == -1                              \* current_page = ~0

\* A byte of the ROM is known by where it is; Blank is a byte of none.
Rom(page, off) == [page |-> page, off |-> off]
Blank(off)     == Rom(NoPage, off)

\* podule_poll, and main before it; core 1 answers the Arc from podule_if_init on.
MainLoop  == {"poll", "high", "low", "copy", "load", "store", "reset"}
Serving   == podPc \in MainLoop
Listening == podPc # "off"

\* The Arc and the podule are both up, the Arc not yet started.
Init ==
  /\ window = [k \in Offsets |-> Rom(0, k)]
  /\ pageL = 0 /\ pageH = [load |-> FALSE, page |-> 0] /\ resetReg = 0
  /\ podPc = "poll" /\ podPage = 0 /\ podK = 0
  /\ podH = [load |-> FALSE, page |-> 0] /\ resetGen = 0
  /\ arcPc = "off" /\ wanted = Rom(0, 0) /\ currentPage = NoPage
  /\ answer = [asked |-> Rom(0, 0), got |-> Rom(0, 0), served |-> FALSE]
  /\ pagesRead = {} /\ running = FALSE /\ stale = FALSE
  /\ resets = 0 /\ restarts = 0

-----------------------------------------------------------------------------
(* Podule, core 0: podule_poll and podule_rom_switch_page *)

\* if (r[PR_PAGE_H] & 0x80): else on to the reset request.
PageLook ==
  /\ podPc = "poll"
  /\ podPc' = IF pageH.load THEN "high" ELSE "reset"
  /\ UNCHANGED <<regVars, podPage, podK, podH, resetGen, readVars, bootVars>>

\* The page number takes a second read of PR_PAGE_H, and one of PR_PAGE_L.
PageHigh ==
  /\ podPc = "high"
  /\ podPage' = 256 * pageH.page
  /\ podPc' = "low"
  /\ UNCHANGED <<regVars, podK, podH, resetGen, readVars, bootVars>>

PageLow ==
  /\ podPc = "low"
  /\ podPage' = podPage + pageL
  /\ podK' = 0
  /\ podPc' = "copy"
  /\ UNCHANGED <<regVars, podH, resetGen, readVars, bootVars>>

\* Mutant: the loop runs once too often.
PageCopy_OneMore ==
  /\ podPc = "copy"
  /\ podPage < RomPages
  /\ window' = [k \in DOMAIN window |-> IF k = podK THEN Rom(podPage, k) ELSE window[k]]
  /\ podK' = podK + 1
  /\ podPc' = IF podK < PageSize THEN "copy" ELSE "load"
  /\ UNCHANGED <<pageL, pageH, resetReg, podPage, podH, resetGen, readVars, bootVars>>

\* memcpy of the page into the window, a byte at a time.
PageCopy ==
  /\ podPc = "copy"
  /\ podPage < RomPages
  /\ window' = [window EXCEPT ![podK] = Rom(podPage, podK)]
  /\ podK' = podK + 1
  /\ podPc' = IF podK + 1 < PageSize THEN "copy" ELSE "load"
  /\ UNCHANGED <<pageL, pageH, resetReg, podPage, podH, resetGen, readVars, bootVars>>

\* Mutant: a page that does not exist is not answered.
PageOffEnd_Returns ==
  /\ podPc = "copy"
  /\ podPage >= RomPages
  /\ podPc' = "reset"
  /\ UNCHANGED <<regVars, podPage, podK, podH, resetGen, readVars, bootVars>>

\* "Argh! page %d is off the end!": nothing is copied, the flag is cleared.
PageOffEnd ==
  /\ podPc = "copy"
  /\ podPage >= RomPages
  /\ podPc' = "load"
  /\ UNCHANGED <<regVars, podPage, podK, podH, resetGen, readVars, bootVars>>

\* r[PR_PAGE_H] &= ~0x80 is a load and a store.
FlagLoad ==
  /\ podPc = "load"
  /\ podH' = pageH
  /\ podPc' = "store"
  /\ UNCHANGED <<regVars, podPage, podK, resetGen, readVars, bootVars>>

FlagStore ==
  /\ podPc = "store"
  /\ pageH' = [podH EXCEPT !.load = FALSE]
  /\ podPc' = "reset"
  /\ UNCHANGED <<window, pageL, resetReg, podPage, podK, podH, resetGen, readVars,
                 bootVars>>

\* A reset request: pipe_init, of which resetGen is seen here, and whether there
\* was a module using the pipe.
ResetLook ==
  /\ podPc = "reset"
  /\ resetGen' = resetReg
  /\ stale' = (stale \/ (running /\ resetReg # resetGen))
  /\ podPc' = "poll"
  /\ UNCHANGED <<regVars, podPage, podK, podH, readVars, running, resets, restarts>>

-----------------------------------------------------------------------------
(* Podule, core 0: a restart (main and init_podule_space) *)

\* Power, or its reset button: external.  Nothing in its memory survives.
PoduleStop ==
  /\ restarts < MaxRestarts
  /\ restarts' = restarts + 1
  /\ podPc' = "off"
  /\ window' = [k \in Offsets |-> Blank(k)]
  /\ pageL' = 0 /\ pageH' = [load |-> FALSE, page |-> 0] /\ resetReg' = 0
  /\ podPage' = 0 /\ podK' = 0 /\ podH' = [load |-> FALSE, page |-> 0]
  /\ resetGen' = 0
  /\ UNCHANGED <<readVars, running, stale, resets>>

\* podule_if_init: core 1 answers, before there is anything to answer with.
IfInit ==
  /\ podPc = "off"
  /\ podPc' = "window"
  /\ UNCHANGED <<regVars, podPage, podK, podH, resetGen, readVars, bootVars>>

\* podule_rom_switch_page(0).
InitWindow ==
  /\ podPc = "window"
  /\ window' = [k \in Offsets |-> Rom(0, k)]
  /\ podPc' = "regs"
  /\ UNCHANGED <<pageL, pageH, resetReg, podPage, podK, podH, resetGen, readVars,
                 bootVars>>

\* The registers are cleared, pipe_init runs.
InitRegs ==
  /\ podPc = "regs"
  /\ pageL' = 0 /\ pageH' = [load |-> FALSE, page |-> 0] /\ resetReg' = 0
  /\ stale' = running
  /\ podPc' = "host"
  /\ UNCHANGED <<window, podPage, podK, podH, resetGen, readVars, running, resets,
                 restarts>>

\* Mutant: built without RESET_HOST_ON_STARTUP.
ResetHost_Skips ==
  /\ podPc = "host"
  /\ podPc' = "poll"
  /\ UNCHANGED <<regVars, podPage, podK, podH, resetGen, readVars, bootVars>>

\* podule_if_reset_host: the Arc is held in reset ...
ResetHost ==
  /\ podPc = "host"
  /\ arcPc' = "off"
  /\ running' = FALSE
  /\ podPc' = "hold"
  /\ UNCHANGED <<regVars, podPage, podK, podH, resetGen, wanted, currentPage, answer,
                 pagesRead, stale, resets, restarts>>

\* ... for 50 ms; then the main loop begins.
ReleaseHost ==
  /\ podPc = "hold"
  /\ podPc' = "poll"
  /\ UNCHANGED <<regVars, podPage, podK, podH, resetGen, readVars, bootVars>>

-----------------------------------------------------------------------------
(* Arc: the loader, and RISC OS around it *)

\* "cmp r3, r10 / beq page_ok".
PageIsIn(page) == page = currentPage

\* read_byte: straight to the byte, or a change of page; current_page is set
\* before the page is there.
ReadByte(page, off) ==
  /\ arcPc = "idle"
  /\ wanted' = Rom(page, off)
  /\ IF PageIsIn(page)
       THEN arcPc' = "byte" /\ UNCHANGED currentPage
       ELSE arcPc' = "low" /\ currentPage' = page
  /\ UNCHANGED <<regVars, podVars, answer, pagesRead, bootVars>>

\* Stores to a podule that is down are lost.
StoreLow ==
  /\ arcPc = "low"
  /\ pageL' = IF Listening THEN wanted.page % 256 ELSE pageL
  /\ arcPc' = "high"
  /\ UNCHANGED <<window, pageH, resetReg, podVars, wanted, currentPage, answer,
                 pagesRead, bootVars>>

\* The flag goes with the high byte, after the low byte is in place.
StoreHigh ==
  /\ arcPc = "high"
  /\ pageH' = IF Listening THEN [load |-> TRUE, page |-> wanted.page \div 256] ELSE pageH
  /\ arcPc' = "wait"
  /\ UNCHANGED <<window, pageL, resetReg, podVars, wanted, currentPage, answer,
                 pagesRead, bootVars>>

\* "if flag clear, success"; with no podule there the flag reads as anything.
PollDone ==
  /\ arcPc = "wait"
  /\ Listening => ~pageH.load
  /\ arcPc' = "byte"
  /\ UNCHANGED <<regVars, podVars, wanted, currentPage, answer, pagesRead, bootVars>>

\* 1024 * 1024 polls with the flag set: an error; current_page stays.  A podule
\* in its main loop is taken to answer within them.
PollTimeout ==
  /\ arcPc = "wait"
  /\ ~Serving
  /\ Listening => pageH.load
  /\ arcPc' = "idle"
  /\ UNCHANGED <<regVars, podVars, wanted, currentPage, answer, pagesRead, bootVars>>

GetByte ==
  /\ arcPc = "byte"
  /\ answer' = [asked |-> wanted, got |-> window[wanted.off], served |-> Serving]
  /\ pagesRead' = pagesRead \cup {wanted.page}
  /\ arcPc' = "idle"
  /\ UNCHANGED <<regVars, podVars, wanted, currentPage, bootVars>>

\* The Arc is reset, whatever it is in the middle of.
ArcReset ==
  /\ resets < MaxResets
  /\ resets' = resets + 1
  /\ arcPc' = "off"
  /\ running' = FALSE
  /\ UNCHANGED <<regVars, podVars, wanted, currentPage, answer, pagesRead, stale,
                 restarts>>

\* A machine reset takes longer than a turn of the podule's main loop; while the
\* podule restarts the Arc may be anywhere, except when it is held in reset.
Settled ==
  IF Serving THEN ~pageH.load /\ podPc \in {"poll", "reset"}
             ELSE podPc \notin {"off", "hold"}

\* Mutant: the loader believes its page is still in.
LoaderReset_KeepsPage ==
  /\ arcPc = "off"
  /\ Settled
  /\ resetReg' = (resetReg + 1) % 256
  /\ pagesRead' = {}
  /\ arcPc' = "idle"
  /\ UNCHANGED <<window, pageL, pageH, podVars, wanted, currentPage, answer, bootVars>>

\* RISC OS starts and enters the loader's reset.
LoaderReset ==
  /\ arcPc = "off"
  /\ Settled
  /\ resetReg' = (resetReg + 1) % 256
  /\ currentPage' = NoPage
  /\ pagesRead' = {}
  /\ arcPc' = "idle"
  /\ UNCHANGED <<window, pageL, pageH, podVars, wanted, answer, bootVars>>

\* All of the module is read: RISC OS initialises it.
ModuleInit ==
  /\ arcPc = "idle"
  /\ ~running
  /\ ModulePages \subseteq pagesRead
  /\ running' = TRUE /\ stale' = FALSE
  /\ UNCHANGED <<regVars, podVars, readVars, resets, restarts>>

-----------------------------------------------------------------------------
(* Specifications *)

PoduleNext ==
  \/ PageLook \/ PageHigh \/ PageLow \/ PageCopy \/ PageOffEnd
  \/ FlagLoad \/ FlagStore \/ ResetLook
  \/ IfInit \/ InitWindow \/ InitRegs \/ ResetHost \/ ReleaseHost

LoaderStep == StoreLow \/ StoreHigh \/ PollDone \/ PollTimeout \/ GetByte

OsNext ==
  \/ \E page \in AskedPages, off \in Offsets : ReadByte(page, off)
  \/ ArcReset \/ LoaderReset \/ ModuleInit

Next == PoduleNext \/ PoduleStop \/ LoaderStep \/ OsNext

Spec == Init /\ [][Next]_vars

\* The podule's main loop never stops, a restart comes to its end, and a call of
\* read_byte runs on.
FairSpec == Spec /\ WF_vars(PoduleNext) /\ WF_vars(LoaderStep)

-----------------------------------------------------------------------------
(* Properties *)

PodPcs  == MainLoop \cup {"off", "window", "regs", "host", "hold"}
ArcPcs  == {"off", "idle", "low", "high", "wait", "byte"}
PageReg == [load : BOOLEAN, page : HighByte]
RomAddr == [page : PageNumber, off : Offsets]
RomByte == [page : PageNumber \cup {NoPage}, off : Offsets]

\* Every variable holds a value of its C or assembler type; the page number
\* put together from two registers is one of 15 bits.
TypeOK ==
  /\ window \in [Offsets -> RomByte]
  /\ pageL \in Byte /\ pageH \in PageReg /\ resetReg \in Byte
  /\ podPc \in PodPcs /\ podPage \in PageNumber /\ podK \in 0 .. PageSize
  /\ podH \in PageReg /\ resetGen \in Byte
  /\ arcPc \in ArcPcs /\ wanted \in RomAddr
  /\ currentPage \in PageNumber \cup {NoPage}
  /\ answer \in [asked : RomAddr, got : RomByte, served : BOOLEAN]
  /\ pagesRead \subseteq AskedPages
  /\ running \in BOOLEAN /\ stale \in BOOLEAN
  /\ resets \in 0 .. MaxResets /\ restarts \in 0 .. MaxRestarts

\* A byte read from an address inside the ROM, once the podule is in its main
\* loop, is the ROM's byte of that address: the handshake never lets the loader
\* look at the page before, at a page half copied, or at one the podule has
\* forgotten, through any sequence of page changes, addresses off the end of the
\* ROM, resets, and restarts of the podule under a loader that does not know.
ByteRight ==
  answer.served /\ answer.asked.page < RomPages => answer.got = answer.asked

\* By the time the module starts the podule has acted on the reset that brought
\* it up; and a module that runs while the podule serves it has never had the
\* pipe initialised under it, by a late reset request or by a restart.
PipeInitFirst == running /\ Serving => resetGen = resetReg /\ ~stale

\* Every read_byte returns, those of pages off the end of the ROM included.
EveryReadReturns ==
  arcPc \in {"low", "high", "wait", "byte"} ~> arcPc \in {"idle", "off"}
=============================================================================
