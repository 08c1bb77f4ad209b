------------------------------ MODULE PoduleBus ------------------------------
(***************************************************************************)
(* Core 1 of the podule: a loop that watches the select and strobe lines   *)
(* of the Arc's bus, and answers a read with a byte of the shared memory   *)
(* or stores the byte of a write (podule_interface.c).  Core 0 writes the  *)
(* same memory at any time.  Each access of core 1 to the pins or to the   *)
(* memory is a step of its own.                                            *)
(*                                                                         *)
(* The Arc does not wait for the podule.  That core 1 is quick enough is   *)
(* assumed, in InTime and Ready: "there's < 200ns between /RD |_ and data  *)
(* needing to be ready".                                                   *)
(***************************************************************************)
EXTENDS Naturals

CONSTANTS
  Bits,       \* D0 to D7
  MemSize,    \* 4096, scaled down: bytes in podule_space
  RomSize     \* 2048, scaled down: of which the first are read-only to the Arc

ASSUME BusAssumption == MemSize \in Nat \ {0} /\ RomSize \in 0 .. MemSize

Byte  == SUBSET Bits      \* the lines that are high
Addrs == 0 .. MemSize - 1

VARIABLES
  mem,        \* podule_space
  sel,        \* /SEL is low
  strobe,     \* "rd" or "wr": /RD or /WR is low
  addr,       \* A2 to A13
  wdata,      \* what the Arc drives on the data lines while it writes
  arcPc,      \* where the Arc is in a bus cycle
  got,        \* the byte it read last
  pc,         \* where core 1 is in pif_mainloop
  regAddr,    \* register %1: the address sampled
  regData,    \* register %0: the byte sampled or loaded
  out,        \* GPIO_OUT of D0 to D7: lines set high
  oe          \* GPIO_OE of D0 to D7

busVars  == <<sel, strobe, addr, wdata, arcPc, got>>
coreVars == <<pc, regAddr, regData, out, oe>>
vars     == <<mem, busVars, coreVars>>

\* After podule_if_init, between two bus cycles.
Init ==
  /\ mem = [a \in Addrs |-> {}]
  /\ sel = FALSE /\ strobe = "none" /\ addr = 0 /\ wdata = {}
  /\ arcPc = "idle" /\ got = {}
  /\ pc = "strobe" /\ regAddr = 0 /\ regData = {}
  /\ out = {} /\ oe = FALSE

\* What may be read from the data lines: nobody drives them, or both do, and
\* it may be anything.
DataLines ==
  IF oe THEN IF strobe = "wr" THEN Byte ELSE {out}
        ELSE IF strobe = "wr" THEN {wdata} ELSE Byte

-----------------------------------------------------------------------------
(* The Arc's bus: external, modelled from what pif_mainloop waits for *)

\* A cycle leaves core 1 the time to be back from the last one.
Ready == pc = "strobe"

Select(a) ==
  /\ arcPc = "idle" /\ Ready
  /\ sel' = TRUE /\ addr' = a
  /\ arcPc' = "select"
  /\ UNCHANGED <<mem, strobe, wdata, got, coreVars>>

StrobeRead ==
  /\ arcPc = "select"
  /\ strobe' = "rd"
  /\ arcPc' = "strobe"
  /\ UNCHANGED <<mem, sel, addr, wdata, got, coreVars>>

StrobeWrite(d) ==
  /\ arcPc = "select"
  /\ strobe' = "wr" /\ wdata' = d
  /\ arcPc' = "strobe"
  /\ UNCHANGED <<mem, sel, addr, got, coreVars>>

\* It lasts until the byte of a read is on the lines, or until core 1 has seen
\* that there is a write, and the data with it.
InTime == IF strobe = "rd" THEN pc = "hold" ELSE pc # "strobe"

CycleOver ==
  /\ arcPc = "strobe" /\ InTime
  /\ IF strobe = "rd" THEN got' \in DataLines ELSE UNCHANGED got
  /\ arcPc' = "end"
  /\ UNCHANGED <<mem, sel, strobe, addr, wdata, coreVars>>

\* Select and strobe go away in either order.
Unstrobe ==
  /\ arcPc = "end" /\ strobe # "none"
  /\ strobe' = "none" /\ wdata' = {}
  /\ arcPc' = IF sel THEN "end" ELSE "idle"
  /\ UNCHANGED <<mem, sel, addr, got, coreVars>>

Deselect ==
  /\ arcPc = "end" /\ sel
  /\ sel' = FALSE
  /\ arcPc' = IF strobe # "none" THEN "end" ELSE "idle"
  /\ UNCHANGED <<mem, strobe, addr, wdata, got, coreVars>>

-----------------------------------------------------------------------------
(* Core 0: podule_poll, pipe_poll and init_podule_space write podule_space *)

Core0Write(a, d) ==
  /\ mem' = [mem EXCEPT ![a] = d]
  /\ UNCHANGED <<busVars, coreVars>>

-----------------------------------------------------------------------------
(* Core 1: pif_mainloop *)

\* Mutant: only reads are looked for.
Selected_Read == sel /\ strobe = "rd"

\* "Selected for read or write?"
Selected == sel /\ strobe # "none"

\* One load of GPIO_IN has select, strobe, address and data.
PifStrobe ==
  /\ pc = "strobe"
  /\ Selected
  /\ regAddr' = addr
  /\ regData' \in DataLines
  /\ pc' = IF strobe = "rd" THEN "load" ELSE "store"
  /\ UNCHANGED <<mem, busVars, out, oe>>

PifLoad ==
  /\ pc = "load"
  /\ regData' = mem[regAddr]
  /\ pc' = "set"
  /\ UNCHANGED <<mem, busVars, regAddr, out, oe>>

\* GPIO_SET: lines that are high already stay high.
PifSet ==
  /\ pc = "set"
  /\ out' = out \cup regData
  /\ pc' = "enable"
  /\ UNCHANGED <<mem, busVars, regAddr, regData, oe>>

PifEnable ==
  /\ pc = "enable"
  /\ oe' = TRUE
  /\ pc' = "hold"
  /\ UNCHANGED <<mem, busVars, regAddr, regData, out>>

\* "Now wait for SEL to go high".
PifReadDone ==
  /\ pc = "hold"
  /\ ~sel
  /\ pc' = "release"
  /\ UNCHANGED <<mem, busVars, regAddr, regData, out, oe>>

\* Mutant: the lines stay outputs.
PifRelease_Keeps ==
  /\ pc = "release"
  /\ pc' = "clear"
  /\ UNCHANGED <<mem, busVars, regAddr, regData, out, oe>>

\* "Finally, clear D, set pins inputs".
PifRelease ==
  /\ pc = "release"
  /\ oe' = FALSE
  /\ pc' = "clear"
  /\ UNCHANGED <<mem, busVars, regAddr, regData, out>>

\* Mutant: the lines set high are left for the next byte.
PifClear_Keeps ==
  /\ pc = "clear"
  /\ pc' = "strobe"
  /\ regAddr' = 0 /\ regData' = {}
  /\ UNCHANGED <<mem, busVars, out, oe>>

\* Back to pif_mainloop, where both registers are loaded with something else.
PifClear ==
  /\ pc = "clear"
  /\ out' = {}
  /\ pc' = "strobe"
  /\ regAddr' = 0 /\ regData' = {}
  /\ UNCHANGED <<mem, busVars, oe>>

\* Mutant: the first byte of the registers is taken for ROM.
Writable_NotFirst(a) == a > RomSize

\* "Is addr >=2048? (0-2047 are R/O)".
Writable(a) == a >= RomSize

PifStore ==
  /\ pc = "store"
  /\ mem' = IF Writable(regAddr) THEN [mem EXCEPT ![regAddr] = regData] ELSE mem
  /\ pc' = "written"
  /\ UNCHANGED <<busVars, regAddr, regData, out, oe>>

PifWriteDone ==
  /\ pc = "written"
  /\ ~sel
  /\ pc' = "strobe"
  /\ regAddr' = 0 /\ regData' = {}
  /\ UNCHANGED <<mem, busVars, out, oe>>

-----------------------------------------------------------------------------
(* Specifications *)

PifNext ==
  \/ PifStrobe \/ PifLoad \/ PifSet \/ PifEnable \/ PifReadDone \/ PifRelease
  \/ PifClear \/ PifStore \/ PifWriteDone

\* A cycle that has begun runs on.
CycleNext ==
  StrobeRead \/ (\E d \in Byte : StrobeWrite(d)) \/ CycleOver \/ Unstrobe \/ Deselect

Next ==
  \/ \E a \in Addrs : Select(a)
  \/ CycleNext
  \/ \E a \in Addrs, d \in Byte : Core0Write(a, d)
  \/ PifNext

Spec == Init /\ [][Next]_vars

\* Core 1 does nothing else and has its interrupts off; the Arc's cycles end.
FairSpec == Spec /\ WF_vars(PifNext) /\ WF_vars(CycleNext)

-----------------------------------------------------------------------------
(* Properties *)

\* Types; and between two cycles no line is left driven, or set high for the
\* next byte to be mixed with (GPIO_SET and GPIO_CLR in pif_rd).
TypeOK ==
  /\ mem \in [Addrs -> Byte]
  /\ sel \in BOOLEAN /\ strobe \in {"none", "rd", "wr"}
  /\ addr \in Addrs /\ wdata \in Byte
  /\ arcPc \in {"idle", "select", "strobe", "end"} /\ got \in Byte
  /\ pc \in {"strobe", "load", "set", "enable", "hold", "release", "clear",
             "store", "written"}
  /\ regAddr \in Addrs /\ regData \in Byte
  /\ out \in Byte /\ oe \in BOOLEAN
  /\ pc = "strobe" => out = {} /\ ~oe

\* The podule and the Arc never drive the data lines at the same time: the
\* lines are inputs again before a write can follow a read.
NoContention == ~(oe /\ strobe = "wr")

\* The access that is under way, as the memory sees it: a read is done when its
\* byte is loaded, a write when its byte is stored.
Op ==
  CASE arcPc = "strobe" /\ pc \in {"set", "enable", "hold"} ->
         [kind |-> "done", addr |-> regAddr, data |-> regData]
    [] pc = "store" -> [kind |-> "write", addr |-> regAddr, data |-> regData]
    [] arcPc = "strobe" /\ strobe = "rd" /\ pc \in {"strobe", "load"} ->
         [kind |-> "read", addr |-> addr, data |-> {}]
    [] arcPc = "strobe" /\ strobe = "wr" /\ pc = "strobe" ->
         [kind |-> "write", addr |-> addr, data |-> wdata]
    [] OTHER -> [kind |-> "none", addr |-> 0, data |-> {}]

\* The Arc sees a memory in which each of its accesses is one step, though bytes
\* go through the pins, and core 0 writes in between: what it reads is a byte
\* that was there during its read, what it writes is stored once, and not below
\* RomSize.
Memory == INSTANCE SharedMemory WITH op <- Op

ImplementsMemory == Memory!Spec

\* Every cycle is answered, and core 1 is ready for the next.
EveryCycleEnds == sel ~> (~sel /\ pc = "strobe")
=============================================================================
