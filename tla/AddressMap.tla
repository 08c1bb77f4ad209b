----------------------------- MODULE AddressMap -----------------------------
(***************************************************************************)
(* Where an access of the Arc ends up in podule_space.  The address lines  *)
(* A2 to A13 come in on pins that differ between the two boards (hw.h);    *)
(* pif_mainloop gathers them with masks, an addition and a shift           *)
(* (podule_interface.c), and refuses writes below 2048.  The Arc's code    *)
(* adds four times a register's number to PR_BASE, the podule's adds the   *)
(* number to PODULE_REGS (podule_regs.h, podule_interface.h).  The other   *)
(* modules take for granted that both speak of the same byte.              *)
(*                                                                         *)
(* Registers are numbers here; "and" with a mask of consecutive bits, and  *)
(* "or" and "+" of numbers that share no bit, are arithmetic.              *)
(***************************************************************************)
EXTENDS Integers

Below(n) == {i \in Nat : i < n}

\* w & ((span - 1) << n), where low is 2^n and span a power of two.
And(w, low, span) == low * ((w \div low) % span)

-----------------------------------------------------------------------------
(* hw.h: GPIO_*.  From D0 up: d on D0 to D7, c on the five control pins      *)

Line  == Below(4096)            \* A2 to A13
Data  == Below(256)
Ctrl  == [nsel : {0, 1}, hirq : {0, 1}, hrst : {0, 1}, nrd : {0, 1}, nwr : {0, 1}]

CtrlPins(c) == 256 * c.nsel + 512 * c.hirq + 1024 * c.hrst + 2048 * c.nrd + 4096 * c.nwr

\* Board 1: A2 to A4 on pins 13 to 15, /RST on 16, A5 to A13 on 17 to 25.
Gpio1(a, d, c, nrst, rest) ==
  d + CtrlPins(c) + 8192 * (a % 8) + 65536 * nrst + 131072 * (a \div 8) + 67108864 * rest

\* Board 2: A2 to A13 on pins 13 to 24.
Gpio2(a, d, c, rest) == d + CtrlPins(c) + 8192 * a + 33554432 * rest

-----------------------------------------------------------------------------
(* podule_interface.c *)

Low(w)  == And(w, 8192, 8)             \* 7 << GPIO_A2
High(w) == And(w, 131072, 512)         \* 0x1ff << GPIO_A5

\* "Trick: Shift A[4:2] field left by adding to self".
Address1(w) == (Low(w) + (Low(w) + High(w))) \div 16384
Address2(w) == And(w, 8192, 4096) \div 8192

\* get_addr and get_data, for the debug output.
GetAddr1(w) == (Low(w) \div 8192) + (High(w) \div 16384)
GetAddr2(w) == And(w, 8192, 4096) \div 8192
GetData(w)  == And(w, 1, 256)

\* "Selected for read or write?": /SEL and a strobe are both low.
IsRead(w)  == And(w, 256, 2) + And(w, 2048, 2) = 0
IsWrite(w) == And(w, 256, 2) + And(w, 4096, 2) = 0

\* "Is addr >=2048? (0-2047 are R/O)".
Writable(a) == ~(a < 8 * 256)

-----------------------------------------------------------------------------
(* podule_regs.h and podule_interface.h *)

PR_BASE == 8192
PODULE_MEM_ROM_WINDOW == 1024
PODULE_REGS == 2048

\* Registers by number: first and last of each use.
Regs == [page    |-> [from |-> 0,    to |-> 1],
         reset   |-> [from |-> 2,    to |-> 2],
         txTail  |-> [from |-> 64,   to |-> 64],
         rxHead  |-> [from |-> 65,   to |-> 65],
         txDescr |-> [from |-> 128,  to |-> 159],
         rxDescr |-> [from |-> 160,  to |-> 191],
         txBuf   |-> [from |-> 1024, to |-> 1535],
         rxBuf   |-> [from |-> 1536, to |-> 2047]]

\* A byte of a descriptor, PR_TX<n>_<k> or PR_RX<n>_<k>.
TxDescr(n, k) == 128 + 4 * n + k
RxDescr(n, k) == 160 + 4 * n + k

\* What pipe_init clears with each memset: PR_NUM_DESCRS * 4 bytes.
InitClears(from) == {from + i : i \in Below(2 * 4)}

\* The address the Arc's code uses for a register, and for a byte of the ROM
\* window, and which line of the bus that is ("Convert byte idx into words").
ArcReg(r)    == PR_BASE + 4 * r
ArcWindow(o) == 4 * (1024 + o)
LineOf(addr) == (addr \div 4) % 4096
=============================================================================
