--------------------------- MODULE RegisterProofs ---------------------------
(***************************************************************************)
(* Proofs about Descriptor and AddressMap: what one side puts into a       *)
(* descriptor the other side takes out of it; core 1 decodes the bus lines *)
(* on either board, and the Arc's and the podule's names of a register     *)
(* mean the same byte.  Arithmetic is kept in lemmas of its own, without   *)
(* the wiring around it.                                                   *)
(***************************************************************************)
EXTENDS Descriptor, AddressMap, TLAPS

CidBits  == 0 .. 6
SizeBits == 0 .. 8

-----------------------------------------------------------------------------
(* Arc to podule *)

\* The word the podule reads after the four stores is the one the Arc had built.
LEMMA StoresMakeTheWord ==
  ASSUME NEW cid, NEW size
  PROVE  TxLoaded(cid, size) = TxWord(cid, size)
<1> DEFINE w == TxWord(cid, size)
<1>1. w \in Word BY DEF TxWord, Lsr, Ready, Word, Bit
<1> HIDE DEF w
<1>2. ASSUME NEW k \in 0 .. 3, NEW b \in Int
      PROVE  b - 8 * k \in ByteAt(Lsr(w, 8 * k), 0) <=> b \in 8 * k .. 8 * k + 7 /\ b \in w
  BY <1>1, SMT DEF ByteAt, Lsr, Word, Bit
<1>3. ASSUME NEW b \in Bit
      PROVE  (\E k \in 0 .. 3 : b - 8 * k \in ByteAt(Lsr(w, 8 * k), 0)) <=> b \in w
  <2>1. b \in Int BY DEF Bit
  <2>2. PICK k \in 0 .. 3 : b \in 8 * k .. 8 * k + 7 BY SMT DEF Bit
  <2> QED BY <1>2, <2>1, <2>2
<1>4. TxLoaded(cid, size) = {b \in Bit : \E k \in 0 .. 3 :
                               b - 8 * k \in ByteAt(Lsr(w, 8 * k), 0)}
  BY DEF TxLoaded, WordOf, TxBytes, w
<1>5. TxLoaded(cid, size) = {b \in Bit : b \in w} BY <1>3, <1>4
<1> QED BY <1>1, <1>5 DEF Word, w

\* Bit by bit, the word of pipe_packet_tx.
LEMMA TxWordBits ==
  ASSUME NEW cid \in SUBSET CidBits, NEW size \in SUBSET SizeBits, NEW b \in Bit
  PROVE  b \in TxWord(cid, size) <=>
           \/ b \in SizeMask /\ b - 12 \in size
           \/ b \in CidMask /\ b - 24 \in cid
           \/ b = 31
BY SMT DEF TxWord, Lsl, Lsr, Ready, Bit, CidBits, SizeBits, SizeMask, CidMask

\* The podule's macros find in a descriptor that the Arc has stored the CID and
\* the length pipe_packet_tx was called with, and the start of the buffer.
THEOREM SubmittedArrives ==
  ASSUME NEW cid \in SUBSET CidBits, NEW size \in SUBSET SizeBits
  PROVE  LET x == TxLoaded(cid, size)
         IN  /\ IsReady(x)
             /\ DescrCid(x) = cid /\ DescrSize(x) = size /\ DescrAddr(x) = {}
<1> DEFINE x == TxLoaded(cid, size)
<1>1. x = TxWord(cid, size) BY StoresMakeTheWord
<1>2. x \in Word BY <1>1 DEF TxWord, Lsr, Ready, Word, Bit
<1>3. \A b \in Bit : b \in x <=> \/ b \in SizeMask /\ b - 12 \in size
                                 \/ b \in CidMask /\ b - 24 \in cid
                                 \/ b = 31
  BY <1>1, TxWordBits
<1> HIDE DEF x
<1>4. IsReady(x) BY <1>3, SMT DEF IsReady, Ready, Bit
<1>5. DescrCid(x) = cid
  <2>1. ASSUME NEW b \in Bit PROVE b \in DescrCid(x) <=> b \in cid
    BY <1>3, SMT DEF DescrCid, Lsr, CidMask, SizeMask, CidBits, Bit
  <2>2. DescrCid(x) \subseteq Bit /\ cid \subseteq Bit
    BY SMT DEF DescrCid, Lsr, CidMask, SizeMask, CidBits, Bit
  <2> QED BY <2>1, <2>2
<1>6. DescrSize(x) = size
  <2>1. ASSUME NEW b \in Bit PROVE b \in DescrSize(x) <=> b \in size
    BY <1>3, SMT DEF DescrSize, Lsr, CidMask, SizeMask, SizeBits, Bit
  <2>2. DescrSize(x) \subseteq Bit /\ size \subseteq Bit
    BY SMT DEF DescrSize, Lsr, CidMask, SizeMask, SizeBits, Bit
  <2> QED BY <2>1, <2>2
<1>7. DescrAddr(x) = {}
  BY <1>2, <1>3, SMT DEF DescrAddr, AddrMask, CidMask, SizeMask, Bit, Word
<1> QED BY <1>4, <1>5, <1>6, <1>7 DEF x

\* The podule finds a descriptor READY when the Arc's fourth store has been made
\* and not before, whatever the other three bytes are; and the Arc sees in that
\* byte alone what the podule sees in the word.
THEOREM ReadyIsInTheLastByte ==
  ASSUME NEW bytes \in [0 .. 3 -> SUBSET (0 .. 7)]
  PROVE  IsReady(WordOf(bytes)) <=> SeenReady(bytes)
<1>1. 31 \in WordOf(bytes) <=> \E k \in 0 .. 3 : 31 - 8 * k \in bytes[k]
  BY SMT DEF WordOf, Bit
<1>2. ASSUME NEW k \in 0 .. 3
      PROVE  31 - 8 * k \in bytes[k] <=> k = 3 /\ 7 \in bytes[3]
  <2>1. bytes[k] \subseteq 0 .. 7 OBVIOUS
  <2>2. k # 3 => 31 - 8 * k \notin 0 .. 7 BY SMT
  <2>3. k = 3 => 31 - 8 * k = 7 BY SMT
  <2> QED BY <2>1, <2>2, <2>3
<1>3. 31 \in WordOf(bytes) <=> 7 \in bytes[3] BY <1>1, <1>2
<1> QED BY <1>3 DEF IsReady, Ready, SeenReady

\* Clearing READY, the podule leaves the other fields, and the Arc's poll ends.
THEOREM ClearedIsSeen ==
  ASSUME NEW x \in Word
  PROVE  /\ ~IsReady(Cleared(x))
         /\ ~SeenReady([k \in 0 .. 3 |-> ByteAt(Cleared(x), k)])
         /\ DescrCid(Cleared(x)) = DescrCid(x) /\ DescrSize(Cleared(x)) = DescrSize(x)
<1>1. ~IsReady(Cleared(x)) BY DEF IsReady, Cleared
<1>2. 31 \notin Cleared(x) BY DEF Cleared, Ready
<1>3. 7 \notin ByteAt(Cleared(x), 3) BY <1>2, SMT DEF ByteAt
<1>4. CidMask \cap Ready = {} /\ SizeMask \cap Ready = {}
  BY SMT DEF CidMask, SizeMask, Ready
<1>5. Cleared(x) \cap CidMask = x \cap CidMask /\ Cleared(x) \cap SizeMask = x \cap SizeMask
  BY <1>4 DEF Cleared
<1> QED BY <1>1, <1>3, <1>5 DEF SeenReady, DescrCid, DescrSize

-----------------------------------------------------------------------------
(* Podule to Arc *)

\* The four loads of the Arc make up the word the podule has stored.
LEMMA LoadsMakeTheWord ==
  ASSUME NEW x \in Word
  PROVE  Loaded([k \in 0 .. 3 |-> ByteAt(x, k)]) = x
<1> DEFINE r4 == Loaded([k \in 0 .. 3 |-> ByteAt(x, k)])
<1>1. r4 = ByteAt(x, 0) \cup Lsl(ByteAt(x, 1), 8) \cup Lsl(ByteAt(x, 2), 16)
             \cup Lsl(ByteAt(x, 3), 24)
  BY DEF Loaded
<1>2. ASSUME NEW b \in Bit PROVE b \in r4 <=> b \in x
  <2>1. b \in ByteAt(x, 0) <=> b \in 0 .. 7 /\ b \in x BY <1>2, SMT DEF ByteAt, Bit
  <2>2. b \in Lsl(ByteAt(x, 1), 8) <=> b \in 8 .. 15 /\ b \in x
    BY <1>2, SMT DEF ByteAt, Lsl, Bit
  <2>3. b \in Lsl(ByteAt(x, 2), 16) <=> b \in 16 .. 23 /\ b \in x
    BY <1>2, SMT DEF ByteAt, Lsl, Bit
  <2>4. b \in Lsl(ByteAt(x, 3), 24) <=> b \in 24 .. 31 /\ b \in x
    BY <1>2, SMT DEF ByteAt, Lsl, Bit
  <2>5. b \in 0 .. 7 \/ b \in 8 .. 15 \/ b \in 16 .. 23 \/ b \in 24 .. 31
    BY <1>2, SMT DEF Bit
  <2> QED BY <1>1, <2>1, <2>2, <2>3, <2>4, <2>5
<1>3. r4 \subseteq Bit BY <1>1, SMT DEF ByteAt, Lsl, Bit
<1> QED BY <1>2, <1>3 DEF Word

\* pipe_packet_rx finds in a descriptor that pipe_rx_packet has posted the length
\* of the packet, and the low seven bits of a CID of eight: READY takes the place
\* of the eighth.
THEOREM PostedArrives ==
  ASSUME NEW cid \in SUBSET (0 .. 7), NEW size \in SUBSET SizeBits
  PROVE  LET r4 == RxLoaded(cid, size)
         IN  /\ SeenReady([k \in 0 .. 3 |-> ByteAt(PostedWord(cid, size), k)])
             /\ RxCid(r4) = cid \cap CidBits /\ RxSize(r4) = size /\ RxAddr(r4) = {}
<1> DEFINE x == PostedWord(cid, size)
<1>1. x \in Word BY SMT DEF PostedWord, Lsl, Ready, Word, Bit
<1>2. RxLoaded(cid, size) = x BY <1>1, LoadsMakeTheWord DEF RxLoaded
<1>3. ASSUME NEW b \in Bit
      PROVE  b \in x <=> \/ b \in 12 .. 20 /\ b - 12 \in size
                         \/ b \in 24 .. 31 /\ b - 24 \in cid
                         \/ b = 31
  BY SMT DEF PostedWord, Lsl, Ready, Bit, SizeBits
<1> HIDE DEF x
<1>4. 7 \in ByteAt(x, 3) BY <1>3, SMT DEF ByteAt, Bit
<1>5. RxCid(x) = cid \cap CidBits
  BY <1>3, SMT DEF RxCid, Lsl, Lsr, CidBits, Bit
<1>6. RxSize(x) = size
  <2>1. ASSUME NEW b \in Bit PROVE b \in RxSize(x) <=> b \in size
    BY <1>3, SMT DEF RxSize, Lsl, Lsr, SizeBits, Bit
  <2>2. RxSize(x) \subseteq Bit /\ size \subseteq Bit
    BY SMT DEF RxSize, Lsl, Lsr, SizeBits, Bit
  <2> QED BY <2>1, <2>2
<1>7. RxAddr(x) = {} BY <1>3, SMT DEF RxAddr, Lsl, Lsr, Bit
<1> QED BY <1>2, <1>4, <1>5, <1>6, <1>7 DEF SeenReady, x

\* A packet of no bytes: the length less one has all its bits set, the Arc reads
\* 512 bytes, and its CID as 127.
THEOREM EmptyIsLongest ==
  ASSUME NEW cid \in SUBSET (0 .. 7)
  PROVE  LET r4 == RxLoaded(cid, Bit)
         IN  RxSize(r4) = SizeBits /\ RxCid(r4) = CidBits
<1> DEFINE x == PostedWord(cid, Bit)
<1>1. x \in Word BY SMT DEF PostedWord, Lsl, Ready, Word, Bit
<1>2. RxLoaded(cid, Bit) = x BY <1>1, LoadsMakeTheWord DEF RxLoaded
<1>3. \A b \in 12 .. 31 : b \in x BY SMT DEF PostedWord, Lsl, Bit
<1> HIDE DEF x
<1>4. RxSize(x) = SizeBits BY <1>3, SMT DEF RxSize, Lsl, Lsr, SizeBits, Bit
<1>5. RxCid(x) = CidBits BY <1>3, SMT DEF RxCid, Lsl, Lsr, CidBits, Bit
<1> QED BY <1>2, <1>4, <1>5 DEF x

-----------------------------------------------------------------------------
(* The pins and the registers *)

LEMMA CtrlType ==
  ASSUME NEW c \in Ctrl
  PROVE  CtrlPins(c) \in Nat /\ CtrlPins(c) < 8192 /\ CtrlPins(c) % 256 = 0
<1>1. /\ c.nsel \in {0, 1} /\ c.hirq \in {0, 1} /\ c.hrst \in {0, 1}
      /\ c.nrd \in {0, 1} /\ c.nwr \in {0, 1}
  BY DEF Ctrl
<1> QED
  BY <1>1 DEF CtrlPins

\* A field that lies between lower bits, lo, and higher ones is what And takes.
LEMMA Field13 ==
  ASSUME NEW lo \in Nat, lo < 8192, NEW f \in Nat, f < 8, NEW hi \in Nat
  PROVE  (lo + 8192 * f + 65536 * hi) \div 8192 = f + 8 * hi /\ (f + 8 * hi) % 8 = f
  OBVIOUS

LEMMA Field17 ==
  ASSUME NEW lo \in Nat, lo < 131072, NEW f \in Nat, f < 512, NEW hi \in Nat
  PROVE  (lo + 131072 * f + 67108864 * hi) \div 131072 = f + 512 * hi
         /\ (f + 512 * hi) % 512 = f
  OBVIOUS

LEMMA Field13Wide ==
  ASSUME NEW lo \in Nat, lo < 8192, NEW f \in Nat, f < 4096, NEW hi \in Nat
  PROVE  (lo + 8192 * f + 33554432 * hi) \div 8192 = f + 4096 * hi
         /\ (f + 4096 * hi) % 4096 = f
  OBVIOUS

LEMMA Bit8 ==
  ASSUME NEW lo \in Nat, lo < 256, NEW b \in {0, 1}, NEW hi \in Nat
  PROVE  ((lo + 256 * b + 512 * hi) \div 256) % 2 = b
OBVIOUS

LEMMA Bit11 ==
  ASSUME NEW lo \in Nat, lo < 2048, NEW b \in {0, 1}, NEW hi \in Nat
  PROVE  ((lo + 2048 * b + 4096 * hi) \div 2048) % 2 = b
OBVIOUS

LEMMA Bit12 ==
  ASSUME NEW lo \in Nat, lo < 4096, NEW b \in {0, 1}, NEW hi \in Nat
  PROVE  ((lo + 4096 * b + 8192 * hi) \div 4096) % 2 = b
OBVIOUS

LEMMA LowByte ==
  ASSUME NEW d \in Nat, d < 256, NEW hi \in Nat
  PROVE  ((d + 256 * hi) \div 1) % 256 = d
OBVIOUS

LEMMA Split8 ==
  ASSUME NEW a \in Nat, a < 4096
  PROVE  /\ a % 8 \in Nat /\ a % 8 < 8
         /\ a \div 8 \in Nat /\ a \div 8 < 512
         /\ a = (a % 8) + 8 * (a \div 8)
  OBVIOUS

\* The addition moves the low field up by one bit, next to the high one.
LEMMA Trick ==
  ASSUME NEW f \in Nat, f < 8, NEW g \in Nat, g < 512
  PROVE  /\ (8192 * f + (8192 * f + 131072 * g)) \div 16384 = f + 8 * g
         /\ (8192 * f) \div 8192 = f
         /\ (131072 * g) \div 16384 = 8 * g
  OBVIOUS

-----------------------------------------------------------------------------
(* Core 1 *)

\* Board 1 (podule_interface.c, pif_rd and pif_wr): whatever is on the other pins,
\* the two address fields come together as the number on A2 to A13, which is also
\* what the debug output shows.
THEOREM Board1Address ==
  ASSUME NEW a \in Line, NEW d \in Data, NEW c \in Ctrl, NEW nrst \in {0, 1},
         NEW rest \in Nat
  PROVE  LET w == Gpio1(a, d, c, nrst, rest) IN Address1(w) = a /\ GetAddr1(w) = a
<1> DEFINE w  == Gpio1(a, d, c, nrst, rest)
           f  == a % 8
           g  == a \div 8
           lo == d + CtrlPins(c)
           hi == nrst + 2 * (g + 512 * rest)
           mid == lo + 8192 * f + 65536 * nrst
<1>1. /\ f \in Nat /\ f < 8 /\ g \in Nat /\ g < 512 /\ a = f + 8 * g
  BY Split8 DEF Line, Below
<1>2. d \in Nat /\ d < 256 /\ nrst \in Nat /\ nrst <= 1
  BY DEF Data, Below
<1>3. CtrlPins(c) \in Nat /\ CtrlPins(c) < 8192 /\ CtrlPins(c) % 256 = 0
  BY CtrlType
<1>4. lo \in Nat /\ lo < 8192
  BY <1>2, <1>3
<1>5. w = lo + 8192 * f + 65536 * nrst + 131072 * g + 67108864 * rest
  BY DEF Gpio1
<1> HIDE DEF f, g, lo, w
<1>6. hi \in Nat /\ w = lo + 8192 * f + 65536 * hi
  BY <1>1, <1>2, <1>4, <1>5
<1>7. mid \in Nat /\ mid < 131072 /\ w = mid + 131072 * g + 67108864 * rest
  BY <1>1, <1>2, <1>4, <1>5
<1> HIDE DEF hi, mid
<1>8. Low(w) = 8192 * f
  BY <1>1, <1>4, <1>6, Field13 DEF Low, And
<1>9. High(w) = 131072 * g
  BY <1>1, <1>7, Field17 DEF High, And
<1>10. Address1(w) = f + 8 * g /\ GetAddr1(w) = f + 8 * g
  BY <1>1, <1>8, <1>9, Trick DEF Address1, GetAddr1
<1> QED
  BY <1>1, <1>10 DEF w

\* Board 2: the address pins are in one row.
THEOREM Board2Address ==
  ASSUME NEW a \in Line, NEW d \in Data, NEW c \in Ctrl, NEW rest \in Nat
  PROVE  LET w == Gpio2(a, d, c, rest) IN Address2(w) = a /\ GetAddr2(w) = a
<1> DEFINE w  == Gpio2(a, d, c, rest)
           lo == d + CtrlPins(c)
<1>1. a \in Nat /\ a < 4096 /\ d \in Nat /\ d < 256
  BY DEF Line, Data, Below
<1>2. lo \in Nat /\ lo < 8192
  BY <1>1, CtrlType
<1>3. w = lo + 8192 * a + 33554432 * rest
  BY DEF Gpio2
<1> HIDE DEF lo, w
<1>4. And(w, 8192, 4096) = 8192 * a
  BY <1>1, <1>2, <1>3, Field13Wide DEF And
<1>5. (8192 * a) \div 8192 = a
  BY <1>1
<1> QED
  BY <1>4, <1>5 DEF Address2, GetAddr2, w

\* "Selected for read or write?" (pif_wait_strobe): a cycle is taken for a read
\* exactly when /SEL and /RD are both low, for a write when /SEL and /WR are, the
\* interrupt and reset outputs between them having no part in it.
THEOREM StrobesAreTold ==
  ASSUME NEW a \in Line, NEW d \in Data, NEW c \in Ctrl, NEW rest \in Nat
  PROVE  LET w == Gpio2(a, d, c, rest) IN
         /\ IsRead(w)  <=> c.nsel = 0 /\ c.nrd = 0
         /\ IsWrite(w) <=> c.nsel = 0 /\ c.nwr = 0
         /\ GetData(w) = d
<1> DEFINE w == Gpio2(a, d, c, rest)
           n == a + 4096 * rest
<1>1. d \in Nat /\ d < 256 /\ n \in Nat
  BY DEF Line, Data, Below
<1>2. c.nsel \in {0, 1} /\ c.hirq \in {0, 1} /\ c.hrst \in {0, 1} /\ c.nrd \in {0, 1}
      /\ c.nwr \in {0, 1}
  BY DEF Ctrl
<1>3. w = d + 256 * c.nsel + 512 * c.hirq + 1024 * c.hrst + 2048 * c.nrd
            + 4096 * c.nwr + 8192 * n
  BY <1>1, <1>2 DEF Gpio2, CtrlPins, Line, Below
<1> HIDE DEF w, n
<1>a. (w \div 256) % 2 = c.nsel
  <2> DEFINE hi == c.hirq + 2 * c.hrst + 4 * c.nrd + 8 * c.nwr + 16 * n
  <2>1. hi \in Nat /\ w = d + 256 * c.nsel + 512 * hi
    BY <1>1, <1>2, <1>3
  <2> HIDE DEF hi
  <2> QED
    BY <1>1, <1>2, <2>1, Bit8
<1>b. (w \div 2048) % 2 = c.nrd
  <2> DEFINE l == d + 256 * c.nsel + 512 * c.hirq + 1024 * c.hrst
             h == c.nwr + 2 * n
  <2>1. l \in Nat /\ l < 2048 /\ h \in Nat /\ w = l + 2048 * c.nrd + 4096 * h
    BY <1>1, <1>2, <1>3
  <2>2. PICK lo \in Nat, hi \in Nat : lo < 2048 /\ w = lo + 2048 * c.nrd + 4096 * hi
    BY <2>1
  <2>3. c.nrd \in {0, 1}
    BY <1>2
  <2> QED
    BY <2>2, <2>3, Bit11
<1>c. (w \div 4096) % 2 = c.nwr
  <2> DEFINE lo == d + 256 * c.nsel + 512 * c.hirq + 1024 * c.hrst + 2048 * c.nrd
  <2>1. lo \in Nat /\ lo < 4096 /\ w = lo + 4096 * c.nwr + 8192 * n
    BY <1>1, <1>2, <1>3
  <2> HIDE DEF lo
  <2> QED
    BY <1>1, <1>2, <2>1, Bit12, SMTT(30)
<1>d. (w \div 1) % 256 = d
  <2> DEFINE hi == c.nsel + 2 * c.hirq + 4 * c.hrst + 8 * c.nrd + 16 * c.nwr + 32 * n
  <2>1. hi \in Nat /\ w = d + 256 * hi
    BY <1>1, <1>2, <1>3
  <2> QED
    BY <1>1, <2>1, LowByte
<1>4. (w \div 256) % 2 = c.nsel /\ (w \div 2048) % 2 = c.nrd /\ (w \div 4096) % 2 = c.nwr
      /\ (w \div 1) % 256 = d
  BY <1>a, <1>b, <1>c, <1>d
<1> QED
  BY <1>1, <1>2, <1>4 DEF IsRead, IsWrite, GetData, And, w

-----------------------------------------------------------------------------
(* Arc and podule *)

\* The Arc's address of a register (mod_pipe/pipe_packet.S, loader/loader.S) leads
\* to the byte the podule keeps it in (podule_if_get_regs), and core 1 lets the Arc
\* write it.
THEOREM RegistersAgree ==
  ASSUME NEW r \in Below(2048)
  PROVE  /\ LineOf(ArcReg(r)) = PODULE_REGS + r
         /\ LineOf(ArcReg(r)) \in Line
         /\ Writable(LineOf(ArcReg(r)))
BY DEF Below, LineOf, ArcReg, PODULE_REGS, PR_BASE, Line, Writable

\* read_byte's address of a byte of the window (loader.S, page_ok) leads to where
\* podule_rom_switch_page copies it, and no write of the Arc changes it.
THEOREM WindowAgrees ==
  ASSUME NEW o \in Below(1024)
  PROVE  /\ LineOf(ArcWindow(o)) = PODULE_MEM_ROM_WINDOW + o
         /\ ~Writable(LineOf(ArcWindow(o)))
BY DEF Below, LineOf, ArcWindow, PODULE_MEM_ROM_WINDOW, Writable

\* No two uses of the registers (podule_regs.h) share a byte, and all of them are
\* among the 2048 that the podule has.
THEOREM RegistersApart ==
  ASSUME NEW x \in DOMAIN Regs, NEW y \in DOMAIN Regs, NEW r \in Nat,
         Regs[x].from <= r, r <= Regs[x].to
  PROVE  /\ r < 2048
         /\ Regs[y].from <= r /\ r <= Regs[y].to => x = y
BY DEF Regs

\* A descriptor is a word of the podule's (PR_TX_DESCR, PR_RX_DESCR): aligned, within
\* its registers, and sharing no byte with another; pipe_init clears the two in use.
THEOREM DescriptorsAreWords ==
  ASSUME NEW n \in Below(8), NEW k \in Below(4)
  PROVE  /\ TxDescr(n, 0) % 4 = 0 /\ RxDescr(n, 0) % 4 = 0
         /\ TxDescr(n, k) >= Regs.txDescr.from /\ TxDescr(n, k) <= Regs.txDescr.to
         /\ RxDescr(n, k) >= Regs.rxDescr.from /\ RxDescr(n, k) <= Regs.rxDescr.to
         /\ \A m \in Below(8), j \in Below(4) :
              /\ TxDescr(n, k) = TxDescr(m, j) => n = m /\ k = j
              /\ RxDescr(n, k) = RxDescr(m, j) => n = m /\ k = j
         /\ (n < 2) <=> TxDescr(n, k) \in InitClears(TxDescr(0, 0))
         /\ (n < 2) <=> RxDescr(n, k) \in InitClears(RxDescr(0, 0))
<1>1. n \in Nat /\ n < 8 /\ k \in Nat /\ k < 4
  BY DEF Below
<1>2. /\ TxDescr(n, 0) % 4 = 0 /\ RxDescr(n, 0) % 4 = 0
      /\ TxDescr(n, k) >= 128 /\ TxDescr(n, k) <= 159
      /\ RxDescr(n, k) >= 160 /\ RxDescr(n, k) <= 191
  BY <1>1 DEF TxDescr, RxDescr
<1>3. /\ Regs.txDescr.from = 128 /\ Regs.txDescr.to = 159
      /\ Regs.rxDescr.from = 160 /\ Regs.rxDescr.to = 191
  BY DEF Regs
<1>4. ASSUME NEW m \in Below(8), NEW j \in Below(4)
      PROVE  /\ TxDescr(n, k) = TxDescr(m, j) => n = m /\ k = j
             /\ RxDescr(n, k) = RxDescr(m, j) => n = m /\ k = j
  BY <1>1 DEF TxDescr, RxDescr, Below
<1>5. n < 2 <=> 4 * n + k < 8
  BY <1>1
<1>6. \A b \in Nat : /\ 128 + b \in InitClears(128) <=> b < 8
                     /\ 160 + b \in InitClears(160) <=> b < 8
  BY DEF InitClears, Below
<1>7. /\ TxDescr(n, k) = 128 + (4 * n + k) /\ TxDescr(0, 0) = 128
      /\ RxDescr(n, k) = 160 + (4 * n + k) /\ RxDescr(0, 0) = 160
      /\ 4 * n + k \in Nat
  BY <1>1 DEF TxDescr, RxDescr
<1>8. /\ TxDescr(n, k) \in InitClears(TxDescr(0, 0)) <=> n < 2
      /\ RxDescr(n, k) \in InitClears(RxDescr(0, 0)) <=> n < 2
  BY <1>5, <1>6, <1>7
<1> QED
  BY <1>2, <1>3, <1>4, <1>8
=============================================================================
