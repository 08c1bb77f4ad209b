------------------------- MODULE PodulePagesProofs -------------------------
(***************************************************************************)
(* Proofs about PodulePages for every size of page and ROM, every set of   *)
(* pages asked for, and any number of resets and restarts.                 *)
(***************************************************************************)
EXTENDS PodulePages, TLAPS

USE PagesAssumption

-----------------------------------------------------------------------------
(* Types *)

\* The page number is assembled high byte first: 256 times a 7-bit number, and
\* while a byte is being copied its index is one of the window's.
Assembling ==
  /\ podPc = "low" => podPage % 256 = 0 /\ podPage <= 32512
  /\ podPc = "copy" => podK \in Offsets
  /\ wanted.page \in AskedPages \/ arcPc \in {"off", "idle"}

TypeInv == TypeOK /\ Assembling

\* A reset leaves no module running; clearing the flag leaves a flag.
LEMMA NotRunning ==
  /\ Init => running \in BOOLEAN /\ stale \in BOOLEAN
  /\ ArcReset \/ ResetHost => running' \in BOOLEAN
  /\ ModuleInit => running' \in BOOLEAN /\ stale' \in BOOLEAN
  /\ ResetLook => stale' \in BOOLEAN
  /\ Serving \in BOOLEAN
<1>1. Init => running \in BOOLEAN /\ stale \in BOOLEAN
  BY Zenon DEF Init
<1>2. ArcReset \/ ResetHost => running' \in BOOLEAN
  BY Zenon DEF ArcReset, ResetHost
<1>3. ModuleInit => running' \in BOOLEAN /\ stale' \in BOOLEAN
  BY Zenon DEF ModuleInit
<1>4. ResetLook => stale' \in BOOLEAN
  BY Zenon DEF ResetLook
<1>5. Serving \in BOOLEAN
  BY SMT DEF Serving
<1> QED
  BY <1>1, <1>2, <1>3, <1>4, <1>5

LEMMA FlagCleared == \A h \in PageReg : [h EXCEPT !.load = FALSE] \in PageReg
  BY Zenon DEF PageReg

LEMMA TypeInit == Init => TypeInv
<1>1. 0 \in Byte /\ 0 \in HighByte /\ 0 \in PageNumber /\ 0 \in Offsets
  BY DEF Below, Byte, HighByte, PageNumber, Offsets
<1>2. \A k \in Offsets : Rom(0, k) \in RomByte /\ Rom(0, k) \in RomAddr
  BY <1>1 DEF Rom, RomByte, RomAddr
<1>3. [load |-> FALSE, page |-> 0] \in PageReg
  BY <1>1 DEF PageReg
<1>4. Init => /\ window \in [Offsets -> RomByte] /\ wanted \in RomAddr
              /\ answer \in [asked : RomAddr, got : RomByte, served : BOOLEAN]
  BY <1>1, <1>2 DEF Init
<1>5. Init => podK \in 0 .. PageSize /\ resets \in 0 .. MaxResets
              /\ running \in BOOLEAN /\ stale \in BOOLEAN /\ restarts \in 0 .. MaxRestarts
  BY NotRunning DEF Init
<1> QED
  BY <1>1, <1>3, <1>4, <1>5 DEF Init, TypeInv, TypeOK, Assembling, PodPcs, MainLoop,
         ArcPcs

LEMMA TypeStep == TypeInv /\ [Next]_vars => TypeInv'
<1> SUFFICES ASSUME TypeInv, [Next]_vars
             PROVE  TypeOK' /\ Assembling'
  BY DEF TypeInv
<1> USE DEF TypeInv, Assembling, PodPcs, MainLoop, ArcPcs
<1>1. CASE PoduleNext
  <2>1. CASE PageLook
    BY <2>1 DEF PageLook, TypeOK, regVars, readVars, bootVars
  <2>2. CASE PageHigh
    <3>1. pageH.page \in HighByte
      BY DEF TypeOK, PageReg
    <3>2. 256 * pageH.page \in PageNumber /\ (256 * pageH.page) % 256 = 0
          /\ 256 * pageH.page <= 32512
      BY <3>1 DEF Below, Byte, HighByte, PageNumber
    <3> QED
      BY <2>2, <3>2 DEF PageHigh, TypeOK, regVars, readVars, bootVars
  <2>3. CASE PageLow
    <3>1. podPage + pageL \in PageNumber
      BY <2>3 DEF PageLow, TypeOK, Below, Byte, HighByte, PageNumber
    <3>2. 0 \in 0 .. PageSize /\ 0 \in Offsets
      BY DEF Offsets
    <3> QED
      BY <2>3, <3>1, <3>2 DEF PageLow, TypeOK, regVars, readVars, bootVars
  <2>4. CASE PageCopy
    <3>1. podK \in Offsets /\ Rom(podPage, podK) \in RomByte
      BY <2>4 DEF PageCopy, TypeOK, Rom, RomByte
    <3>2. podK + 1 \in 0 .. PageSize /\ (podK + 1 < PageSize => podK + 1 \in Offsets)
      BY <3>1 DEF Offsets
    <3> QED
      BY <2>4, <3>1, <3>2 DEF PageCopy, TypeOK, readVars, bootVars
  <2>5. CASE PageOffEnd
    BY <2>5 DEF PageOffEnd, TypeOK, regVars, readVars, bootVars
  <2>6. CASE FlagLoad
    BY <2>6 DEF FlagLoad, TypeOK, regVars, readVars, bootVars
  <2>7. CASE FlagStore
    <3>0. podH \in PageReg
      BY DEF TypeOK
    <3>1. [podH EXCEPT !.load = FALSE] \in PageReg
      BY <3>0, FlagCleared
    <3> QED
      BY <2>7, <3>1 DEF FlagStore, TypeOK, readVars, bootVars
  <2>8. CASE ResetLook
    <3>1. stale' \in BOOLEAN
      BY <2>8, NotRunning DEF TypeOK
    <3> QED
      BY <2>8, <3>1 DEF ResetLook, TypeOK, regVars, readVars, bootVars
  <2>9. CASE IfInit
    BY <2>9 DEF IfInit, TypeOK, regVars, readVars, bootVars
  <2>10. CASE InitWindow
    <3>1. \A k \in Offsets : Rom(0, k) \in RomByte
      BY DEF Rom, RomByte, PageNumber, Below
    <3>2. window' \in [Offsets -> RomByte]
      BY <2>10, <3>1 DEF InitWindow
    <3> QED
      BY <2>10, <3>2 DEF InitWindow, TypeOK, readVars, bootVars
  <2>11. CASE InitRegs
    <3>1. 0 \in Byte /\ [load |-> FALSE, page |-> 0] \in PageReg
      BY DEF Below, Byte, HighByte, PageReg
    <3> QED
      BY <2>11, <3>1 DEF InitRegs, TypeOK, readVars
  <2>12. CASE ResetHost
    <3>1. running' \in BOOLEAN
      BY <2>12, NotRunning
    <3> QED
      BY <2>12, <3>1 DEF ResetHost, TypeOK, regVars
  <2>13. CASE ReleaseHost
    BY <2>13 DEF ReleaseHost, TypeOK, regVars, readVars, bootVars
  <2> QED
    BY <1>1, <2>1, <2>2, <2>3, <2>4, <2>5, <2>6, <2>7, <2>8, <2>9, <2>10, <2>11, <2>12,
       <2>13 DEF PoduleNext
<1>2. CASE LoaderStep
  <2>1. CASE StoreLow
    <3>1. wanted.page % 256 \in Byte
      BY DEF TypeOK, RomAddr, Below, Byte, HighByte, PageNumber
    <3> QED
      BY <2>1, <3>1 DEF StoreLow, TypeOK, podVars, bootVars
  <2>2. CASE StoreHigh
    <3>1. wanted.page \div 256 \in HighByte
      BY DEF TypeOK, RomAddr, Below, Byte, HighByte, PageNumber
    <3>2. [load |-> TRUE, page |-> wanted.page \div 256] \in PageReg
      BY <3>1 DEF PageReg
    <3> QED
      BY <2>2, <3>2 DEF StoreHigh, TypeOK, podVars, bootVars
  <2>3. CASE PollDone
    BY <2>3 DEF PollDone, TypeOK, regVars, podVars, bootVars
  <2>4. CASE GetByte
    <3>1. window[wanted.off] \in RomByte
      BY DEF TypeOK, RomAddr
    <3>2. wanted.page \in AskedPages
      BY <2>4 DEF GetByte
    <3>3. Serving \in BOOLEAN
      BY NotRunning
    <3>4. answer' \in [asked : RomAddr, got : RomByte, served : BOOLEAN]
      BY <2>4, <3>1, <3>3 DEF GetByte, TypeOK
    <3> QED
      BY <2>4, <3>2, <3>4 DEF GetByte, TypeOK, regVars, podVars, bootVars
  <2>5. CASE PollTimeout
    BY <2>5 DEF PollTimeout, TypeOK, regVars, podVars, bootVars
  <2> QED
    BY <1>2, <2>1, <2>2, <2>3, <2>4, <2>5 DEF LoaderStep
<1>3. CASE OsNext
  <2>1. ASSUME NEW page \in AskedPages, NEW off \in Offsets, ReadByte(page, off)
        PROVE  TypeOK' /\ Assembling'
    <3>1. Rom(page, off) \in RomAddr /\ Rom(page, off).page \in AskedPages
      BY DEF Rom, RomAddr
    <3>2. page \in PageNumber
      OBVIOUS
    <3> QED
      BY <2>1, <3>1, <3>2 DEF ReadByte, TypeOK, regVars, podVars, bootVars
  <2>2. CASE ArcReset
    <3>1. resets' \in 0 .. MaxResets
      BY <2>2 DEF ArcReset, TypeOK
    <3>2. running' \in BOOLEAN
      BY <2>2, NotRunning
    <3> QED
      BY <2>2, <3>1, <3>2 DEF ArcReset, TypeOK, regVars, podVars
  <2>3. CASE LoaderReset
    <3>1. (resetReg + 1) % 256 \in Byte
      BY DEF TypeOK, Below, Byte, HighByte, PageNumber
    <3> QED
      BY <2>3, <3>1 DEF LoaderReset, TypeOK, podVars, bootVars
  <2>4. CASE ModuleInit
    <3>1. running' \in BOOLEAN /\ stale' \in BOOLEAN
      BY <2>4, NotRunning
    <3> QED
      BY <2>4, <3>1 DEF ModuleInit, TypeOK, regVars, podVars, readVars
  <2> QED
    BY <1>3, <2>1, <2>2, <2>3, <2>4 DEF OsNext
<1>4. CASE PoduleStop
  <2>1. /\ 0 \in Byte /\ 0 \in PageNumber /\ 0 \in 0 .. PageSize
        /\ [load |-> FALSE, page |-> 0] \in PageReg
    BY DEF Below, Byte, HighByte, PageNumber, PageReg
  <2>2. \A k \in Offsets : Blank(k) \in RomByte
    BY DEF Blank, Rom, RomByte
  <2>3. window' \in [Offsets -> RomByte]
    BY <1>4, <2>2 DEF PoduleStop
  <2>4. restarts' \in 0 .. MaxRestarts
    BY <1>4 DEF PoduleStop, TypeOK
  <2> QED
    BY <1>4, <2>1, <2>3, <2>4 DEF PoduleStop, TypeOK, readVars
<1>5. CASE UNCHANGED vars
  BY <1>5 DEF vars, TypeOK, regVars, podVars, readVars, bootVars
<1> QED
  BY <1>1, <1>2, <1>3, <1>4, <1>5 DEF Next

\* Every variable keeps its type: in particular the two bytes of a page number
\* always make one of 15 bits.
THEOREM TypeCorrect == Spec => []TypeOK
<1>1. Init => TypeInv
  BY TypeInit
<1>2. TypeInv /\ [Next]_vars => TypeInv'
  BY TypeStep
<1>3. TypeInv => TypeOK
  BY DEF TypeInv
<1> QED
  BY <1>1, <1>2, <1>3, PTL DEF Spec

-----------------------------------------------------------------------------
(* The handshake *)

\* Nothing to ask of the podule: nothing being done by it.
QuietPodule == ~pageH.load => podPc \in {"poll", "reset"}

\* The loader leaves the registers alone, and the window unread, until the
\* podule has answered.
OneAtATime == arcPc \in {"idle", "low", "high", "byte"} => ~pageH.load

\* The page in the page registers, and the page the window holds.
Asked     == 256 * pageH.page + pageL
Holds(p)  == p < RomPages => \A k \in Offsets : window[k] = Rom(p, k)

\* The podule works on the page asked for, and has it all before it answers.
Working ==
  /\ podPc = "low" => podPage = 256 * pageH.page
  /\ podPc \in {"copy", "load", "store"} => podPage = Asked
  /\ podPc = "copy" /\ podPage < RomPages =>
       \A k \in Offsets : k < podK => window[k] = Rom(podPage, k)
  /\ podPc \in {"load", "store"} => Holds(podPage)
  /\ podPc = "store" => podH = pageH

\* The loader's idea of the current page, stage by stage.
Loading ==
  /\ arcPc \in {"low", "high", "wait", "byte"} => currentPage = wanted.page
  /\ arcPc = "high" => pageL = wanted.page % 256
  /\ arcPc = "wait" => IF pageH.load THEN Asked = wanted.page ELSE Holds(wanted.page)
  /\ arcPc \in {"idle", "byte"} /\ currentPage # NoPage => Holds(currentPage)

Handshake == QuietPodule /\ OneAtATime /\ Working /\ Loading

\* A podule that comes back enters its main loop with the Arc in reset: nothing
\* the loader believes is from before.
Held == podPc = "hold" => arcPc = "off"

HandshakeInv == (Serving => Handshake) /\ Held /\ ByteRight

\* A page number is put together from what it was split into.
LEMMA PageSplit ==
  ASSUME NEW p \in Nat
  PROVE  p = 256 * (p \div 256) + (p % 256)
  OBVIOUS

\* NoPage is no page number.
LEMMA NoPageIsNone == NoPage \notin PageNumber
  BY DEF NoPage, PageNumber, Below

LEMMA HandshakeInit == Init => HandshakeInv
  BY DEF Init, HandshakeInv, Handshake, Held, QuietPodule, OneAtATime, Working, Loading,
         ByteRight

\* While the podule is in its main loop.
LEMMA ServingStep ==
  ASSUME TypeOK, Assembling, Serving, Handshake, ByteRight,
         PoduleNext \/ LoaderStep \/ OsNext
  PROVE  Handshake' /\ ByteRight'
<1> DEFINE Goal == Handshake' /\ ByteRight'
<1> USE DEF Handshake, QuietPodule, OneAtATime, Working, Loading, ByteRight
<1>s. Serving /\ Listening /\ podPc \in MainLoop
  BY DEF Serving, Listening, MainLoop
<1>t. /\ pageL \in Nat /\ pageH.page \in Nat /\ podPage \in Nat /\ podK \in Nat
      /\ wanted \in RomAddr /\ wanted.page \in PageNumber /\ wanted.off \in Offsets
      /\ answer.asked.page \in Nat /\ pageH \in PageReg
  BY DEF TypeOK, RomAddr, PageReg, Byte, HighByte, PageNumber, Below
<1>1. CASE PageLook
  BY <1>1 DEF PageLook, regVars, readVars, bootVars, Asked, Holds
<1>2. CASE PageHigh
  BY <1>2, <1>t DEF PageHigh, regVars, readVars, bootVars, Asked, Holds
<1>3. CASE PageLow
  <2>1. podPage' = Asked'
    BY <1>3, <1>t DEF PageLow, regVars, Asked
  <2>2. podPc' = "copy" /\ podK' = 0 /\ \A k \in Offsets : ~(k < 0)
    BY <1>3 DEF PageLow, Offsets
  <2>3. UNCHANGED <<regVars, readVars, podH>> /\ podPc = "low"
    BY <1>3 DEF PageLow
  <2>4. pageH.load
    BY <1>3 DEF PageLow
  <2> QED
    BY <2>1, <2>2, <2>3, <2>4 DEF regVars, readVars, Asked, Holds
<1>4. CASE PageCopy
  <2>1. arcPc \in {"wait", "off"} /\ pageH.load
    BY <1>4 DEF PageCopy, TypeOK, ArcPcs
  <2>2. Asked' = Asked
    BY <1>4 DEF PageCopy, Asked
  <2>3. podPc' = "copy" =>
          \A k \in Offsets : k < podK' => window'[k] = Rom(podPage, k)
    BY <1>4, <1>t DEF PageCopy, TypeOK, Offsets
  <2>4. podPc' # "copy" => \A k \in Offsets : window'[k] = Rom(podPage, k)
    BY <1>4, <1>t DEF PageCopy, TypeOK, Offsets
  <2> QED
    BY <1>4, <2>1, <2>2, <2>3, <2>4 DEF PageCopy, readVars, bootVars, Holds
<1>5. CASE PageOffEnd
  BY <1>5, <1>t DEF PageOffEnd, regVars, readVars, bootVars, Asked, Holds
<1>6. CASE FlagLoad
  BY <1>6 DEF FlagLoad, regVars, readVars, bootVars, Asked, Holds
<1>7. CASE FlagStore
  <2>1. arcPc \in {"wait", "off"} /\ pageH.load
    BY <1>7 DEF FlagStore, TypeOK, ArcPcs
  <2>2. ~pageH'.load
    BY <1>7, <1>t DEF FlagStore, PageReg
  <2>3. arcPc = "wait" => Holds(wanted.page)
    BY <1>7, <2>1 DEF FlagStore
  <2> QED
    BY <1>7, <2>1, <2>2, <2>3 DEF FlagStore, readVars, bootVars, Holds
<1>8. CASE ResetLook
  BY <1>8 DEF ResetLook, regVars, readVars, bootVars, Asked, Holds
<1>9. CASE StoreLow
  BY <1>9, <1>s DEF StoreLow, podVars, bootVars, Asked, Holds
<1>10. CASE StoreHigh
  <2>1. /\ pageH' = [load |-> TRUE, page |-> wanted.page \div 256]
        /\ pageL' = wanted.page % 256
    BY <1>10, <1>s DEF StoreHigh
  <2>2. wanted.page \in Nat
    BY <1>t DEF PageNumber, Below
  <2>3. wanted.page = 256 * (wanted.page \div 256) + (wanted.page % 256)
    BY <2>2, PageSplit
  <2>4. Asked' = 256 * (wanted.page \div 256) + (wanted.page % 256)
    BY <2>1 DEF Asked
  <2> QED
    BY <1>10, <2>1, <2>3, <2>4 DEF StoreHigh, podVars, bootVars, Holds
<1>11. CASE PollDone
  BY <1>11, <1>s DEF PollDone, regVars, podVars, bootVars, Asked, Holds
<1>12. CASE GetByte
  <2>1. Holds(wanted.page)
    BY <1>12, <1>t, NoPageIsNone DEF GetByte
  <2>2. wanted.page < RomPages => window[wanted.off] = wanted
    BY <2>1, <1>t DEF Holds, Rom, RomAddr
  <2> QED
    BY <1>12, <2>1, <2>2 DEF GetByte, regVars, podVars, bootVars, Asked, Holds
<1>13. ASSUME NEW page \in AskedPages, NEW off \in Offsets, ReadByte(page, off)
       PROVE  Goal
  BY <1>13, NoPageIsNone
     DEF ReadByte, PageIsIn, Rom, regVars, podVars, bootVars, Asked, Holds
<1>14. CASE ArcReset
  BY <1>14 DEF ArcReset, regVars, podVars, Asked, Holds
<1>15. CASE LoaderReset
  BY <1>15, <1>s DEF LoaderReset, Settled, podVars, bootVars, Asked, Holds
<1>16. CASE ModuleInit
  BY <1>16 DEF ModuleInit, regVars, podVars, readVars, Asked, Holds
<1>17. CASE IfInit \/ InitWindow \/ InitRegs \/ ResetHost \/ ReleaseHost \/ PollTimeout
  BY <1>17, <1>s DEF IfInit, InitWindow, InitRegs, ResetHost, ReleaseHost, PollTimeout,
                     MainLoop
<1> QED
  BY <1>1, <1>2, <1>3, <1>4, <1>5, <1>6, <1>7, <1>8, <1>9, <1>10, <1>11, <1>12,
     <1>13, <1>14, <1>15, <1>16, <1>17
     DEF PoduleNext, LoaderStep, OsNext

\* While it starts, it is kept from entering the main loop with an Arc that runs,
\* and no byte counts.
LEMMA StartingStep ==
  ASSUME TypeOK, ~Serving, Held, ByteRight, PoduleNext \/ LoaderStep \/ OsNext
  PROVE  (Serving' => Handshake') /\ Held' /\ ByteRight'
<1> USE DEF Serving, MainLoop, Held
<1>1. CASE IfInit \/ InitWindow \/ InitRegs \/ ResetHost
  BY <1>1 DEF IfInit, InitWindow, InitRegs, ResetHost, ByteRight, readVars
<1>2. CASE ReleaseHost
  <2>1. arcPc' = "off" /\ podPc' = "poll"
    BY <1>2 DEF ReleaseHost, readVars
  <2>2. Handshake'
    BY <2>1 DEF Handshake, QuietPodule, OneAtATime, Working, Loading
  <2> QED
    BY <1>2, <2>1, <2>2 DEF ReleaseHost, ByteRight, readVars
<1>3. CASE LoaderStep
  <2>0. podPc' = podPc /\ arcPc # "off"
    BY <1>3 DEF LoaderStep, StoreLow, StoreHigh, PollDone, PollTimeout, GetByte, podVars
  <2>1. podPc' = podPc /\ podPc # "hold"
    BY <2>0
  <2>2. answer' = answer \/ ~answer'.served
    <3>1. CASE GetByte
      <4>1. answer' = [asked |-> wanted, got |-> window[wanted.off], served |-> Serving]
        BY <3>1 DEF GetByte
      <4>2. answer'.served = Serving
        BY <4>1
      <4> QED
        BY <4>2
    <3> QED
      BY <1>3, <3>1 DEF LoaderStep, StoreLow, StoreHigh, PollDone, PollTimeout
  <2> QED
    BY <2>1, <2>2 DEF ByteRight
<1>4. CASE OsNext
  <2>1. podPc' = podPc /\ answer' = answer
    BY <1>4 DEF OsNext, ReadByte, ArcReset, LoaderReset, ModuleInit, podVars, readVars
  <2>2. podPc = "hold" => arcPc' = "off"
    BY <1>4 DEF OsNext, ReadByte, ArcReset, LoaderReset, ModuleInit, Settled, readVars
  <2> QED
    BY <2>1, <2>2 DEF ByteRight
<1>5. CASE PoduleNext /\ podPc \in MainLoop
  BY <1>5
<1> QED
  BY <1>1, <1>2, <1>3, <1>4, <1>5
     DEF PoduleNext, PageLook, PageHigh, PageLow, PageCopy, PageOffEnd, FlagLoad,
         FlagStore, ResetLook

LEMMA HandshakeStep == TypeInv /\ HandshakeInv /\ [Next]_vars => HandshakeInv'
<1> SUFFICES ASSUME TypeOK, Assembling, HandshakeInv, [Next]_vars
             PROVE  HandshakeInv'
  BY DEF TypeInv
<1>1. CASE PoduleNext \/ LoaderStep \/ OsNext
  <2>1. CASE Serving
    <3>1. Handshake' /\ ByteRight'
      BY <1>1, <2>1, ServingStep DEF HandshakeInv
    <3>2. podPc' # "hold"
      BY <1>1, <2>1
         DEF Serving, MainLoop, PoduleNext, PageLook, PageHigh, PageLow, PageCopy,
             PageOffEnd, FlagLoad, FlagStore, ResetLook, IfInit, InitWindow, InitRegs,
             ResetHost, ReleaseHost, LoaderStep, StoreLow, StoreHigh, PollDone,
             PollTimeout, GetByte, OsNext, ReadByte, ArcReset, LoaderReset, ModuleInit,
             podVars
    <3> QED
      BY <3>1, <3>2 DEF HandshakeInv, Held
  <2>2. CASE ~Serving
    BY <1>1, <2>2, StartingStep DEF HandshakeInv
  <2> QED
    BY <2>1, <2>2
<1>2. CASE PoduleStop
  BY <1>2 DEF PoduleStop, HandshakeInv, Serving, MainLoop, Held, ByteRight, readVars
<1>3. CASE UNCHANGED vars
  BY <1>3 DEF vars, regVars, podVars, readVars, bootVars, HandshakeInv, Handshake, Held,
              Serving, QuietPodule, OneAtATime, Working, Loading, ByteRight, Asked, Holds
<1> QED
  BY <1>1, <1>2, <1>3 DEF Next

\* What the loader returns is the ROM's byte, whatever was read before it, and
\* though the podule may have been restarted behind its back.
THEOREM BytesAreRight == Spec => []ByteRight
<1>1. Init => TypeInv /\ HandshakeInv
  BY TypeInit, HandshakeInit
<1>2. TypeInv /\ HandshakeInv /\ [Next]_vars => TypeInv' /\ HandshakeInv'
  BY TypeStep, HandshakeStep
<1>3. HandshakeInv => ByteRight
  BY DEF HandshakeInv
<1> QED
  BY <1>1, <1>2, <1>3, PTL DEF Spec

-----------------------------------------------------------------------------
(* The reset request *)

\* While the reset request is not acted on, the podule is still in the turn of
\* podule_poll in which it served the first page (or before it), so the OS has
\* read from one page at most.
FirstPageOnly ==
  arcPc # "off" /\ resetGen # resetReg =>
    /\ pagesRead # {} => podPc = "reset"
    /\ \A p \in pagesRead : pagesRead = {p}
    /\ arcPc = "idle" => \/ currentPage = NoPage /\ pagesRead = {}
                         \/ podPc = "reset" /\ pagesRead \subseteq {currentPage}
    /\ arcPc = "byte" => podPc = "reset" /\ pagesRead \subseteq {wanted.page}
    /\ arcPc = "wait" /\ ~pageH.load => podPc = "reset" /\ pagesRead = {}

BootInv ==
  /\ arcPc = "off" => ~running
  /\ Serving => FirstPageOnly
  /\ PipeInitFirst

LEMMA BootInit == Init => BootInv
  BY DEF Init, BootInv, FirstPageOnly, PipeInitFirst

TwoPages == \E p, q \in ModulePages : p # q

\* While the podule is in its main loop.
LEMMA ServingBoot ==
  ASSUME TwoPages, TypeInv, Serving, Handshake, BootInv,
         PoduleNext \/ LoaderStep \/ OsNext
  PROVE  BootInv'
<1> USE DEF BootInv, FirstPageOnly, PipeInitFirst
<1>t. /\ wanted.page \in PageNumber /\ pageH \in PageReg /\ running \in BOOLEAN
      /\ podPc \in PodPcs /\ arcPc \in ArcPcs /\ NoPage \notin PageNumber
      /\ currentPage \in PageNumber \cup {NoPage}
  BY NoPageIsNone DEF TypeInv, TypeOK, RomAddr
<1>h. QuietPodule /\ OneAtATime /\ Loading
  BY DEF Handshake
<1>s. Serving /\ Listening /\ podPc \in MainLoop
  BY DEF Serving, Listening, MainLoop
<1>1. CASE PageLook
  BY <1>1, <1>h DEF PageLook, regVars, readVars, bootVars, OneAtATime
<1>2. CASE PageHigh
  BY <1>2, <1>h DEF PageHigh, regVars, readVars, bootVars
<1>3. CASE PageLow
  BY <1>3, <1>h DEF PageLow, regVars, readVars, bootVars
<1>4. CASE PageCopy
  BY <1>4, <1>h DEF PageCopy, readVars, bootVars
<1>5. CASE PageOffEnd
  BY <1>5, <1>h DEF PageOffEnd, regVars, readVars, bootVars
<1>6. CASE FlagLoad
  BY <1>6, <1>h DEF FlagLoad, regVars, readVars, bootVars
<1>7. CASE FlagStore
  BY <1>7, <1>h DEF FlagStore, readVars, bootVars
<1>8. CASE ResetLook
  BY <1>8 DEF ResetLook, regVars, readVars, bootVars
<1>9. CASE StoreLow
  BY <1>9 DEF StoreLow, podVars, bootVars
<1>10. CASE StoreHigh
  BY <1>10, <1>t, <1>s DEF StoreHigh, podVars, bootVars
<1>11. CASE PollDone
  BY <1>11, <1>s DEF PollDone, regVars, podVars, bootVars
<1>12. CASE GetByte
  <2>1. currentPage = wanted.page
    BY <1>12, <1>h DEF GetByte, Loading
  <2> QED
    BY <1>12, <2>1 DEF GetByte, regVars, podVars, bootVars
<1>13. ASSUME NEW page \in AskedPages, NEW off \in Offsets, ReadByte(page, off)
       PROVE  BootInv'
  <2>1. page # NoPage /\ wanted'.page = page
    BY <1>13, <1>t DEF ReadByte, Rom
  <2> QED
    BY <1>13, <2>1 DEF ReadByte, PageIsIn, regVars, podVars, bootVars
<1>14. CASE ArcReset
  BY <1>14 DEF ArcReset, regVars, podVars
<1>15. CASE LoaderReset
  BY <1>15 DEF LoaderReset, podVars, bootVars
<1>16. CASE ModuleInit
  <2>1. resetGen = resetReg
    BY <1>16 DEF ModuleInit, TwoPages
  <2> QED
    BY <1>16, <2>1 DEF ModuleInit, regVars, podVars, readVars
<1>17. CASE IfInit \/ InitWindow \/ InitRegs \/ ResetHost \/ ReleaseHost \/ PollTimeout
  BY <1>17, <1>s DEF IfInit, InitWindow, InitRegs, ResetHost, ReleaseHost, PollTimeout,
                     MainLoop
<1> QED
  BY <1>1, <1>2, <1>3, <1>4, <1>5, <1>6, <1>7, <1>8, <1>9, <1>10, <1>11, <1>12,
     <1>13, <1>14, <1>15, <1>16, <1>17
     DEF PoduleNext, LoaderStep, OsNext

\* While it starts, whatever the Arc is doing ends with its reset.
LEMMA StartingBoot ==
  ASSUME TypeInv, ~Serving, Held, BootInv, PoduleNext \/ LoaderStep \/ OsNext
  PROVE  BootInv'
<1> USE DEF BootInv, Held
<1>t. arcPc \in ArcPcs /\ running \in BOOLEAN
  BY DEF TypeInv, TypeOK
<1>1. CASE IfInit \/ InitWindow \/ InitRegs \/ ResetHost
  BY <1>1 DEF IfInit, InitWindow, InitRegs, ResetHost, Serving, MainLoop, PipeInitFirst,
              readVars, bootVars
<1>2. CASE ReleaseHost
  BY <1>2 DEF ReleaseHost, FirstPageOnly, PipeInitFirst, readVars, bootVars
<1>3. CASE LoaderStep
  BY <1>3 DEF LoaderStep, StoreLow, StoreHigh, PollDone, PollTimeout, GetByte, Serving,
              PipeInitFirst, podVars, bootVars
<1>4. CASE OsNext
  <2>1. podPc' = podPc /\ (arcPc' = "off" => ~running')
    BY <1>4, <1>t DEF OsNext, ReadByte, ArcReset, LoaderReset, ModuleInit, podVars,
                      readVars, bootVars
  <2> QED
    BY <2>1 DEF Serving, PipeInitFirst
<1> QED
  BY <1>1, <1>2, <1>3, <1>4
     DEF Serving, MainLoop, PoduleNext, PageLook, PageHigh, PageLow, PageCopy,
         PageOffEnd, FlagLoad, FlagStore, ResetLook

LEMMA BootStep ==
  ASSUME TwoPages, TypeInv, HandshakeInv, BootInv, [Next]_vars
  PROVE  BootInv'
<1>1. CASE Serving /\ (PoduleNext \/ LoaderStep \/ OsNext)
  BY <1>1, TwoPages, ServingBoot DEF HandshakeInv
<1>2. CASE ~Serving /\ (PoduleNext \/ LoaderStep \/ OsNext)
  BY <1>2, StartingBoot DEF HandshakeInv
<1>3. CASE PoduleStop
  BY <1>3 DEF PoduleStop, BootInv, Serving, MainLoop, PipeInitFirst, readVars
<1>4. CASE UNCHANGED vars
  BY <1>4 DEF vars, regVars, podVars, readVars, bootVars, BootInv, FirstPageOnly,
              PipeInitFirst, Serving
<1> QED
  BY <1>1, <1>2, <1>3, <1>4 DEF Next

\* With a module of more than one page (as it is: code and messages do not fit
\* into 1 KB) the podule has always reset the pipe before the module starts, and
\* never resets it under a module that is to go on running.  With a one-page module
\* the module can be first.
THEOREM PipeInitIsFirst ==
  ASSUME TwoPages
  PROVE  Spec => []PipeInitFirst
<1>1. Init => TypeInv /\ HandshakeInv /\ BootInv
  BY TypeInit, HandshakeInit, BootInit
<1>2. TypeInv /\ HandshakeInv /\ BootInv /\ [Next]_vars
        => TypeInv' /\ HandshakeInv' /\ BootInv'
  BY TwoPages, TypeStep, HandshakeStep, BootStep
<1>3. BootInv => PipeInitFirst
  BY DEF BootInv
<1> QED
  BY <1>1, <1>2, <1>3, PTL DEF Spec
=============================================================================
