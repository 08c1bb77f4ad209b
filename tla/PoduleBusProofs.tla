--------------------------- MODULE PoduleBusProofs ---------------------------
(***************************************************************************)
(* Proofs about PoduleBus for every width of the data lines, every size of *)
(* the memory and of its read-only part.  The other modules' shared        *)
(* accesses are the steps of SharedMemory; this is why they may be.        *)
(***************************************************************************)
EXTENDS PoduleBus, TLAPS

USE BusAssumption

-----------------------------------------------------------------------------
(* The inductive invariant *)

\* Where the Arc is in a cycle is what the lines say.
CycleLines ==
  /\ arcPc = "idle"   => ~sel /\ strobe = "none"
  /\ arcPc = "select" => sel /\ strobe = "none" /\ pc = "strobe"
  /\ arcPc = "strobe" => sel /\ strobe # "none"
  /\ arcPc = "strobe" /\ strobe = "rd" =>
       pc \in {"strobe", "load", "set", "enable", "hold"}
  /\ arcPc = "strobe" /\ strobe = "wr" => pc \in {"strobe", "store", "written"}
  /\ arcPc = "end" /\ sel => pc \in {"hold", "store", "written"}

\* Core 1 works for the cycle it has seen, until select goes.
Answering ==
  /\ pc \in {"load", "set", "enable"} =>
       arcPc = "strobe" /\ strobe = "rd" /\ regAddr = addr
  /\ pc \in {"hold", "release", "clear"} => strobe # "wr"
  /\ pc \in {"release", "clear"} => ~sel

\* The lines are driven, with the byte loaded and no other, from PifEnable to
\* PifRelease.
Driving ==
  /\ oe <=> pc \in {"hold", "release"}
  /\ pc \in {"strobe", "load", "set", "store", "written"} => out = {}
  /\ pc \in {"enable", "hold"} => out = regData

BusInv == TypeOK /\ CycleLines /\ Answering /\ Driving

LEMMA BusInit == Init => BusInv
<1> SUFFICES ASSUME Init PROVE BusInv
  OBVIOUS
<1>1. 0 \in Addrs /\ {} \in Byte /\ mem \in [Addrs -> Byte]
  BY DEF Init, Addrs, Byte
<1>2. sel \in BOOLEAN /\ oe \in BOOLEAN
  BY ZenonT(20) DEF Init
<1>3. TypeOK
  BY <1>1, <1>2 DEF Init, TypeOK
<1> QED
  BY <1>3 DEF Init, BusInv, CycleLines, Answering, Driving

LEMMA BusStep == BusInv /\ [Next]_vars => BusInv'
<1> SUFFICES ASSUME BusInv, [Next]_vars PROVE BusInv'
  OBVIOUS
<1> USE DEF BusInv, TypeOK, CycleLines, Answering, Driving
<1>1. ASSUME NEW a \in Addrs, Select(a) PROVE BusInv'
  BY <1>1 DEF Select, Ready, coreVars
<1>2. CASE StrobeRead
  BY <1>2 DEF StrobeRead, coreVars
<1>3. ASSUME NEW d \in Byte, StrobeWrite(d) PROVE BusInv'
  BY <1>3 DEF StrobeWrite, coreVars
<1>4. CASE CycleOver
  <2>1. got' \in Byte
    BY <1>4 DEF CycleOver, DataLines
  <2> QED
    BY <1>4, <2>1 DEF CycleOver, InTime, coreVars
<1>5. CASE Unstrobe
  BY <1>5 DEF Unstrobe, coreVars, Byte
<1>6. CASE Deselect
  BY <1>6 DEF Deselect, coreVars
<1>7. ASSUME NEW a \in Addrs, NEW d \in Byte, Core0Write(a, d) PROVE BusInv'
  BY <1>7 DEF Core0Write, busVars, coreVars
<1>8. CASE PifStrobe
  <2>1. regData' \in Byte
    BY <1>8 DEF PifStrobe, DataLines
  <2> QED
    BY <1>8, <2>1 DEF PifStrobe, Selected, busVars
<1>9. CASE PifLoad
  BY <1>9 DEF PifLoad, busVars
<1>10. CASE PifSet
  BY <1>10 DEF PifSet, busVars, Byte
<1>11. CASE PifEnable \/ PifReadDone \/ PifRelease
  <2>1. CASE PifEnable
    BY <2>1 DEF PifEnable, busVars
  <2>2. CASE PifReadDone
    BY <2>2 DEF PifReadDone, busVars
  <2>3. CASE PifRelease
    BY <2>3 DEF PifRelease, busVars
  <2> QED
    BY <1>11, <2>1, <2>2, <2>3
<1>12. CASE PifClear
  BY <1>12 DEF PifClear, busVars, Byte, Addrs
<1>13. CASE PifStore
  BY <1>13 DEF PifStore, busVars
<1>14. CASE PifWriteDone
  BY <1>14 DEF PifWriteDone, busVars, Byte, Addrs
<1>15. CASE UNCHANGED vars
  BY <1>15 DEF vars, busVars, coreVars
<1> QED
  BY <1>1, <1>2, <1>3, <1>4, <1>5, <1>6, <1>7, <1>8, <1>9, <1>10, <1>11, <1>12,
     <1>13, <1>14, <1>15 DEF Next, CycleNext, PifNext

LEMMA BusInvariant == Spec => []BusInv
  BY BusInit, BusStep, PTL DEF Spec

\* Every variable keeps its type, and between two cycles no line is left driven
\* or set high.
THEOREM TypeCorrect == Spec => []TypeOK
<1>1. BusInv => TypeOK
  BY DEF BusInv
<1> QED
  BY <1>1, BusInvariant, PTL

\* Podule and Arc never drive the data lines at the same time.
THEOREM NeverContends == Spec => []NoContention
<1>1. BusInv => NoContention
  BY DEF BusInv, Answering, Driving, NoContention
<1> QED
  BY <1>1, BusInvariant, PTL

-----------------------------------------------------------------------------
(* The refinement of SharedMemory *)

\* The byte of a read is on the lines when the Arc takes it.
LEMMA LinesHaveTheByte ==
  BusInv /\ arcPc = "strobe" /\ strobe = "rd" /\ pc = "hold" => DataLines = {regData}
  BY DEF BusInv, Answering, Driving, DataLines

LEMMA MemoryInit == Init => Memory!Init
  BY DEF Init, Memory!Init, Op, Memory!NoOp, Addrs, Memory!Addrs

LEMMA MemoryStep ==
  BusInv /\ [Next]_vars => [Memory!Next]_<<mem, Op, got>>
<1> SUFFICES ASSUME BusInv, [Next]_vars
             PROVE  Memory!Next \/ UNCHANGED <<mem, Op, got>>
  OBVIOUS
<1> USE DEF BusInv, TypeOK, CycleLines, Answering, Driving
<1>0. Byte = Memory!Byte /\ Addrs = Memory!Addrs
  BY DEF Byte, Addrs, Memory!Byte, Memory!Addrs
<1>1. ASSUME NEW a \in Addrs, Select(a) PROVE UNCHANGED <<mem, Op, got>>
  BY <1>1 DEF Select, Ready, coreVars, Op
<1>2. CASE StrobeRead
  <2>1. Memory!Ask("read", addr, {})
    BY <1>2 DEF StrobeRead, coreVars, Op, Memory!Ask
  <2> QED
    BY <1>0, <2>1 DEF Memory!Next
<1>3. ASSUME NEW d \in Byte, StrobeWrite(d) PROVE Memory!Next
  <2>1. Memory!Ask("write", addr, d)
    BY <1>3 DEF StrobeWrite, coreVars, Op, Memory!Ask
  <2> QED
    BY <1>0, <2>1 DEF Memory!Next
<1>4. CASE CycleOver
  <2>1. CASE strobe = "rd"
    <3>1. got' = regData
      BY <1>4, <2>1, LinesHaveTheByte DEF CycleOver, InTime
    <3>2. Memory!Return
      BY <1>4, <2>1, <3>1 DEF CycleOver, InTime, coreVars, Op, Memory!Return, Memory!NoOp
    <3> QED
      BY <3>2 DEF Memory!Next
  <2>2. CASE strobe # "rd"
    BY <1>4, <2>2 DEF CycleOver, InTime, coreVars, Op
  <2> QED
    BY <2>1, <2>2
<1>5. CASE Unstrobe \/ Deselect
  BY <1>5 DEF Unstrobe, Deselect, coreVars, Op
<1>6. ASSUME NEW a \in Addrs, NEW d \in Byte, Core0Write(a, d) PROVE Memory!Next
  <2>1. Memory!Core0Write(a, d)
    BY <1>6 DEF Core0Write, busVars, coreVars, Op, Memory!Core0Write
  <2> QED
    BY <1>0, <2>1 DEF Memory!Next
<1>7. CASE PifStrobe
  <2>1. CASE strobe = "rd"
    BY <1>7, <2>1 DEF PifStrobe, Selected, busVars, Op
  <2>2. CASE strobe # "rd"
    <3>1. strobe = "wr" /\ regData' = wdata /\ arcPc = "strobe"
      BY <1>7, <2>2 DEF PifStrobe, Selected, DataLines
    <3> QED
      BY <1>7, <2>2, <3>1 DEF PifStrobe, busVars, Op
  <2> QED
    BY <2>1, <2>2
<1>8. CASE PifLoad
  <2>1. Memory!Read
    BY <1>8 DEF PifLoad, busVars, Op, Memory!Read
  <2> QED
    BY <2>1 DEF Memory!Next
<1>9. CASE PifSet \/ PifEnable
  BY <1>9 DEF PifSet, PifEnable, busVars, Op
<1>10. CASE PifReadDone \/ PifRelease \/ PifClear \/ PifWriteDone
  BY <1>10 DEF PifReadDone, PifRelease, PifClear, PifWriteDone, busVars, Op
<1>11. CASE PifStore
  <2>1. Memory!Write
    BY <1>11 DEF PifStore, Writable, busVars, Op, Memory!Write, Memory!NoOp
  <2> QED
    BY <2>1 DEF Memory!Next
<1>12. CASE UNCHANGED vars
  BY <1>12 DEF vars, busVars, coreVars, Op
<1> QED
  BY <1>1, <1>2, <1>3, <1>4, <1>5, <1>6, <1>7, <1>8, <1>9, <1>10, <1>11, <1>12
     DEF Next, CycleNext, PifNext

\* The Arc has a memory whose accesses are single steps: what the models of the
\* pipe and of the ROM window start from.
THEOREM MemoryIsShared == Spec => ImplementsMemory
  BY MemoryInit, MemoryStep, BusInvariant, PTL
     DEF Spec, ImplementsMemory, Memory!Spec
=============================================================================
