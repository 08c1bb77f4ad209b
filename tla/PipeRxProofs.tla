---------------------------- MODULE PipeRxProofs ----------------------------
(***************************************************************************)
(* Proofs about PipeRx for every number of descriptors, every buffer and   *)
(* header size, every set of packet lengths and every number of packets.   *)
(* Spec is the specification with everything in it: Arc timeouts, lost     *)
(* connections, resets.                                                    *)
(***************************************************************************)
EXTENDS PipeRx, SequenceTheorems, TLAPS

USE RegsAssumption, RxAssumption

-----------------------------------------------------------------------------
(* Operators *)

\* A queue index stays in the queue.
LEMMA NextSlotType == \A i \in Slots : NextSlot(i) \in Slots
  BY DEF NextSlot, Slots

\* A framed packet is a sequence of bytes.
LEMMA BytesType ==
  \A id, len \in Nat : Bytes(id, len) \in Seq(Byte)
                       /\ Len(Bytes(id, len)) = HdrSize + len
  BY DEF Bytes, Byte

\* The payload of bytes is bytes, if there are as many as it takes.
LEMMA PayloadType ==
  \A frame \in Seq(Byte), total \in Nat :
    HdrSize <= total /\ total <= Len(frame)
      => /\ Payload(frame, total) \in Seq(Byte)
         /\ Len(Payload(frame, total)) = total - HdrSize
         /\ \A k \in 1 .. total - HdrSize :
              Payload(frame, total)[k] = frame[HdrSize + k]
  BY DEF Payload

\* Bytes cut in two are bytes.
LEMMA SplitType ==
  \A s \in Seq(Byte) : \A n \in 0 .. Len(s) :
    /\ SubSeq(s, 1, n) \in Seq(Byte) /\ Len(SubSeq(s, 1, n)) = n
    /\ SubSeq(s, n + 1, Len(s)) \in Seq(Byte)
  OBVIOUS

\* What the server sends is a packet.
LEMMA ContentType ==
  \A id, len \in Nat : Content(id, len) \in [cid : Nat, data : Seq(Byte)]
<1> SUFFICES ASSUME NEW id \in Nat, NEW len \in Nat
             PROVE  Content(id, len) \in [cid : Nat, data : Seq(Byte)]
  OBVIOUS
<1>1. /\ HdrSize + len \in Nat /\ HdrSize <= HdrSize + len
      /\ Bytes(id, len) \in Seq(Byte) /\ Len(Bytes(id, len)) = HdrSize + len
  BY BytesType
<1>2. Payload(Bytes(id, len), HdrSize + len) \in Seq(Byte)
  BY <1>1, PayloadType
<1> QED
  BY <1>2 DEF Content

\* A descriptor has fields of its size, whatever the length.
LEMMA DescrType ==
  \A cid, len \in Nat : MkDescr(cid, len) \in Descr
  BY DEF MkDescr, Descr, Cid, AllOnes

\* The SIZE field loses nothing of the length of a packet that fits the buffer.
LEMMA SizeExact == \A len \in 1 .. BufSize : ((len - 1) % BufSize) + 1 = len
  OBVIOUS

\* A length is decoded from any bytes at all.
LEMMA HeaderLenType ==
  \A buf \in Seq(Byte) : Len(buf) >= HdrSize => HeaderLen(buf) \in Nat
<1> SUFFICES ASSUME NEW buf \in Seq(Byte), Len(buf) >= HdrSize
             PROVE  HeaderLen(buf) \in Nat
  OBVIOUS
<1>1. buf[1] \in Byte
  OBVIOUS
<1>2. buf[1].len \in Nat
  BY <1>1 DEF Byte
<1> QED
  BY <1>2 DEF HeaderLen

-----------------------------------------------------------------------------
(* Type correctness *)

\* While a packet is being delivered all of it is in rx_buf, and while it is
\* copied it fits the RX buffer.  rx_buf is never overrun.
Staged ==
  /\ Len(rxBuf) <= RxCap
  /\ podPc \in {"packet", "copy", "post"} =>
       HdrSize <= rxTotal /\ rxTotal <= Len(rxBuf)
  /\ podPc \in {"copy", "post"} => rxTotal - HdrSize <= BufSize

TypeInv == TypeOK /\ Staged

LEMMA TypeInit == Init => TypeInv
<1> SUFFICES ASSUME Init PROVE TypeInv
  OBVIOUS
<1>1. NoDescr \in Descr /\ Blank \in Byte /\ 0 \in Slots
  BY DEF NoDescr, Descr, Cid, Blank, Byte, Slots
<1> QED
  BY <1>1 DEF Init, TypeInv, TypeOK, Staged, PodPcs, ArcPcs, RxCap

LEMMA TypeStep == TypeInv /\ [Next]_vars => TypeInv'
<1> SUFFICES ASSUME TypeInv, [Next]_vars PROVE TypeInv'
  OBVIOUS
<1> USE DEF TypeInv, RxCap
<1>1. ASSUME NEW len \in Lens, HostSend(len) PROVE TypeInv'
  <2>1. Len(sent) + 1 \in Nat /\ len \in Nat
    BY DEF TypeOK
  <2>2. hostQ' \in Seq(Byte)
    BY <1>1, <2>1, BytesType DEF HostSend, TypeOK
  <2>3. sent' \in Seq([cid : Nat, data : Seq(Byte)])
    BY <1>1, <2>1, ContentType DEF HostSend, TypeOK
  <2> QED
    BY <1>1, <2>2, <2>3 DEF HostSend, TypeOK, Staged, podVars, regVars, arcVars
<1>2. CASE UsbConnect
  BY <1>2 DEF UsbConnect, TypeOK, Staged, podVars, regVars, arcVars
<1>3. CASE UsbDeliver
  BY <1>3, SMTT(30) DEF UsbDeliver, TypeOK, Staged, podVars, regVars, arcVars
<1>4. CASE UsbDisconnect
  <2>1. hostQ' \in Seq(Byte) /\ fifo' \in Seq(Byte)
    BY <1>4, EmptySeq DEF UsbDisconnect, TypeOK
  <2> QED
    BY <1>4, <2>1 DEF UsbDisconnect, TypeOK, Staged, podVars, regVars, arcVars
<1>5. CASE RxRead
  <2> DEFINE n   == IF RxRoom < Len(fifo) THEN RxRoom ELSE Len(fifo)
             buf == rxBuf \o SubSeq(fifo, 1, n)
  <2>1. RxRoom \in Nat /\ n \in 0 .. Len(fifo) /\ n <= RxRoom
    <3>1. RxRoom \in Nat /\ Len(fifo) \in Nat
      BY DEF RxRoom, TypeOK, Staged
    <3> QED
      BY <3>1
  <2> HIDE DEF n
  <2>2. SubSeq(fifo, 1, n) \in Seq(Byte) /\ Len(SubSeq(fifo, 1, n)) = n
    BY <2>1, SplitType DEF TypeOK
  <2>3. buf \in Seq(Byte) /\ Len(buf) = Len(rxBuf) + n
    BY <2>2 DEF TypeOK
  <2>4. SubSeq(fifo, n + 1, Len(fifo)) \in Seq(Byte)
    BY <2>1, SplitType DEF TypeOK
  <2>5. /\ fifo' \in Seq(Byte) /\ rxBuf' = buf
        /\ rxTotal' = IF Len(buf) >= HdrSize
                        THEN HdrSize + HeaderLen(buf) ELSE rxTotal
        /\ podPc' = IF Len(buf) >= HdrSize /\ Len(buf) >= rxTotal'
                      THEN "packet" ELSE "poll"
        /\ UNCHANGED <<hostQ, connected, sent, rxLast, rxPending, rxHead, posted,
                       regVars, resetReq, arcVars>>
    BY <1>5, <2>4 DEF RxRead, n
  <2>8. Len(buf) <= RxCap
    BY <2>1, <2>3 DEF RxRoom, RxCap, TypeOK, Staged
  <2> HIDE DEF buf
  <2>6. rxTotal' \in Nat
    BY <2>3, <2>5, HeaderLenType DEF TypeOK
  <2>7. Staged'
    BY <2>3, <2>5, <2>6, <2>8, HeaderLenType DEF Staged, RxCap
  <2> QED
    BY <2>3, <2>5, <2>6, <2>7 DEF TypeOK, PodPcs, regVars, arcVars
<1>6. CASE RxStall
  BY <1>6 DEF RxStall, TypeOK, Staged, PodPcs, hostVars, regVars, arcVars
<1>7. CASE RxAccept
  BY <1>7 DEF RxAccept, TypeOK, Staged, PodPcs, hostVars, regVars, arcVars
<1>8. CASE RxCopy
  BY <1>8, PayloadType, SMTT(30) DEF RxCopy, TypeOK, Staged, PodPcs, hostVars, arcVars
<1>9. CASE RxPost
  <2> DEFINE data == Payload(rxBuf, rxTotal)
  <2>1. rxBuf[1].id \in Nat /\ rxTotal - HdrSize \in Nat /\ data \in Seq(Byte)
    <3>1. rxBuf[1] \in Byte /\ rxTotal - HdrSize \in Nat
      BY <1>9 DEF RxPost, TypeOK, Staged
    <3> QED
      BY <1>9, <3>1, PayloadType DEF RxPost, TypeOK, Staged, Byte
  <2>2. rxDescr' \in [Slots -> Descr]
    BY <1>9, <2>1, DescrType DEF RxPost, TypeOK
  <2>3. posted' \in Seq([cid : Nat, data : Seq(Byte)])
    BY <1>9, <2>1 DEF RxPost, TypeOK
  <2> QED
    BY <1>9, <2>2, <2>3, NextSlotType
       DEF RxPost, TypeOK, Staged, PodPcs, hostVars, arcVars
<1>10. CASE RxTrim
  <2>1. rxBuf' \in Seq(Byte) /\ Len(rxBuf') <= RxCap
    <3>1. <<>> \in Seq(Byte) /\ Len(<<>>) = 0
      BY EmptySeq
    <3>2. rxBuf' = rxBuf \/ rxBuf' = <<>>
      BY <1>10 DEF RxTrim
    <3>3. CASE rxBuf' = rxBuf
      BY <3>3 DEF TypeOK, Staged
    <3>4. CASE rxBuf' = <<>>
      BY <3>1, <3>4
    <3> QED
      BY <3>2, <3>3, <3>4
  <2> QED
    BY <1>10, <2>1 DEF RxTrim, TypeOK, Staged, PodPcs, hostVars, regVars, arcVars
<1>11. CASE PipeInit
  <2>1. rxDescr' \in [Slots -> Descr] /\ 0 \in Slots
    BY <1>11 DEF PipeInit, NoDescr, Descr, Cid, Slots
  <2>2. /\ rxBuf' \in Seq(Byte) /\ Len(rxBuf') <= RxCap
        /\ posted' \in Seq([cid : Nat, data : Seq(Byte)])
        /\ received' \in Seq([cid : Cid, data : Seq(Byte)])
    BY <1>11, EmptySeq DEF PipeInit
  <2> QED
    BY <1>11, <2>1, <2>2 DEF PipeInit, TypeOK, Staged, hostVars
<1>12. CASE ArcRxCall
  BY <1>12 DEF ArcRxCall, TypeOK, Staged, ArcPcs, hostVars, podVars, regVars
<1>13. CASE ArcRxReady
  BY <1>13 DEF ArcRxReady, TypeOK, Staged, ArcPcs, hostVars, podVars, regVars
<1>14. CASE ArcRxTimeout
  BY <1>14 DEF ArcRxTimeout, TypeOK, Staged, ArcPcs, hostVars, podVars, regVars
<1>15. CASE ArcRxCopy
  BY <1>15 DEF ArcRxCopy, TypeOK, Staged, hostVars, podVars, regVars, Descr
<1>16. CASE ArcRxConsume
  <2>1. rxDescr' \in [Slots -> Descr]
    BY <1>16 DEF ArcRxConsume, TypeOK, Descr, Cid
  <2>2. received' \in Seq([cid : Cid, data : Seq(Byte)])
    BY <1>16 DEF ArcRxConsume, TypeOK, Descr
  <2> QED
    BY <1>16, <2>1, <2>2, NextSlotType
       DEF ArcRxConsume, TypeOK, Staged, ArcPcs, hostVars, podVars
<1>17. CASE ArcReset
  BY <1>17 DEF ArcReset, TypeOK, Staged, ArcPcs, hostVars, podVars, regVars
<1>18. CASE ModuleInit
  BY <1>18 DEF ModuleInit, TypeOK, Staged, ArcPcs, hostVars, podVars, regVars, Slots
<1>19. CASE UNCHANGED vars
  BY <1>19 DEF vars, TypeOK, Staged, hostVars, podVars, regVars, arcVars
<1> QED
  BY <1>1, <1>2, <1>3, <1>4, <1>5, <1>6, <1>7, <1>8, <1>9, <1>10, <1>11, <1>12,
     <1>13, <1>14, <1>15, <1>16, <1>17, <1>18, <1>19
     DEF Next, LinkNext, PoduleNext, ArcProgress, ResetNext

\* Every variable keeps its type in every behaviour.
THEOREM TypeCorrect == Spec => []TypeOK
<1>1. Init => TypeInv
  BY TypeInit
<1>2. TypeInv /\ [Next]_vars => TypeInv'
  BY TypeStep
<1>3. TypeInv => TypeOK
  BY DEF TypeInv
<1> QED
  BY <1>1, <1>2, <1>3, PTL DEF Spec

-----------------------------------------------------------------------------
(* The hand-over of the buffer and of the slots *)

Ready(i) == rxDescr[i].ready
AnyReady == \E i \in Slots : Ready(i)

\* The READY slot, if any, is the one the podule created last, and its head is
\* one ahead of it.
LastPosted == \A i \in Slots : Ready(i) => i = rxLast /\ rxHead = NextSlot(i)

\* Having looked at the last descriptor, the podule is sure of all of them
\* until it posts: nobody else makes a descriptor READY.
NoneWhilePosting == podPc \in {"copy", "post"} => ~AnyReady

\* The descriptor the Arc is working on stays as the Arc read it.
ArcHolds == arcPc = "read" => Ready(rxTail) /\ arcDescr = rxDescr[rxTail]

\* A reset is pending only while no module is there to use the queue.
ResetWhileOff == resetReq => arcPc = "off"

\* Slot t is where the queue continues: READY, or the podule's next.
Meets(t) == IF AnyReady THEN \A i \in Slots : Ready(i) => i = t ELSE rxHead = t

\* The module that starts after the podule's reset will look at slot 0.
FreshStart == arcPc = "off" /\ ~resetReq => Meets(0)

HandoverInv ==
  /\ LastPosted
  /\ NoneWhilePosting
  /\ ArcHolds
  /\ ResetWhileOff
  /\ SlotAgreement
  /\ FreshStart

LEMMA HandoverInit == Init => HandoverInv
<1> SUFFICES ASSUME Init PROVE HandoverInv
  OBVIOUS
<1>1. \A i \in Slots : ~Ready(i)
  BY DEF Init, Ready, NoDescr
<1> QED
  BY <1>1 DEF Init, HandoverInv, LastPosted, NoneWhilePosting, ArcHolds,
              ResetWhileOff, SlotAgreement, FreshStart, Meets, AnyReady, Ready

LEMMA HandoverStep == TypeInv /\ HandoverInv /\ [Next]_vars => HandoverInv'
<1> SUFFICES ASSUME TypeInv, HandoverInv, [Next]_vars PROVE HandoverInv'
  OBVIOUS
<1> USE DEF Ready, AnyReady
<1>0. /\ rxDescr \in [Slots -> Descr] /\ rxHead \in Slots /\ rxTail \in Slots
      /\ rxLast \in Slots /\ \A i \in Slots : rxDescr[i] \in Descr
  BY DEF TypeInv, TypeOK
\* Neither the registers nor an index nor anybody's place in the code changes.
<1>1. ASSUME UNCHANGED <<rxDescr, rxLast, rxHead, rxTail, arcPc, arcDescr, resetReq>>,
             podPc' \in {"copy", "post"} => podPc \in {"copy", "post"}
      PROVE  HandoverInv'
  BY <1>1 DEF HandoverInv, LastPosted, NoneWhilePosting, ArcHolds, ResetWhileOff,
              SlotAgreement, FreshStart, Meets
<1>2. ASSUME NEW len \in Lens, HostSend(len) PROVE HandoverInv'
  BY <1>1, <1>2 DEF HostSend, podVars, regVars, arcVars
<1>3. CASE UsbConnect \/ UsbDeliver \/ UsbDisconnect
  BY <1>1, <1>3 DEF UsbConnect, UsbDeliver, UsbDisconnect, podVars, regVars, arcVars
<1>4. CASE RxRead
  BY <1>1, <1>4 DEF RxRead, regVars, arcVars
<1>5. CASE RxStall \/ RxTrim
  BY <1>1, <1>5 DEF RxStall, RxTrim, hostVars, regVars, arcVars
<1>6. CASE RxAccept
  <2>1. ~AnyReady
    BY <1>6 DEF RxAccept, RxNoRoom, HandoverInv, LastPosted
  <2> QED
    BY <1>6, <2>1 DEF RxAccept, HandoverInv, LastPosted, NoneWhilePosting, ArcHolds,
                      ResetWhileOff, SlotAgreement, FreshStart, Meets, regVars, arcVars
<1>7. CASE RxCopy
  BY <1>1, <1>7 DEF RxCopy, hostVars, arcVars
<1>8. CASE RxPost
  <2>1. ~AnyReady
    BY <1>8 DEF RxPost, HandoverInv, NoneWhilePosting
  <2>2. \A i \in Slots : rxDescr'[i].ready <=> i = rxHead
    BY <1>0, <1>8, <2>1 DEF RxPost, MkDescr
  <2>3. /\ rxLast' = rxHead /\ rxHead' = NextSlot(rxHead) /\ podPc' = "trim"
        /\ UNCHANGED <<arcPc, rxTail, arcDescr, resetReq>>
    BY <1>8 DEF RxPost, arcVars
  <2> QED
    BY <1>0, <2>1, <2>2, <2>3 DEF HandoverInv, LastPosted, NoneWhilePosting, ArcHolds,
                      ResetWhileOff, SlotAgreement, FreshStart, Meets
<1>9. CASE PipeInit
  <2>1. \A i \in Slots : ~rxDescr'[i].ready
    BY <1>9 DEF PipeInit, NoDescr
  <2> QED
    BY <1>9, <2>1 DEF PipeInit, HandoverInv, LastPosted, NoneWhilePosting, ArcHolds,
                      ResetWhileOff, SlotAgreement, FreshStart, Meets
<1>10. CASE ArcRxCall \/ ArcRxTimeout
  BY <1>10 DEF ArcRxCall, ArcRxTimeout, HandoverInv, LastPosted, NoneWhilePosting,
               ArcHolds, ResetWhileOff, SlotAgreement, FreshStart, Meets, podVars, regVars
<1>11. CASE ArcRxReady
  BY <1>11 DEF ArcRxReady, HandoverInv, LastPosted, NoneWhilePosting, ArcHolds,
               ResetWhileOff, SlotAgreement, FreshStart, Meets, podVars, regVars
<1>12. CASE ArcRxCopy
  BY <1>1, <1>12 DEF ArcRxCopy, podVars, regVars
<1>13. CASE ArcRxConsume
  <2>1. Ready(rxTail) /\ \A i \in Slots : Ready(i) => i = rxTail
    BY <1>13, <1>0 DEF ArcRxConsume, HandoverInv, ArcHolds, SlotAgreement
  <2>2. \A i \in Slots : ~rxDescr'[i].ready
    BY <1>0, <1>13, <2>1 DEF ArcRxConsume, Descr
  <2>3. rxHead = NextSlot(rxTail)
    BY <1>0, <2>1 DEF HandoverInv, LastPosted
  <2> QED
    BY <1>13, <2>2, <2>3 DEF ArcRxConsume, HandoverInv, LastPosted, NoneWhilePosting,
               ArcHolds, ResetWhileOff, SlotAgreement, FreshStart, Meets, podVars
<1>14. CASE ArcReset
  BY <1>14 DEF ArcReset, HandoverInv, LastPosted, NoneWhilePosting, ArcHolds,
               ResetWhileOff, SlotAgreement, FreshStart, Meets, podVars, regVars
<1>15. CASE ModuleInit
  BY <1>15 DEF ModuleInit, HandoverInv, LastPosted, NoneWhilePosting, ArcHolds,
               ResetWhileOff, SlotAgreement, FreshStart, Meets, podVars, regVars
<1>16. CASE UNCHANGED vars
  BY <1>1, <1>16 DEF vars, podVars, regVars, arcVars
<1> QED
  BY <1>2, <1>3, <1>4, <1>5, <1>6, <1>7, <1>8, <1>9, <1>10, <1>11, <1>12, <1>13,
     <1>14, <1>15, <1>16 DEF Next, LinkNext, PoduleNext, ArcProgress, ResetNext

\* The two sides' queue indices never disagree, whatever times out, breaks or
\* resets.
THEOREM SlotsAgree == Spec => []SlotAgreement
<1>1. Init => TypeInv /\ HandoverInv
  BY TypeInit, HandoverInit
<1>2. TypeInv /\ HandoverInv /\ [Next]_vars => (TypeInv /\ HandoverInv)'
  BY TypeStep, HandoverStep
<1>3. HandoverInv => SlotAgreement
  BY DEF HandoverInv
<1> QED
  BY <1>1, <1>2, <1>3, PTL DEF Spec

\* What may not happen in a step while a descriptor is READY.
LEMMA StableStep ==
  ASSUME TypeInv, HandoverInv, [Next]_vars, AnyReady
  PROVE  rxMem' = rxMem
         /\ \A i \in Slots : rxDescr'[i].ready => rxDescr[i].ready
<1> USE DEF Ready, AnyReady
<1>0. podPc \notin {"copy", "post"}
  BY DEF HandoverInv, NoneWhilePosting
<1>1. \A i \in Slots : rxDescr[i] \in Descr
  BY DEF TypeInv, TypeOK
<1>2. CASE PipeInit
  BY <1>2 DEF PipeInit, NoDescr
<1>3. CASE ArcRxConsume
  BY <1>1, <1>3 DEF ArcRxConsume, TypeInv, TypeOK, Descr
<1>4. CASE RxCopy \/ RxPost
  BY <1>0, <1>4 DEF RxCopy, RxPost
<1>5. CASE UNCHANGED <<rxDescr, rxMem>>
  BY <1>5
<1> QED
  BY <1>2, <1>3, <1>4, <1>5
     DEF Next, LinkNext, PoduleNext, ArcProgress, ResetNext, vars, regVars, HostSend,
         UsbConnect, UsbDeliver, UsbDisconnect, RxRead, RxStall, RxAccept, RxTrim,
         ArcRxCall, ArcRxReady, ArcRxTimeout, ArcRxCopy, ArcReset, ModuleInit

\* The buffer behind a READY descriptor is left alone, and only one descriptor
\* is READY at a time.
THEOREM BufferIsStable == Spec => BufferStable
<1>1. Init => TypeInv /\ HandoverInv
  BY TypeInit, HandoverInit
<1>2. TypeInv /\ HandoverInv /\ [Next]_vars => (TypeInv /\ HandoverInv)'
  BY TypeStep, HandoverStep
<1>3. TypeInv /\ HandoverInv /\ [Next]_vars
        => [(\E i \in Slots : rxDescr[i].ready)
              => /\ rxMem' = rxMem
                 /\ \A i \in Slots : rxDescr'[i].ready => rxDescr[i].ready]_vars
  BY StableStep DEF AnyReady, Ready
<1> QED
  BY <1>1, <1>2, <1>3, PTL DEF Spec, BufferStable

-----------------------------------------------------------------------------
(* When the module starts again without a reset *)

LEMMA TypeStepAny == TypeInv /\ [ReInitNext]_vars => TypeInv'
<1>1. ASSUME TypeInv, ModuleReInit PROVE TypeInv'
  BY <1>1 DEF ModuleReInit, TypeInv, TypeOK, Staged, hostVars, podVars, regVars, Slots
<1> QED
  BY <1>1, TypeStep DEF ReInitNext

\* What the podule knows of the descriptors without the Arc's help, and so keeps
\* though their indices disagree.
PostedInv == LastPosted /\ NoneWhilePosting

LEMMA PostedStep == TypeInv /\ PostedInv /\ [ReInitNext]_vars => PostedInv'
<1> SUFFICES ASSUME TypeInv, PostedInv, [ReInitNext]_vars PROVE PostedInv'
  OBVIOUS
<1> USE DEF Ready, AnyReady
<1>0. /\ rxDescr \in [Slots -> Descr] /\ rxHead \in Slots /\ rxTail \in Slots
      /\ \A i \in Slots : rxDescr[i] \in Descr
  BY DEF TypeInv, TypeOK
<1>1. ASSUME UNCHANGED <<rxLast, rxHead>>,
             \A i \in Slots : rxDescr'[i].ready => rxDescr[i].ready,
             podPc' \in {"copy", "post"} => podPc \in {"copy", "post"}
      PROVE  PostedInv'
  BY <1>1 DEF PostedInv, LastPosted, NoneWhilePosting
<1>2. CASE RxAccept
  <2>1. ~AnyReady
    BY <1>2 DEF RxAccept, RxNoRoom, PostedInv, LastPosted
  <2> QED
    BY <1>2, <2>1 DEF RxAccept, PostedInv, LastPosted, NoneWhilePosting, regVars
<1>3. CASE RxPost
  <2>1. ~AnyReady
    BY <1>3 DEF RxPost, PostedInv, NoneWhilePosting
  <2>2. \A i \in Slots : rxDescr'[i].ready <=> i = rxHead
    BY <1>0, <1>3, <2>1 DEF RxPost, MkDescr
  <2>3. rxLast' = rxHead /\ rxHead' = NextSlot(rxHead) /\ podPc' = "trim"
    BY <1>3 DEF RxPost
  <2> QED
    BY <1>0, <2>2, <2>3 DEF PostedInv, LastPosted, NoneWhilePosting
<1>4. CASE PipeInit
  BY <1>4 DEF PipeInit, NoDescr, PostedInv, LastPosted, NoneWhilePosting
<1>5. CASE ArcRxConsume
  <2>1. \A i \in Slots : rxDescr'[i].ready => rxDescr[i].ready
    BY <1>0, <1>5 DEF ArcRxConsume, Descr
  <2> QED
    BY <1>1, <1>5, <2>1 DEF ArcRxConsume, podVars
<1>6. CASE RxRead \/ RxStall \/ RxCopy \/ RxTrim
  BY <1>1, <1>6 DEF RxRead, RxStall, RxCopy, RxTrim, regVars
<1>7. CASE UNCHANGED <<podVars, rxDescr>>
  BY <1>1, <1>7 DEF podVars
<1>8. ASSUME NEW len \in Lens, HostSend(len) PROVE PostedInv'
  BY <1>7, <1>8 DEF HostSend, regVars
<1> QED
  BY <1>2, <1>3, <1>4, <1>5, <1>6, <1>7, <1>8
     DEF ReInitNext, Next, LinkNext, PoduleNext, ArcProgress, ResetNext, vars, regVars,
         UsbConnect, UsbDeliver, UsbDisconnect, ArcRxCall, ArcRxReady, ArcRxTimeout,
         ArcRxCopy, ArcReset, ModuleInit, ModuleReInit

LEMMA PostedInvariant == ReInitSpec => [](TypeInv /\ PostedInv)
<1>1. Init => TypeInv /\ PostedInv
  BY TypeInit, HandoverInit DEF HandoverInv, PostedInv
<1> QED
  BY <1>1, TypeStepAny, PostedStep, PTL DEF ReInitSpec

\* The buffer behind a READY descriptor is left alone even then: the podule looks at
\* the descriptor it made last, and not at an index of the Arc's.
THEOREM BufferStaysStable == ReInitSpec => BufferStable
<1>1. ASSUME TypeInv, PostedInv, [ReInitNext]_vars, AnyReady
      PROVE  /\ rxMem' = rxMem
             /\ \A i \in Slots : rxDescr'[i].ready => rxDescr[i].ready
  <2> USE DEF Ready, AnyReady
  <2>0. podPc \notin {"copy", "post"}
    BY <1>1 DEF PostedInv, NoneWhilePosting
  <2>1. \A i \in Slots : rxDescr[i] \in Descr
    BY <1>1 DEF TypeInv, TypeOK
  <2>2. CASE PipeInit
    BY <2>2 DEF PipeInit, NoDescr
  <2>3. CASE ArcRxConsume
    BY <1>1, <2>1, <2>3 DEF ArcRxConsume, TypeInv, TypeOK, Descr
  <2>4. CASE RxCopy \/ RxPost
    BY <2>0, <2>4 DEF RxCopy, RxPost
  <2>5. CASE UNCHANGED <<rxDescr, rxMem>>
    BY <2>5
  <2> QED
    BY <1>1, <2>2, <2>3, <2>4, <2>5
       DEF ReInitNext, Next, LinkNext, PoduleNext, ArcProgress, ResetNext, vars, regVars,
           HostSend, UsbConnect, UsbDeliver, UsbDisconnect, RxRead, RxStall, RxAccept,
           RxTrim, ArcRxCall, ArcRxReady, ArcRxTimeout, ArcRxCopy, ArcReset, ModuleInit,
           ModuleReInit
<1>2. TypeInv /\ PostedInv /\ [ReInitNext]_vars
        => [(\E i \in Slots : rxDescr[i].ready)
              => /\ rxMem' = rxMem
                 /\ \A i \in Slots : rxDescr'[i].ready => rxDescr[i].ready]_vars
  BY <1>1 DEF AnyReady, Ready
<1> QED
  BY <1>2, PostedInvariant, PTL DEF ReInitSpec, BufferStable

LEMMA ApartStep ==
  ASSUME TypeInv, PostedInv, [ReInitNext]_vars, Apart, ~ArcReset, ~ModuleReInit
  PROVE  Apart' /\ received' = received
<1> USE DEF Ready, AnyReady
<1>0. /\ rxDescr \in [Slots -> Descr] /\ rxHead \in Slots /\ rxTail \in Slots
  BY DEF TypeInv, TypeOK
<1>a. ~rxDescr[rxTail].ready
  BY <1>0 DEF Apart
\* Neither end moves, nor does anything become of a descriptor.
<1>1. ASSUME UNCHANGED <<rxDescr, rxHead, rxTail, resetReq, received>>,
             arcPc' \in {"idle", "wait"}
      PROVE  Apart' /\ received' = received
  BY <1>1 DEF Apart
<1>2. CASE RxPost
  <2>1. ~AnyReady
    BY <1>2 DEF RxPost, PostedInv, NoneWhilePosting
  <2>2. \A i \in Slots : rxDescr'[i].ready <=> i = rxHead
    BY <1>0, <1>2, <2>1 DEF RxPost, MkDescr
  <2>3. UNCHANGED <<rxTail, resetReq, arcPc, received>> /\ rxHead # rxTail
    BY <1>2, <2>1 DEF RxPost, Apart, arcVars
  <2> QED
    BY <1>0, <2>2, <2>3 DEF Apart
<1>3. CASE RxRead \/ RxStall \/ RxAccept \/ RxCopy \/ RxTrim
  BY <1>1, <1>3 DEF RxRead, RxStall, RxAccept, RxCopy, RxTrim, Apart, regVars, arcVars
<1>4. CASE ArcRxCall \/ ArcRxTimeout
  BY <1>1, <1>4 DEF ArcRxCall, ArcRxTimeout, podVars, regVars
<1>5. CASE ArcRxReady \/ ArcRxCopy \/ ArcRxConsume \/ PipeInit \/ ModuleInit
  BY <1>a, <1>5 DEF ArcRxReady, ArcRxCopy, ArcRxConsume, PipeInit, ModuleInit, Apart
<1>6. CASE UsbConnect \/ UsbDeliver \/ UsbDisconnect \/ UNCHANGED vars
  BY <1>1, <1>6
     DEF UsbConnect, UsbDeliver, UsbDisconnect, vars, Apart, podVars, regVars, arcVars
<1>7. ASSUME NEW len \in Lens, HostSend(len) PROVE Apart' /\ received' = received
  BY <1>1, <1>7 DEF HostSend, Apart, podVars, regVars, arcVars
<1> QED
  BY <1>2, <1>3, <1>4, <1>5, <1>6, <1>7
     DEF ReInitNext, Next, LinkNext, PoduleNext, ArcProgress, ResetNext

\* After a start that left the ends apart (an odd number of packets behind them),
\* or for whatever reason, nothing is received until a reset or another start.
THEOREM ApartStaysApart == ReInitSpec => ApartForGood
<1>1. TypeInv /\ PostedInv /\ [ReInitNext]_vars
        => [Apart => ArcReset \/ ModuleReInit \/ (Apart' /\ received' = received)]_vars
  BY ApartStep
<1> QED
  BY <1>1, PostedInvariant, PTL DEF ReInitSpec, ApartForGood

-----------------------------------------------------------------------------
(* A packet that is too long *)

\* A packet that is being delivered, or is held back, is whole in rx_buf.
Decoded ==
  podPc # "poll" \/ rxPending =>
    /\ HdrSize <= Len(rxBuf) /\ rxTotal <= Len(rxBuf)
    /\ rxTotal = HdrSize + HeaderLen(rxBuf)

LEMMA DecodedStep == TypeInv /\ Decoded /\ [ReInitNext]_vars => Decoded'
<1> SUFFICES ASSUME TypeInv, Decoded, [ReInitNext]_vars PROVE Decoded'
  OBVIOUS
<1>1. ASSUME UNCHANGED <<rxBuf, rxTotal>>,
             podPc' # "poll" \/ rxPending' => podPc # "poll" \/ rxPending
      PROVE  Decoded'
  BY <1>1 DEF Decoded, HeaderLen
<1>2. CASE RxRead
  <2>1. rxBuf \in Seq(Byte) /\ fifo \in Seq(Byte) /\ Len(fifo) \in Nat /\ Len(rxBuf) \in Nat
    BY DEF TypeInv, TypeOK
  <2>2. CASE rxPending
    <3>1. RxRoom = 0 /\ SubSeq(fifo, 1, 0) = <<>>
      BY <2>2 DEF RxRoom
    <3>2. rxBuf' = rxBuf
      BY <1>2, <2>1, <3>1 DEF RxRead
    <3>3. rxTotal' = rxTotal
      BY <1>2, <2>2, <3>2 DEF RxRead, Decoded, HeaderLen
    <3> QED
      BY <1>1, <2>2, <3>2, <3>3
  <2>3. CASE ~rxPending
    <3>1. rxPending' = FALSE
      BY <1>2, <2>3 DEF RxRead
    <3>2. podPc' # "poll" => /\ HdrSize <= Len(rxBuf') /\ rxTotal' <= Len(rxBuf')
                             /\ rxTotal' = HdrSize + HeaderLen(rxBuf')
      BY <1>2 DEF RxRead
    <3> QED
      BY <3>1, <3>2 DEF Decoded, HeaderLen
  <2> QED
    BY <2>2, <2>3
<1>3. CASE RxStall \/ RxAccept \/ RxCopy \/ RxPost
  BY <1>1, <1>3 DEF RxStall, RxAccept, RxCopy, RxPost
<1>4. CASE RxTrim
  BY <1>1, <1>4 DEF RxTrim, Decoded, HeaderLen
<1>5. CASE PipeInit
  BY <1>5 DEF PipeInit, Decoded
<1>6. CASE UNCHANGED podVars
  BY <1>1, <1>6 DEF podVars
<1>7. ASSUME NEW len \in Lens, HostSend(len) PROVE Decoded'
  BY <1>6, <1>7 DEF HostSend
<1> QED
  BY <1>2, <1>3, <1>4, <1>5, <1>6, <1>7
     DEF ReInitNext, Next, LinkNext, PoduleNext, ArcProgress, ResetNext, vars,
         UsbConnect, UsbDeliver, UsbDisconnect, ArcRxCall, ArcRxReady, ArcRxTimeout,
         ArcRxCopy, ArcRxConsume, ArcReset, ModuleInit, ModuleReInit

LEMMA TooLongStep ==
  ASSUME TypeInv, Decoded, [ReInitNext]_vars, TooLong, ~PipeInit
  PROVE  TooLong' /\ posted' = posted
<1>0. /\ rxBuf \in Seq(Byte) /\ fifo \in Seq(Byte) /\ Len(fifo) \in Nat
      /\ Len(rxBuf) \in Nat /\ Len(rxBuf) <= RxCap
  BY DEF TypeInv, TypeOK, Staged
<1>l. PICK len \in Nat : len = HeaderLen(rxBuf)
  BY <1>0, HeaderLenType DEF TooLong
<1>1. podPc = "poll" /\ ~rxPending
  BY <1>0, <1>l DEF Decoded, TooLong, RxCap
<1>2. ASSUME UNCHANGED <<rxBuf, posted>> PROVE TooLong' /\ posted' = posted
  BY <1>2 DEF TooLong, HeaderLen
<1>3. CASE RxRead
  <2> DEFINE n == IF RxRoom < Len(fifo) THEN RxRoom ELSE Len(fifo)
  <2>1. n \in 0 .. Len(fifo)
    BY <1>0, <1>1 DEF RxRoom, RxCap
  <2>2. rxBuf' = rxBuf \o SubSeq(fifo, 1, n) /\ posted' = posted
    BY <1>3 DEF RxRead
  <2> HIDE DEF n
  <2>3. SubSeq(fifo, 1, n) \in Seq(Byte)
    BY <1>0, <2>1, SplitType
  <2>4. Len(rxBuf') >= Len(rxBuf) /\ rxBuf'[1] = rxBuf[1]
    BY <1>0, <2>2, <2>3 DEF TooLong
  <2>5. Len(rxBuf') \in Nat
    BY <1>0, <2>2, <2>3
  <2>6. HeaderLen(rxBuf') = HeaderLen(rxBuf)
    BY <2>4 DEF HeaderLen
  <2>7. Len(rxBuf') >= HdrSize
    BY <1>0, <2>4, <2>5 DEF TooLong
  <2> QED
    BY <2>2, <2>6, <2>7 DEF TooLong
<1>4. CASE RxStall \/ RxAccept \/ RxCopy \/ RxPost \/ RxTrim
  BY <1>1, <1>4 DEF RxStall, RxAccept, RxCopy, RxPost, RxTrim
<1>5. CASE UNCHANGED podVars
  BY <1>2, <1>5 DEF podVars
<1>6. ASSUME NEW size \in Lens, HostSend(size) PROVE TooLong' /\ posted' = posted
  BY <1>5, <1>6 DEF HostSend
<1> QED
  BY <1>3, <1>4, <1>5, <1>6
     DEF ReInitNext, Next, LinkNext, PoduleNext, ArcProgress, ResetNext, vars,
         UsbConnect, UsbDeliver, UsbDisconnect, ArcRxCall, ArcRxReady, ArcRxTimeout,
         ArcRxCopy, ArcRxConsume, ArcReset, ModuleInit, ModuleReInit

\* A packet that is whole fits: the branch of pipe_rx_packet that drops one is dead.
LEMMA DropIsDead == ReInitSpec => [](podPc = "packet" => rxTotal - HdrSize <= BufSize)
<1>1. TypeInv => (podPc = "packet" => rxTotal - HdrSize <= BufSize)
  BY DEF TypeInv, TypeOK, Staged, RxCap
<1> QED
  BY <1>1, TypeInit, TypeStepAny, PTL DEF ReInitSpec

\* A header that announces more than the RX buffer holds stops the receive path
\* until pipe_init, though connections break, the Arc gives up and starts again.
THEOREM TooLongIsStuck == ReInitSpec => TooLongBlocks
<1>1. Init => Decoded
  BY DEF Init, Decoded
<1>2. TypeInv /\ Decoded /\ [ReInitNext]_vars
        => [TooLong => PipeInit \/ (TooLong' /\ posted' = posted)]_vars
  BY TooLongStep
<1> QED
  BY <1>1, <1>2, TypeInit, TypeStepAny, DecodedStep, PTL DEF ReInitSpec, TooLongBlocks

-----------------------------------------------------------------------------
(* A packet that is cut short *)

\* The bytes on their way and in rx_buf are of packets that were sent.
ByteUpTo(n) == [id : 1 .. n, len : Nat, off : Nat]
Known       == ByteUpTo(Len(sent))

\* A packet that is whole is being delivered, or held back.
InPart ==
  podPc = "poll" /\ ~rxPending /\ HdrSize <= Len(rxBuf) =>
    Len(rxBuf) < HdrSize + HeaderLen(rxBuf)

CutInv ==
  /\ hostQ \in Seq(Known) /\ fifo \in Seq(Known) /\ rxBuf \in Seq(Known)
  /\ InPart

\* No byte of s is of the packet id.
NoneOf(s, id) == \A k \in 1 .. Len(s) : s[k].id # id

\* What is left of two sequences when the first bytes of the second go behind the first.
LEMMA MovedTypes ==
  ASSUME NEW S, NEW s \in Seq(S), NEW t \in Seq(S), NEW n \in 0 .. Len(t)
  PROVE  /\ s \o SubSeq(t, 1, n) \in Seq(S)
         /\ Len(s \o SubSeq(t, 1, n)) = Len(s) + n
         /\ \A k \in 1 .. Len(s) : (s \o SubSeq(t, 1, n))[k] = s[k]
         /\ \A k \in 1 .. n : (s \o SubSeq(t, 1, n))[Len(s) + k] = t[k]
         /\ SubSeq(t, n + 1, Len(t)) \in Seq(S)
         /\ Len(SubSeq(t, n + 1, Len(t))) = Len(t) - n
         /\ \A k \in 1 .. Len(t) - n : SubSeq(t, n + 1, Len(t))[k] = t[n + k]
<1> PICK u : u = SubSeq(t, 1, n)
  OBVIOUS
<1>1. u \in Seq(S) /\ Len(u) = n /\ \A k \in 1 .. n : u[k] = t[k]
  OBVIOUS
<1>2. /\ s \o u \in Seq(S) /\ Len(s \o u) = Len(s) + Len(u)
      /\ \A k \in 1 .. Len(s) : (s \o u)[k] = s[k]
      /\ \A k \in 1 .. Len(u) : (s \o u)[Len(s) + k] = u[k]
  BY <1>1, ConcatProperties
<1>3. /\ SubSeq(t, n + 1, Len(t)) \in Seq(S)
      /\ Len(SubSeq(t, n + 1, Len(t))) = Len(t) - n
      /\ \A k \in 1 .. Len(t) - n : SubSeq(t, n + 1, Len(t))[k] = t[n + k]
  BY SMTT(30)
<1> QED
  BY <1>1, <1>2, <1>3

LEMMA MovedIds ==
  ASSUME NEW S, NEW s \in Seq(S), NEW t \in Seq(S), NEW n \in 0 .. Len(t), NEW id,
         NoneOf(s, id), NoneOf(t, id)
  PROVE  NoneOf(s \o SubSeq(t, 1, n), id) /\ NoneOf(SubSeq(t, n + 1, Len(t)), id)
<1> PICK u : u = s \o SubSeq(t, 1, n)
  OBVIOUS
<1> PICK r : r = SubSeq(t, n + 1, Len(t))
  OBVIOUS
<1>1. /\ Len(u) = Len(s) + n /\ Len(s) \in Nat /\ Len(t) \in Nat
      /\ \A k \in 1 .. Len(s) : u[k] = s[k]
      /\ \A k \in 1 .. n : u[Len(s) + k] = t[k]
      /\ Len(r) = Len(t) - n
      /\ \A k \in 1 .. Len(t) - n : r[k] = t[n + k]
  BY MovedTypes
<1>2. ASSUME NEW k \in 1 .. Len(s) + n PROVE u[k].id # id
  <2>1. CASE k <= Len(s)
    BY <1>1, <2>1 DEF NoneOf
  <2>2. CASE k > Len(s)
    <3> DEFINE j == k - Len(s)
    <3>1. j \in 1 .. n /\ j \in 1 .. Len(t) /\ Len(s) + j = k
      BY <1>1, <2>2
    <3> HIDE DEF j
    <3> QED
      BY <1>1, <3>1 DEF NoneOf
  <2> QED
    BY <1>1, <2>1, <2>2
<1>3. ASSUME NEW k \in 1 .. Len(t) - n PROVE r[k].id # id
  <2>1. n + k \in 1 .. Len(t)
    BY <1>1
  <2> QED
    BY <1>1, <2>1 DEF NoneOf
<1> QED
  BY <1>1, <1>2, <1>3 DEF NoneOf

LEMMA KnownGrows ==
  ASSUME NEW m \in Nat, NEW n \in Nat, m <= n
  PROVE  Seq(ByteUpTo(m)) \subseteq Seq(ByteUpTo(n))
<1>1. ByteUpTo(m) \subseteq ByteUpTo(n)
  BY DEF ByteUpTo
<1> SUFFICES ASSUME NEW s \in Seq(ByteUpTo(m)) PROVE s \in Seq(ByteUpTo(n))
  OBVIOUS
<1> PICK S : S = ByteUpTo(n)
  OBVIOUS
<1>2. \A k \in 1 .. Len(s) : s[k] \in S
  BY <1>1, ElementOfSeq
<1>3. s \in Seq(S)
  BY <1>2, LenProperties, IsASeq
<1> QED
  BY <1>3

\* What a read takes, and what of it is then in rx_buf.
LEMMA ReadIs ==
  ASSUME TypeInv, RxRead
  PROVE  \E n \in 0 .. Len(fifo) :
           /\ rxBuf' = rxBuf \o SubSeq(fifo, 1, n) /\ fifo' = SubSeq(fifo, n + 1, Len(fifo))
           /\ rxPending => n = 0
<1>1. /\ rxBuf \in Seq(Byte) /\ fifo \in Seq(Byte) /\ Len(fifo) \in Nat
      /\ Len(rxBuf) \in Nat /\ Len(rxBuf) <= RxCap
  BY DEF TypeInv, TypeOK, Staged
<1> DEFINE n == IF RxRoom < Len(fifo) THEN RxRoom ELSE Len(fifo)
<1>2. n \in 0 .. Len(fifo) /\ (rxPending => n = 0)
  BY <1>1 DEF RxRoom, RxCap
<1>3. rxBuf' = rxBuf \o SubSeq(fifo, 1, n) /\ fifo' = SubSeq(fifo, n + 1, Len(fifo))
  BY DEF RxRead
<1> QED
  BY <1>2, <1>3

LEMMA KnownSend ==
  ASSUME TypeInv, CutInv, NEW len \in Lens, HostSend(len)
  PROVE  CutInv'
<1> DEFINE n == Len(sent)
<1>1. /\ hostQ' = hostQ \o Bytes(n + 1, len) /\ UNCHANGED <<fifo, podPc, rxBuf, rxPending>>
      /\ sent' = Append(sent, Content(n + 1, len))
  BY DEF HostSend, podVars
<1>2. n \in Nat /\ len \in Nat
  BY RxAssumption DEF TypeInv, TypeOK
<1>3. Len(sent') = n + 1
  BY <1>1, <1>2 DEF TypeInv, TypeOK
<1>4. Bytes(n + 1, len) \in Seq(ByteUpTo(n + 1))
  <2>1. HdrSize + len \in Nat
    BY <1>2, RegsAssumption
  <2>2. \A k \in 1 .. HdrSize + len :
          [id |-> n + 1, len |-> len, off |-> k - 1] \in ByteUpTo(n + 1)
    BY <1>2, <2>1 DEF ByteUpTo
  <2> HIDE DEF n
  <2> QED
    BY <2>1, <2>2 DEF Bytes
<1>5. Known = ByteUpTo(n) /\ Known' = ByteUpTo(n + 1)
  BY <1>3 DEF Known
<1>6. Seq(Known) \subseteq Seq(Known')
  <2>1. n + 1 \in Nat /\ n <= n + 1
    BY <1>2
  <2> HIDE DEF n
  <2> QED
    BY <1>2, <1>5, <2>1, KnownGrows
<1>7. hostQ' \in Seq(Known')
  <2>1. hostQ \in Seq(Known') /\ Bytes(n + 1, len) \in Seq(Known')
    BY <1>4, <1>5, <1>6 DEF CutInv
  <2> HIDE DEF n
  <2> QED
    BY <1>1, <2>1, ConcatProperties DEF n
<1> QED
  BY <1>1, <1>6, <1>7 DEF CutInv, InPart, HeaderLen

LEMMA CutStep ==
  ASSUME TypeInv, CutInv, [ReInitNext]_vars
  PROVE  CutInv'
<1>0. hostQ \in Seq(Known) /\ fifo \in Seq(Known) /\ rxBuf \in Seq(Known) /\ InPart
  BY DEF CutInv
<1>1. ASSUME UNCHANGED <<sent, hostQ, fifo>>, rxBuf' \in {rxBuf, <<>>},
             podPc' = "poll" /\ ~rxPending' => rxBuf' = <<>> \/ (podPc = "poll" /\ ~rxPending)
      PROVE  CutInv'
  <2>1. Known' = Known
    BY <1>1 DEF Known
  <2>2. InPart'
    BY <1>0, <1>1, RegsAssumption, EmptySeq DEF InPart, HeaderLen
  <2> QED
    BY <1>0, <1>1, <2>1, <2>2, EmptySeq DEF CutInv
<1>2. CASE UsbDeliver
  <2>1. PICK n \in 1 .. Len(hostQ) : /\ fifo' = fifo \o SubSeq(hostQ, 1, n)
                                     /\ hostQ' = SubSeq(hostQ, n + 1, Len(hostQ))
    BY <1>2 DEF UsbDeliver
  <2>2. n \in 0 .. Len(hostQ)
    OBVIOUS
  <2>3. fifo' \in Seq(Known) /\ hostQ' \in Seq(Known)
    BY <1>0, <2>1, <2>2, MovedTypes
  <2>4. UNCHANGED <<sent, podPc, rxBuf, rxPending>>
    BY <1>2 DEF UsbDeliver, podVars
  <2> QED
    BY <1>0, <2>3, <2>4 DEF CutInv, InPart, HeaderLen, Known
<1>3. CASE UsbDisconnect
  <2>1. /\ hostQ' = <<>> /\ fifo' \in {fifo, <<>>} /\ UNCHANGED <<sent, podPc, rxBuf, rxPending>>
    BY <1>3 DEF UsbDisconnect, podVars
  <2> QED
    BY <1>0, <2>1, EmptySeq DEF CutInv, InPart, HeaderLen, Known
<1>4. CASE RxRead
  <2>1. PICK n \in 0 .. Len(fifo) :
          rxBuf' = rxBuf \o SubSeq(fifo, 1, n) /\ fifo' = SubSeq(fifo, n + 1, Len(fifo))
    BY <1>4, ReadIs
  <2>2. rxBuf' \in Seq(Known) /\ fifo' \in Seq(Known)
    BY <1>0, <2>1, MovedTypes
  <2>3. /\ UNCHANGED <<sent, hostQ, rxPending>>
        /\ rxTotal' = IF Len(rxBuf') >= HdrSize THEN HdrSize + HeaderLen(rxBuf') ELSE rxTotal
        /\ podPc' = IF Len(rxBuf') >= HdrSize /\ Len(rxBuf') >= rxTotal'
                      THEN "packet" ELSE "poll"
    BY <1>4 DEF RxRead
  <2>4. InPart'
    <3> SUFFICES ASSUME podPc' = "poll", HdrSize <= Len(rxBuf')
                 PROVE  Len(rxBuf') < HdrSize + HeaderLen(rxBuf')
      BY DEF InPart, HeaderLen
    <3>1. Len(rxBuf') \in Nat /\ HdrSize \in Nat
      BY <2>2, RegsAssumption, LenProperties
    <3>2. ~(Len(rxBuf') >= HdrSize + HeaderLen(rxBuf'))
      BY <2>3, <3>1
    <3>3. HeaderLen(rxBuf') \in Nat
      <4>1. rxBuf' \in Seq(Byte) /\ rxBuf' # <<>>
        <5>1. TypeInv'
          BY TypeStepAny
        <5>2. rxBuf' \in Seq(Byte)
          BY <5>1 DEF TypeInv, TypeOK
        <5>3. Len(rxBuf') # 0
          BY <3>1, RegsAssumption
        <5> QED
          BY <5>2, <5>3
      <4> QED
        BY <4>1, <3>1, HeaderLenType, RegsAssumption
    <3> QED
      BY <3>1, <3>2, <3>3
  <2>5. Known' = Known
    BY <2>3 DEF Known
  <2> QED
    BY <1>0, <2>2, <2>3, <2>4, <2>5 DEF CutInv
<1>5. CASE RxStall \/ RxAccept \/ RxCopy \/ RxPost
  <2>1. /\ UNCHANGED <<sent, hostQ, fifo, rxBuf>>
        /\ ~(podPc' = "poll" /\ ~rxPending')
    BY <1>5 DEF RxStall, RxAccept, RxCopy, RxPost, hostVars
  <2> QED
    BY <1>1, <2>1
<1>6. CASE RxTrim \/ PipeInit
  <2>1. /\ UNCHANGED <<sent, hostQ, fifo>>
        /\ rxBuf' = <<>> \/ (rxBuf' = rxBuf /\ podPc' # "poll")
    BY <1>6 DEF RxTrim, PipeInit, hostVars
  <2> QED
    BY <1>1, <2>1
<1>7. CASE UNCHANGED <<sent, hostQ, fifo, podVars>>
  BY <1>1, <1>7 DEF podVars
<1>8. ASSUME NEW len \in Lens, HostSend(len) PROVE CutInv'
  BY <1>8, KnownSend
<1> QED
  BY <1>2, <1>3, <1>4, <1>5, <1>6, <1>7, <1>8
     DEF ReInitNext, Next, LinkNext, PoduleNext, ArcProgress, ResetNext, vars, hostVars,
         UsbConnect, ArcRxCall, ArcRxReady, ArcRxTimeout,
         ArcRxCopy, ArcRxConsume, ArcReset, ModuleInit, ModuleReInit

LEMMA TornByBreak ==
  ASSUME TypeInv, CutInv, UsbDisconnect, fifo' = <<>>, ~rxPending, WholeHeader
  PROVE  Torn'
<1>1. /\ podPc = "poll" /\ hostQ' = <<>> /\ UNCHANGED <<podPc, rxBuf, rxPending>>
  BY DEF UsbDisconnect, podVars
<1>2. Len(rxBuf) < HdrSize + HeaderLen(rxBuf)
  BY <1>1 DEF CutInv, InPart, WholeHeader
<1> QED
  BY <1>1, <1>2, EmptySeq DEF Torn, WholeHeader, HeaderLen

\* The first byte of the packet that was cut short.
LEMMA TornFirst ==
  ASSUME TypeInv, CutInv, HdrSize <= Len(rxBuf)
  PROVE  /\ Len(rxBuf) \in Nat \ {0} /\ rxBuf[1].id \in 1 .. Len(sent)
         /\ HeaderLen(rxBuf) \in Nat
<1>1. rxBuf \in Seq(Known) /\ rxBuf \in Seq(Byte) /\ Len(rxBuf) \in Nat \ {0}
  BY DEF CutInv, TypeInv, TypeOK
<1>2. 1 \in 1 .. Len(rxBuf)
  BY <1>1
<1>3. rxBuf[1] \in Known
  BY <1>1, <1>2, ElementOfSeq
<1>4. HeaderLen(rxBuf) \in Nat
  BY <1>1, <1>2, HeaderLenType
<1> QED
  BY <1>1, <1>3, <1>4 DEF Known, ByteUpTo

LEMMA TornSend ==
  ASSUME TypeInv, CutInv, Torn, NEW len \in Lens, HostSend(len)
  PROVE  Torn'
<1> DEFINE n == Len(sent)
           new == Bytes(n + 1, len)
<1>1. hostQ' = hostQ \o new /\ UNCHANGED <<fifo, podPc, rxBuf, rxPending>>
  BY DEF HostSend, podVars
<1>2. n \in Nat /\ len \in Nat /\ rxBuf[1].id \in 1 .. n /\ HdrSize + len \in Nat
  <2>1. n \in Nat
    BY DEF TypeInv, TypeOK
  <2>2. rxBuf[1].id \in 1 .. n
    BY TornFirst DEF Torn, WholeHeader
  <2> QED
    BY <2>1, <2>2
<1> PICK id : id = rxBuf[1].id
  OBVIOUS
<1>3. NoneOf(hostQ, id)
  BY DEF Torn, NoneOf
<1>4. /\ new \in Seq(Known') /\ hostQ \in Seq(Known') /\ NoneOf(new, id)
  <2>1. \A k \in 1 .. HdrSize + len : new[k].id = n + 1
    BY <1>2 DEF Bytes
  <2>2. Len(new) = HdrSize + len
    BY <1>2 DEF Bytes
  <2>3. NoneOf(new, id)
    BY <1>2, <2>1, <2>2 DEF NoneOf
  <2>4. Len(sent') = n + 1
    <3>1. sent' = Append(sent, Content(n + 1, len))
      BY DEF HostSend
    <3> QED
      BY <1>2, <3>1 DEF TypeInv, TypeOK
  <2>5. Known' = ByteUpTo(n + 1) /\ Known = ByteUpTo(n)
    BY <2>4 DEF Known
  <2>6. hostQ \in Seq(Known')
    <3>1. n + 1 \in Nat /\ n <= n + 1 /\ hostQ \in Seq(Known)
      BY <1>2 DEF CutInv
    <3> HIDE DEF n
    <3> QED
      BY <1>2, <2>5, <3>1, KnownGrows
  <2>7. \A k \in 1 .. HdrSize + len :
          [id |-> n + 1, len |-> len, off |-> k - 1] \in ByteUpTo(n + 1)
    BY <1>2 DEF ByteUpTo
  <2>8. new \in Seq(Known')
    <3> HIDE DEF n
    <3> QED
      BY <1>2, <2>5, <2>7 DEF Bytes
  <2> QED
    BY <2>3, <2>6, <2>8
<1> HIDE DEF new
<1>5. NoneOf(hostQ', id)
  <2>1. Len(new) \in 0 .. Len(new) /\ SubSeq(new, 1, Len(new)) = new
    BY <1>4, SubSeqFull
  <2>2. NoneOf(hostQ \o SubSeq(new, 1, Len(new)), id)
    BY <1>3, <1>4, <2>1, MovedIds
  <2> QED
    BY <1>1, <2>1, <2>2
<1> QED
  BY <1>1, <1>5 DEF Torn, WholeHeader, HeaderLen, NoneOf

\* Reading takes the start of another packet for the rest of this one.
LEMMA TornRead ==
  ASSUME TypeInv, CutInv, Torn, RxRead
  PROVE  Torn' \/ Mixed'
<1> PICK n \in 0 .. Len(fifo) :
      rxBuf' = rxBuf \o SubSeq(fifo, 1, n) /\ fifo' = SubSeq(fifo, n + 1, Len(fifo))
  BY ReadIs
<1> PICK l : l = Len(rxBuf)
  OBVIOUS
<1> PICK total : total = HdrSize + HeaderLen(rxBuf)
  OBVIOUS
<1>1. /\ rxBuf \in Seq(Known) /\ fifo \in Seq(Known) /\ l \in Nat \ {0} /\ HdrSize <= l
      /\ total \in Nat /\ l < total /\ Len(fifo) \in Nat /\ HdrSize \in Nat \ {0}
      /\ \A k \in 1 .. HdrSize : rxBuf[k].id = rxBuf[1].id /\ rxBuf[k].off = k - 1
      /\ NoneOf(fifo, rxBuf[1].id)
  <2>1. rxBuf \in Seq(Known) /\ fifo \in Seq(Known)
    BY DEF CutInv
  <2>2. HdrSize <= Len(rxBuf) /\ l < total /\ NoneOf(fifo, rxBuf[1].id)
    BY DEF Torn, WholeHeader, NoneOf
  <2>3. l \in Nat \ {0} /\ HeaderLen(rxBuf) \in Nat
    BY <2>2, TornFirst
  <2> QED
    BY <2>1, <2>2, <2>3 DEF Torn, WholeHeader
<1>2. /\ rxBuf' \in Seq(Known) /\ Len(rxBuf') = l + n
      /\ \A k \in 1 .. l : rxBuf'[k] = rxBuf[k]
      /\ \A k \in 1 .. n : rxBuf'[l + k] = fifo[k]
  BY <1>1, MovedTypes
<1>3. UNCHANGED <<hostQ, rxPending>> /\ ~rxPending
  BY DEF RxRead, Torn
<1>4. HdrSize + HeaderLen(rxBuf') = total /\ rxBuf'[1] = rxBuf[1]
  <2>1. rxBuf'[1] = rxBuf[1]
    BY <1>1, <1>2
  <2> QED
    BY <2>1 DEF HeaderLen
<1>5. /\ HdrSize <= Len(rxBuf')
      /\ rxTotal' = total
      /\ podPc' = IF l + n >= total THEN "packet" ELSE "poll"
  <2>1. HdrSize <= Len(rxBuf')
    BY <1>1, <1>2
  <2>2. /\ rxTotal' = IF Len(rxBuf') >= HdrSize THEN HdrSize + HeaderLen(rxBuf') ELSE rxTotal
        /\ podPc' = IF Len(rxBuf') >= HdrSize /\ Len(rxBuf') >= rxTotal'
                      THEN "packet" ELSE "poll"
    BY DEF RxRead
  <2>3. Len(rxBuf') >= HdrSize
    BY <1>1, <1>2
  <2>4. rxTotal' = total
    BY <1>4, <2>2, <2>3
  <2> QED
    BY <1>2, <2>1, <2>2, <2>3, <2>4
<1>6. CASE l + n < total
  <2>1. podPc' = "poll" /\ Len(rxBuf') < total
    BY <1>1, <1>2, <1>5, <1>6
  <2>2. \A k \in 1 .. HdrSize : rxBuf'[k].id = rxBuf'[1].id /\ rxBuf'[k].off = k - 1
    <3>1. \A k \in 1 .. HdrSize : k \in 1 .. l
      BY <1>1
    <3> QED
      BY <1>1, <1>2, <1>4, <3>1
  <2>3. NoneOf(fifo', rxBuf'[1].id)
    BY <1>1, <1>4, MovedIds
  <2>4. \A k \in 1 .. Len(hostQ') : hostQ'[k].id # rxBuf'[1].id
    BY <1>3, <1>4 DEF Torn
  <2>5. Len(rxBuf') < HdrSize + HeaderLen(rxBuf')
    BY <1>4, <2>1
  <2> HIDE DEF Torn
  <2>6. WholeHeader'
    BY <1>5, <2>2 DEF WholeHeader
  <2>7. (Len(rxBuf) < HdrSize + HeaderLen(rxBuf))'
    BY <2>5 DEF HeaderLen
  <2> QED
    BY <1>3, <2>1, <2>3, <2>4, <2>6, <2>7 DEF Torn, NoneOf
<1>7. CASE l + n >= total
  <2>1. n >= 1 /\ l + 1 \in HdrSize + 1 .. total /\ 1 \in 1 .. n /\ 1 \in 1 .. Len(fifo)
    BY <1>1, <1>7
  <2>2. rxBuf'[l + 1].id # rxBuf'[1].id
    BY <1>1, <1>2, <1>4, <2>1 DEF NoneOf
  <2>3. podPc' = "packet"
    BY <1>5, <1>7
  <2> QED
    BY <1>5, <2>1, <2>2, <2>3 DEF Mixed
<1> QED
  BY <1>1, <1>6, <1>7

LEMMA TornStep ==
  ASSUME TypeInv, CutInv, [ReInitNext]_vars, Torn, ~PipeInit
  PROVE  Torn' \/ Mixed'
<1>1. ASSUME UNCHANGED <<hostQ, fifo, podVars>> PROVE Torn'
  BY <1>1 DEF podVars, Torn, WholeHeader, HeaderLen
<1>2. CASE RxRead
  BY <1>2, TornRead
<1>3. CASE UsbDeliver
  <2>1. PICK n \in 1 .. Len(hostQ) : /\ fifo' = fifo \o SubSeq(hostQ, 1, n)
                                     /\ hostQ' = SubSeq(hostQ, n + 1, Len(hostQ))
    BY <1>3 DEF UsbDeliver
  <2>2. n \in 0 .. Len(hostQ) /\ hostQ \in Seq(Known) /\ fifo \in Seq(Known)
    BY DEF CutInv
  <2>3. NoneOf(fifo, rxBuf[1].id) /\ NoneOf(hostQ, rxBuf[1].id)
    BY DEF Torn, NoneOf
  <2>4. NoneOf(fifo', rxBuf[1].id) /\ NoneOf(hostQ', rxBuf[1].id)
    BY <2>1, <2>2, <2>3, MovedIds
  <2>5. UNCHANGED <<podPc, rxBuf, rxPending>>
    BY <1>3 DEF UsbDeliver, podVars
  <2> QED
    BY <2>4, <2>5 DEF Torn, NoneOf, WholeHeader, HeaderLen
<1>4. CASE UsbDisconnect
  <2>1. hostQ' = <<>> /\ fifo' \in {fifo, <<>>} /\ UNCHANGED <<podPc, rxBuf, rxPending>>
    BY <1>4 DEF UsbDisconnect, podVars
  <2> QED
    BY <2>1, EmptySeq DEF Torn, WholeHeader, HeaderLen
<1>5. CASE RxStall \/ RxAccept \/ RxCopy \/ RxPost \/ RxTrim
  BY <1>5 DEF RxStall, RxAccept, RxCopy, RxPost, RxTrim, Torn
<1>6. ASSUME NEW len \in Lens, HostSend(len) PROVE Torn'
  BY <1>6, TornSend
<1> QED
  BY <1>1, <1>2, <1>3, <1>4, <1>5, <1>6
     DEF ReInitNext, Next, LinkNext, PoduleNext, ArcProgress, ResetNext, vars, hostVars,
         UsbConnect, ArcRxCall, ArcRxReady, ArcRxTimeout,
         ArcRxCopy, ArcRxConsume, ArcReset, ModuleInit, ModuleReInit

\* The packet last posted has payload that is not its own.
PostsMixed ==
  /\ Len(posted') = Len(posted) + 1
  /\ LET p == posted'[Len(posted')]
     IN  \E k \in 1 .. Len(p.data) : p.data[k].id # p.cid

LEMMA MixedPost ==
  ASSUME TypeInv, Mixed, RxPost
  PROVE  PostsMixed
<1> DEFINE data == Payload(rxBuf, rxTotal)
           p == [cid |-> rxBuf[1].id, data |-> data]
<1>1. podPc = "post" /\ posted' = Append(posted, p)
  BY DEF RxPost
<1>2. /\ rxBuf \in Seq(Byte) /\ Len(rxBuf) \in Nat /\ rxTotal \in Nat /\ HdrSize \in Nat \ {0}
      /\ HdrSize <= rxTotal /\ rxTotal <= Len(rxBuf)
      /\ posted \in Seq([cid : Nat, data : Seq(Byte)]) /\ Len(posted) \in Nat
  BY <1>1 DEF TypeInv, TypeOK, Staged
<1>3. PICK k \in HdrSize + 1 .. rxTotal : rxBuf[k].id # rxBuf[1].id
  BY DEF Mixed
<1>4. /\ Len(data) = rxTotal - HdrSize /\ data \in Seq(Byte)
      /\ \A j \in 1 .. rxTotal - HdrSize : data[j] = rxBuf[HdrSize + j]
  BY <1>2, SMTT(30) DEF Payload
<1>5. rxBuf[1] \in Byte
  BY <1>2
<1> HIDE DEF data
<1>6. p \in [cid : Nat, data : Seq(Byte)]
  BY <1>4, <1>5 DEF Byte
<1>7. \E j \in 1 .. Len(p.data) : p.data[j].id # p.cid
  <2> DEFINE j == k - HdrSize
  <2>1. j \in 1 .. rxTotal - HdrSize /\ HdrSize + j = k
    BY <1>2
  <2> HIDE DEF j
  <2> QED
    BY <1>3, <1>4, <2>1
<1> HIDE DEF p
<1>8. Len(posted') = Len(posted) + 1 /\ posted'[Len(posted')] = p
  BY <1>1, <1>2, <1>6, AppendProperties
<1> QED
  BY <1>7, <1>8 DEF PostsMixed

LEMMA MixedStep ==
  ASSUME TypeInv, Decoded, [ReInitNext]_vars, Mixed, ~PipeInit
  PROVE  Mixed' \/ PostsMixed
<1>1. ASSUME UNCHANGED <<rxBuf, rxTotal>>,
             podPc' \in {"packet", "copy", "post"} \/ (podPc' = "poll" /\ rxPending')
      PROVE  Mixed'
  BY <1>1 DEF Mixed
<1>2. CASE RxRead
  <2>1. podPc = "poll" /\ rxPending
    BY <1>2 DEF RxRead, Mixed
  <2>2. PICK n \in 0 .. Len(fifo) : rxBuf' = rxBuf \o SubSeq(fifo, 1, n) /\ n = 0
    BY <1>2, <2>1, ReadIs
  <2>3. rxBuf' = rxBuf
    <3>1. rxBuf \in Seq(Byte) /\ SubSeq(fifo, 1, 0) = <<>>
      BY DEF TypeInv, TypeOK
    <3> QED
      BY <2>2, <3>1, ConcatEmptySeq
  <2>4. /\ HdrSize <= Len(rxBuf) /\ rxTotal = HdrSize + HeaderLen(rxBuf)
        /\ Len(rxBuf) \in Nat
    BY <2>1 DEF Decoded, TypeInv, TypeOK
  <2>5. rxTotal' = rxTotal
    BY <1>2, <2>3, <2>4 DEF RxRead
  <2>6. podPc' \in {"poll", "packet"} /\ rxPending' = rxPending
    BY <1>2 DEF RxRead
  <2> QED
    BY <1>1, <2>1, <2>3, <2>5, <2>6
<1>3. CASE RxStall \/ RxCopy
  BY <1>1, <1>3 DEF RxStall, RxCopy
<1>4. CASE RxAccept
  <2>1. ~(rxTotal - HdrSize > BufSize)
    BY <1>4 DEF RxAccept, TypeInv, TypeOK, Staged, RxCap
  <2> QED
    BY <1>1, <1>4, <2>1 DEF RxAccept
<1>5. CASE RxPost
  BY <1>5, MixedPost
<1>6. CASE RxTrim
  BY <1>6 DEF RxTrim, Mixed
<1>7. CASE UNCHANGED podVars
  BY <1>1, <1>7 DEF podVars, Mixed
<1>8. ASSUME NEW len \in Lens, HostSend(len) PROVE Mixed' \/ PostsMixed
  BY <1>7, <1>8 DEF HostSend
<1> QED
  BY <1>2, <1>3, <1>4, <1>5, <1>6, <1>7, <1>8
     DEF ReInitNext, Next, LinkNext, PoduleNext, ArcProgress, ResetNext, vars,
         UsbConnect, UsbDeliver, UsbDisconnect, ArcRxCall, ArcRxReady, ArcRxTimeout,
         ArcRxCopy, ArcRxConsume, ArcReset, ModuleInit, ModuleReInit

\* A host that goes away, cable and all, in the middle of a packet: what it had
\* sent of it stays in rx_buf (pipe_poll does nothing about it), is joined to what
\* the next one sends, and posted, whatever the Arc does meanwhile.
THEOREM CutShortIsMixed == ReInitSpec => CutShortIsPosted
<1>1. Init => Decoded /\ CutInv
  BY EmptySeq DEF Init, Decoded, CutInv, InPart
<1>2. ASSUME TypeInv, CutInv, Decoded, [ReInitNext]_vars
      PROVE  /\ UsbDisconnect /\ fifo' = <<>> /\ ~rxPending /\ WholeHeader => Torn'
             /\ Torn => PipeInit \/ Torn' \/ Mixed'
             /\ Mixed => PipeInit \/ Mixed' \/ PostsMixed
  BY <1>2, TornByBreak, TornStep, MixedStep
<1>3. TypeInv /\ CutInv /\ Decoded /\ [ReInitNext]_vars
        => [/\ UsbDisconnect /\ fifo' = <<>> /\ ~rxPending /\ WholeHeader => Torn'
            /\ Torn => PipeInit \/ Torn' \/ Mixed'
            /\ Mixed => \/ PipeInit \/ Mixed'
                        \/ /\ Len(posted') = Len(posted) + 1
                           /\ LET p == posted'[Len(posted')]
                              IN  \E k \in 1 .. Len(p.data) : p.data[k].id # p.cid]_vars
  BY <1>2 DEF PostsMixed
<1> QED
  BY <1>1, <1>3, TypeInit, TypeStepAny, DecodedStep, CutStep, PTL
     DEF ReInitSpec, CutShortIsPosted

-----------------------------------------------------------------------------
(* What the Arc reads *)

\* No packet is empty, nor are the bytes ever taken for an empty one.
NoEmpty == 0 \notin Lens /\ GarbageLen # 0

Sound(s) == \A k \in 1 .. Len(s) : s[k].len # 0

\* No byte on its way belongs to an empty packet.
Stream ==
  /\ Sound(hostQ) /\ Sound(fifo) /\ Sound(rxBuf)
  /\ podPc \in {"packet", "copy", "post"} => rxTotal > HdrSize

\* After the memcpy the RX buffer begins with the payload.
Copied ==
  podPc = "post" =>
    \A k \in 1 .. rxTotal - HdrSize : rxMem[k] = rxBuf[HdrSize + k]

\* The packet posted last, and where it is while its descriptor is READY.
Newest == posted[Len(posted)]

Presented ==
  IF AnyReady
    THEN /\ Len(posted) = Len(received) + 1
         /\ rxDescr[rxLast].cid = Newest.cid
         /\ rxDescr[rxLast].len = Len(Newest.data)
         /\ \A k \in 1 .. Len(Newest.data) : rxMem[k] = Newest.data[k]
    ELSE Len(posted) = Len(received)

\* What the Arc has copied so far is the beginning of the RX buffer.
Reading ==
  arcPc = "read" => /\ Len(arcGot) <= arcDescr.len
                    /\ \A k \in 1 .. Len(arcGot) : arcGot[k] = rxMem[k]

ReadsInv ==
  /\ Stream
  /\ Copied
  /\ Presented
  /\ Reading
  /\ ReadsWhatWasPosted

LEMMA ReadsInit == Init => ReadsInv
<1> SUFFICES ASSUME Init PROVE ReadsInv
  OBVIOUS
<1>1. \A i \in Slots : ~Ready(i)
  BY DEF Init, Ready, NoDescr
<1>2. Len(<<>>) = 0
  OBVIOUS
<1> QED
  BY <1>1, <1>2 DEF Init, ReadsInv, Stream, Sound, Copied, Presented, Reading,
                    ReadsWhatWasPosted, AnyReady

\* The stream alone.
LEMMA StreamStep ==
  ASSUME NoEmpty, TypeInv, Stream, [Next]_vars
  PROVE  Stream'
<1> USE DEF Stream, Sound
<1>0. hostQ \in Seq(Byte) /\ fifo \in Seq(Byte) /\ rxBuf \in Seq(Byte)
  BY DEF TypeInv, TypeOK
<1>1. ASSUME NEW len \in Lens, HostSend(len) PROVE Stream'
  <2> DEFINE b == Bytes(Len(sent) + 1, len)
  <2>1. Len(sent) + 1 \in Nat /\ len \in Nat /\ len # 0
    BY DEF NoEmpty, TypeInv, TypeOK
  <2>2. b \in Seq(Byte) /\ \A k \in 1 .. Len(b) : b[k].len # 0
    BY <2>1, BytesType DEF Bytes
  <2>3. hostQ' = hostQ \o b
    BY <1>1 DEF HostSend
  <2> HIDE DEF b
  <2>4. Sound(hostQ')
    BY <1>0, <2>2, <2>3
  <2> QED
    BY <1>1, <2>4 DEF HostSend, podVars
<1>2. CASE UsbDeliver
  <2>1. PICK n \in 1 .. Len(hostQ) :
          /\ fifo' = fifo \o SubSeq(hostQ, 1, n)
          /\ hostQ' = SubSeq(hostQ, n + 1, Len(hostQ))
    BY <1>2 DEF UsbDeliver
  <2>2. Sound(SubSeq(hostQ, 1, n)) /\ Sound(SubSeq(hostQ, n + 1, Len(hostQ)))
    BY <1>0
  <2>3. SubSeq(hostQ, 1, n) \in Seq(Byte)
    BY <1>0, SplitType
  <2>4. Sound(fifo')
    BY <1>0, <2>1, <2>2, <2>3
  <2> QED
    BY <1>2, <2>1, <2>2, <2>4 DEF UsbDeliver, podVars
<1>3. CASE RxRead
  <2> DEFINE n   == IF RxRoom < Len(fifo) THEN RxRoom ELSE Len(fifo)
             buf == rxBuf \o SubSeq(fifo, 1, n)
  <2>1. n \in 0 .. Len(fifo)
    <3>1. RxRoom \in Nat /\ Len(fifo) \in Nat
      BY DEF RxRoom, RxCap, TypeInv, TypeOK, Staged
    <3> QED
      BY <3>1
  <2>2. /\ rxBuf' = buf
        /\ fifo' = SubSeq(fifo, n + 1, Len(fifo))
        /\ podPc' = "packet" =>
             Len(buf) >= HdrSize /\ rxTotal' = HdrSize + HeaderLen(buf)
        /\ podPc' \in {"packet", "poll"} /\ hostQ' = hostQ
    BY <1>3 DEF RxRead
  <2> HIDE DEF n
  <2>3. /\ SubSeq(fifo, 1, n) \in Seq(Byte)
        /\ Sound(SubSeq(fifo, 1, n)) /\ Sound(SubSeq(fifo, n + 1, Len(fifo)))
    BY <1>0, <2>1, SplitType
  <2>4. buf \in Seq(Byte) /\ Sound(buf)
    BY <1>0, <2>3, SMTT(30)
  <2> HIDE DEF buf
  <2>5. ASSUME Len(buf) >= HdrSize
        PROVE  HeaderLen(buf) \in Nat /\ HeaderLen(buf) # 0
    BY <2>4, <2>5, HeaderLenType DEF HeaderLen, NoEmpty
  <2> QED
    BY <2>2, <2>3, <2>4, <2>5
<1>4. CASE UsbDisconnect \/ RxTrim \/ PipeInit
  <2>1. Len(<<>>) = 0
    OBVIOUS
  <2>2. hostQ' \in {hostQ, <<>>} /\ fifo' \in {fifo, <<>>} /\ rxBuf' \in {rxBuf, <<>>}
    BY <1>4 DEF UsbDisconnect, RxTrim, PipeInit, hostVars, podVars
  <2>3. Sound(hostQ') /\ Sound(fifo') /\ Sound(rxBuf')
    BY <2>1, <2>2
  <2> QED
    BY <1>4, <2>3 DEF UsbDisconnect, RxTrim, PipeInit, hostVars, podVars
<1>5. CASE RxStall \/ RxAccept \/ RxCopy \/ RxPost
  BY <1>5 DEF RxStall, RxAccept, RxCopy, RxPost, hostVars
<1>6. CASE UNCHANGED <<hostQ, fifo, rxBuf, podPc, rxTotal>>
  BY <1>6
<1> QED
  BY <1>1, <1>2, <1>3, <1>4, <1>5, <1>6
     DEF Next, LinkNext, PoduleNext, ArcProgress, ResetNext, vars, hostVars, podVars,
         UsbConnect, ArcRxCall, ArcRxReady, ArcRxTimeout, ArcRxCopy, ArcRxConsume,
         ArcReset, ModuleInit

\* The rest of the invariant, given that the buffer is stable.
LEMMA ReadsStep ==
  ASSUME NoEmpty, TypeInv, HandoverInv, ReadsInv, [Next]_vars
  PROVE  ReadsInv'
<1> USE DEF Ready, AnyReady
<1>0. Stream'
  BY StreamStep DEF ReadsInv
<1>1. /\ rxDescr \in [Slots -> Descr] /\ rxMem \in [1 .. BufSize -> Byte]
      /\ rxHead \in Slots /\ rxTail \in Slots /\ rxLast \in Slots
      /\ rxBuf \in Seq(Byte) /\ rxTotal \in Nat
      /\ arcGot \in Seq(Byte) /\ arcDescr \in Descr
      /\ posted \in Seq([cid : Nat, data : Seq(Byte)])
      /\ received \in Seq([cid : Cid, data : Seq(Byte)])
  BY DEF TypeInv, TypeOK
\* The Arc reads only while a descriptor is READY, when nobody posts.
<1>2. arcPc = "read" => podPc \notin {"copy", "post"}
  BY <1>1 DEF HandoverInv, ArcHolds, NoneWhilePosting
<1>3. ASSUME UNCHANGED <<rxMem, rxDescr, rxLast, posted, received>>,
             podPc' = "post" => UNCHANGED <<podPc, rxTotal, rxBuf>>,
             arcPc' = "read" => UNCHANGED <<arcPc, arcDescr, arcGot>>
      PROVE  ReadsInv'
  <2>1. Copied' /\ Presented' /\ Reading' /\ ReadsWhatWasPosted'
    BY <1>3 DEF ReadsInv, Copied, Presented, Newest, Reading, ReadsWhatWasPosted
  <2> QED
    BY <1>0, <2>1 DEF ReadsInv
<1>4. ASSUME NEW len \in Lens, HostSend(len) PROVE ReadsInv'
  BY <1>3, <1>4 DEF HostSend, podVars, regVars, arcVars
<1>5. CASE UsbConnect \/ UsbDeliver \/ UsbDisconnect \/ RxRead
  BY <1>3, <1>5 DEF UsbConnect, UsbDeliver, UsbDisconnect, RxRead, podVars, regVars,
                    arcVars
<1>6. CASE RxStall \/ RxAccept \/ RxTrim
  BY <1>3, <1>6 DEF RxStall, RxAccept, RxTrim, hostVars, regVars, arcVars
<1>7. CASE RxCopy
  <2>1. ~AnyReady /\ arcPc # "read"
    BY <1>2, <1>7 DEF RxCopy, HandoverInv, NoneWhilePosting
  <2>2. HdrSize <= rxTotal /\ rxTotal <= Len(rxBuf) /\ rxTotal - HdrSize <= BufSize
    BY <1>7 DEF RxCopy, TypeInv, Staged
  <2>3. \A k \in 1 .. rxTotal - HdrSize : rxMem'[k] = rxBuf[HdrSize + k]
    <3> DEFINE data == Payload(rxBuf, rxTotal)
    <3>1. /\ Len(data) = rxTotal - HdrSize
          /\ \A k \in 1 .. rxTotal - HdrSize : data[k] = rxBuf[HdrSize + k]
      BY <1>1, <2>2, PayloadType
    <3>2. rxMem' = [k \in 1 .. BufSize |->
                      IF k <= Len(data) THEN data[k] ELSE rxMem[k]]
      BY <1>7 DEF RxCopy
    <3> HIDE DEF data
    <3>3. ASSUME NEW k \in 1 .. rxTotal - HdrSize
          PROVE  rxMem'[k] = rxBuf[HdrSize + k]
      <4>1. rxTotal - HdrSize \in Nat
        BY <1>1, <2>2
      <4>2. k \in 1 .. BufSize /\ k <= Len(data)
        BY <1>1, <2>2, <3>1, <4>1
      <4>3. rxMem'[k] = data[k]
        BY <3>2, <4>2
      <4> QED
        BY <3>1, <4>3
    <3> QED
      BY <3>3
  <2>4. UNCHANGED <<rxDescr, rxLast, rxTotal, rxBuf, posted, received, arcPc>>
    BY <1>7 DEF RxCopy, arcVars
  <2> QED
    BY <1>0, <2>1, <2>3, <2>4
       DEF ReadsInv, Copied, Presented, Reading, ReadsWhatWasPosted
<1>8. CASE RxPost
  <2> DEFINE p == [cid |-> rxBuf[1].id, data |-> Payload(rxBuf, rxTotal)]
  <2>1. ~AnyReady /\ arcPc # "read" /\ podPc = "post"
    BY <1>2, <1>8 DEF RxPost, HandoverInv, NoneWhilePosting
  <2>2. /\ HdrSize < rxTotal /\ rxTotal <= Len(rxBuf)
        /\ rxTotal - HdrSize \in 1 .. BufSize
    BY <1>1, <2>1 DEF TypeInv, Staged, ReadsInv, Stream
  <2>3. /\ p.data \in Seq(Byte) /\ Len(p.data) = rxTotal - HdrSize
        /\ \A k \in 1 .. rxTotal - HdrSize : rxMem[k] = p.data[k]
    BY <1>1, <2>1, <2>2, PayloadType DEF ReadsInv, Copied
  <2>4. rxBuf[1] \in Byte
    BY <1>1, <2>2
  <2>5. p \in [cid : Nat, data : Seq(Byte)]
    BY <2>3, <2>4 DEF Byte
  <2> HIDE DEF p
  <2>6. posted' = Append(posted, p)
    BY <1>8 DEF RxPost, p
  <2>7. /\ Len(posted') = Len(posted) + 1 /\ posted'[Len(posted')] = p
        /\ \A n \in 1 .. Len(posted) : posted'[n] = posted[n]
    BY <1>1, <2>5, <2>6
  <2>8. MkDescr(rxBuf[1].id, rxTotal - HdrSize)
          = [ready |-> TRUE, cid |-> p.cid, len |-> Len(p.data)]
    <3>1. p.cid = rxBuf[1].id /\ Len(p.data) # 0
      BY <2>2, <2>3 DEF p
    <3>2. ((rxTotal - HdrSize - 1) % BufSize) + 1 = rxTotal - HdrSize
      BY <2>2, SizeExact
    <3> QED
      BY <2>2, <2>3, <3>1, <3>2 DEF MkDescr
  <2>9. /\ rxLast' = rxHead /\ rxDescr'[rxHead].ready
        /\ rxDescr'[rxHead].cid = p.cid /\ rxDescr'[rxHead].len = Len(p.data)
    BY <1>1, <1>8, <2>8 DEF RxPost
  <2>10. podPc' = "trim" /\ UNCHANGED <<rxMem, arcPc, received>>
    BY <1>8 DEF RxPost, arcVars
  <2>11. Presented'
    BY <1>1, <2>1, <2>3, <2>7, <2>9, <2>10 DEF ReadsInv, Presented, Newest
  <2>12. ReadsWhatWasPosted'
    BY <1>1, <2>7, <2>10 DEF ReadsInv, ReadsWhatWasPosted
  <2> QED
    BY <1>0, <2>1, <2>10, <2>11, <2>12 DEF ReadsInv, Copied, Reading
<1>9. CASE PipeInit
  <2>1. Len(<<>>) = 0
    OBVIOUS
  <2>2. \A i \in Slots : ~rxDescr'[i].ready
    BY <1>9 DEF PipeInit, NoDescr
  <2>3. arcPc # "read" /\ podPc' # "post" /\ posted' = <<>> /\ received' = <<>>
        /\ arcPc' = arcPc
    BY <1>9 DEF PipeInit, HandoverInv, ResetWhileOff
  <2> QED
    BY <1>0, <2>1, <2>2, <2>3
       DEF ReadsInv, Copied, Presented, Reading, ReadsWhatWasPosted
<1>10. CASE ArcRxCall \/ ArcRxTimeout \/ ArcReset \/ ModuleInit
  BY <1>3, <1>10 DEF ArcRxCall, ArcRxTimeout, ArcReset, ModuleInit, podVars, regVars
<1>11. CASE ArcRxReady
  <2>1. Len(<<>>) = 0
    OBVIOUS
  <2>2. arcGot' = <<>> /\ arcDescr' \in Descr
        /\ UNCHANGED <<podPc, rxTotal, rxBuf, rxMem, rxDescr, rxLast, posted, received>>
    BY <1>1, <1>11 DEF ArcRxReady, podVars, regVars
  <2> QED
    BY <1>0, <2>1, <2>2
       DEF ReadsInv, Copied, Presented, Newest, Reading, ReadsWhatWasPosted, Descr
<1>12. CASE ArcRxCopy
  <2>1. UNCHANGED <<podPc, rxTotal, rxBuf, rxMem, rxDescr, rxLast, posted, received,
                    arcPc, arcDescr>>
    BY <1>12 DEF ArcRxCopy, podVars, regVars
  <2>2. /\ arcDescr.len \in 1 .. BufSize /\ Len(arcGot) \in Nat
        /\ Len(arcGot) < arcDescr.len
    BY <1>1, <1>12 DEF ArcRxCopy, Descr
  <2>3. rxMem[Len(arcGot) + 1] \in Byte
    BY <1>1, <2>2
  <2>4. arcGot' = Append(arcGot, rxMem[Len(arcGot) + 1])
    BY <1>12 DEF ArcRxCopy
  <2>5. /\ Len(arcGot') = Len(arcGot) + 1
        /\ \A k \in 1 .. Len(arcGot) : arcGot'[k] = arcGot[k]
        /\ arcGot'[Len(arcGot) + 1] = rxMem[Len(arcGot) + 1]
    BY <1>1, <2>3, <2>4, AppendProperties
  <2>6. Reading'
    BY <1>12, <2>1, <2>2, <2>5 DEF ArcRxCopy, ReadsInv, Reading
  <2> QED
    BY <1>0, <2>1, <2>6 DEF ReadsInv, Copied, Presented, Newest, ReadsWhatWasPosted
<1>13. CASE ArcRxConsume
  <2> DEFINE p == Newest
             r == [cid |-> arcDescr.cid, data |-> arcGot]
  <2>1. /\ Ready(rxTail) /\ arcDescr = rxDescr[rxTail] /\ rxTail = rxLast
    BY <1>1, <1>13 DEF ArcRxConsume, HandoverInv, ArcHolds, LastPosted
  <2>2. /\ Len(posted) = Len(received) + 1
        /\ arcDescr.cid = p.cid /\ arcDescr.len = Len(p.data)
        /\ \A k \in 1 .. Len(p.data) : rxMem[k] = p.data[k]
    BY <1>1, <2>1 DEF ReadsInv, Presented
  <2>3. p \in [cid : Nat, data : Seq(Byte)]
    <3>1. Len(posted) \in 1 .. Len(posted)
      BY <1>1, <2>2
    <3> QED
      BY <1>1, <3>1, ElementOfSeq DEF Newest
  <2>4. /\ Len(arcGot) = Len(p.data)
        /\ \A k \in 1 .. Len(arcGot) : arcGot[k] = p.data[k]
    BY <1>13, <2>2 DEF ArcRxConsume, ArcRxCopied, ReadsInv, Reading
  <2>5. p.data \in Seq(Byte)
    BY <2>3
  <2> HIDE DEF p
  <2>6. arcGot = p.data
    BY <1>1, <2>4, <2>5, SeqEqual
  <2>7. r = p
    BY <2>2, <2>3, <2>6
  <2>8. r \in [cid : Cid, data : Seq(Byte)]
    BY <1>1 DEF Descr
  <2> HIDE DEF r
  <2>9. received' = Append(received, r)
    BY <1>13 DEF ArcRxConsume, r
  <2>10. /\ Len(received') = Len(posted)
         /\ \A n \in 1 .. Len(received) : received'[n] = received[n]
         /\ received'[Len(posted)] = posted[Len(posted)]
    BY <1>1, <2>2, <2>7, <2>8, <2>9, AppendProperties DEF p, Newest
  <2>11. \A i \in Slots : ~rxDescr'[i].ready
    <3>1. \A i \in Slots : Ready(i) => i = rxTail
      BY <2>1 DEF HandoverInv, LastPosted
    <3> QED
      BY <1>1, <1>13, <3>1 DEF ArcRxConsume, Descr
  <2>12. arcPc' = "idle" /\ UNCHANGED <<podPc, rxTotal, rxBuf, rxMem, posted>>
    BY <1>13 DEF ArcRxConsume, podVars
  <2>13. Presented' /\ Copied' /\ Reading'
    BY <2>10, <2>11, <2>12 DEF ReadsInv, Presented, Copied, Reading
  <2>14. ReadsWhatWasPosted'
    <3>1. Len(received) \in Nat /\ Len(posted) \in Nat
      BY <1>1
    <3>2. \A n \in 1 .. Len(posted) : n \in 1 .. Len(received) \/ n = Len(posted)
      BY <2>2, <3>1
    <3>3. \A n \in 1 .. Len(received) : received[n] = posted[n]
      BY DEF ReadsInv, ReadsWhatWasPosted
    <3>4. \A n \in 1 .. Len(posted) : received'[n] = posted[n]
      BY <2>10, <3>2, <3>3
    <3> QED
      BY <2>10, <2>12, <3>1, <3>4 DEF ReadsWhatWasPosted
  <2> QED
    BY <1>0, <2>13, <2>14 DEF ReadsInv
<1>14. CASE UNCHANGED vars
  BY <1>3, <1>14 DEF vars, podVars, regVars, arcVars
<1> QED
  BY <1>4, <1>5, <1>6, <1>7, <1>8, <1>9, <1>10, <1>11, <1>12, <1>13, <1>14
     DEF Next, LinkNext, PoduleNext, ArcProgress, ResetNext

\* What the Arc reads is packet by packet what the podule posted, as long as
\* there are no empty packets; with them it is not (RegisterProofs!EmptyIsLongest).
THEOREM ReadsAreFaithful ==
  ASSUME NoEmpty
  PROVE  Spec => []ReadsWhatWasPosted
<1>1. Init => TypeInv /\ HandoverInv /\ ReadsInv
  BY TypeInit, HandoverInit, ReadsInit
<1>2. TypeInv /\ HandoverInv /\ ReadsInv /\ [Next]_vars
        => (TypeInv /\ HandoverInv /\ ReadsInv)'
  BY TypeStep, HandoverStep, ReadsStep, NoEmpty
<1>3. ReadsInv => ReadsWhatWasPosted
  BY DEF ReadsInv
<1> QED
  BY <1>1, <1>2, <1>3, PTL DEF Spec

-----------------------------------------------------------------------------
(* One connection: no fault, and the reliable channel *)

\* The host spaces its packets, and every packet fits the RX buffer.
Orderly == Spaced /\ Lens \subseteq 1 .. BufSize

\* A stretch of a framed packet, from an offset on.
Stretch(s, id, len, from) ==
  \A k \in 1 .. Len(s) : s[k] = [id |-> id, len |-> len, off |-> from + k - 1]

\* Packet n as the host sent it, and its length in a frame.
LenOf(n)    == Len(sent[n].data)
FrameLen(n) == HdrSize + LenOf(n)

\* Packets the podule is done with, and the one that is next.
Dealt == IF podPc = "trim" THEN Len(posted) - 1 ELSE Len(posted)
Cur   == Dealt + 1

\* What was posted is what was sent.
Sent ==
  \A n \in 1 .. Len(sent) : LenOf(n) \in Lens /\ sent[n] = Content(n, LenOf(n))

Posted ==
  /\ Len(posted) <= Len(sent)
  /\ podPc = "trim" => Len(posted) # 0
  /\ \A n \in 1 .. Len(posted) : posted[n] = sent[n]

\* rx_buf begins a packet; behind it at most one more is on its way.
Front ==
  /\ Len(sent) \in Dealt .. Dealt + 2
  /\ Len(sent) = Dealt => Len(rxBuf) = 0 /\ Len(fifo) = 0 /\ Len(hostQ) = 0
  /\ Len(sent) # Dealt => Stretch(rxBuf, Cur, LenOf(Cur), 0)
  /\ Len(sent) = Dealt + 2 => Len(rxBuf) = FrameLen(Cur)

\* Where the packet sent last goes on outside rx_buf.
Start == IF Len(sent) = Cur THEN Len(rxBuf) ELSE 0

\* The FIFO and then the host hold the rest of the packet sent last.
Behind ==
  Len(sent) # Dealt =>
    /\ Stretch(fifo, Len(sent), LenOf(Len(sent)), Start)
    /\ Stretch(hostQ, Len(sent), LenOf(Len(sent)), Start + Len(fifo))
    /\ Start + Len(fifo) + Len(hostQ) = FrameLen(Len(sent))

\* A packet is dealt with when it is all there, and not before.
Whole ==
  /\ podPc # "fault"
  /\ podPc = "poll" /\ ~rxPending /\ Len(sent) # Dealt => Len(rxBuf) < FrameLen(Cur)
  /\ podPc # "poll" \/ rxPending => Len(sent) # Dealt /\ Len(rxBuf) = FrameLen(Cur)
  /\ podPc # "poll" => rxTotal = FrameLen(Cur)

LinkInv == Sent /\ Posted /\ Front /\ Behind /\ Whole

\* A stretch cut in two is two stretches.
LEMMA StretchCut ==
  ASSUME NEW s \in Seq(Byte), NEW id \in Nat, NEW len \in Nat, NEW from \in Nat,
         Stretch(s, id, len, from), NEW n \in 0 .. Len(s)
  PROVE  /\ Stretch(SubSeq(s, 1, n), id, len, from)
         /\ Stretch(SubSeq(s, n + 1, Len(s)), id, len, from + n)
         /\ Len(SubSeq(s, 1, n)) = n /\ Len(SubSeq(s, n + 1, Len(s))) = Len(s) - n
<1>1. /\ Len(SubSeq(s, 1, n)) = n
      /\ \A k \in 1 .. n : SubSeq(s, 1, n)[k] = s[k]
  BY SplitType
<1>2. /\ Len(SubSeq(s, n + 1, Len(s))) = Len(s) - n
      /\ \A k \in 1 .. Len(s) - n : SubSeq(s, n + 1, Len(s))[k] = s[n + k]
  OBVIOUS
<1>3. Stretch(SubSeq(s, 1, n), id, len, from)
  BY <1>1 DEF Stretch
<1>4. ASSUME NEW k \in 1 .. Len(s) - n
      PROVE  s[n + k] = [id |-> id, len |-> len, off |-> (from + n) + k - 1]
  <2>1. n + k \in 1 .. Len(s) /\ from + (n + k) - 1 = (from + n) + k - 1
    OBVIOUS
  <2> QED
    BY <2>1 DEF Stretch
<1>5. Stretch(SubSeq(s, n + 1, Len(s)), id, len, from + n)
  BY <1>2, <1>4 DEF Stretch
<1> QED
  BY <1>1, <1>2, <1>3, <1>5

\* Two that follow each other are one.
LEMMA StretchJoin ==
  ASSUME NEW s \in Seq(Byte), NEW t \in Seq(Byte),
         NEW id \in Nat, NEW len \in Nat, NEW from \in Nat,
         Stretch(s, id, len, from), Stretch(t, id, len, from + Len(s))
  PROVE  /\ Stretch(s \o t, id, len, from) /\ Len(s \o t) = Len(s) + Len(t)
<1>1. /\ Len(s \o t) = Len(s) + Len(t)
      /\ \A k \in 1 .. Len(s) : (s \o t)[k] = s[k]
      /\ \A k \in 1 .. Len(t) : (s \o t)[Len(s) + k] = t[k]
  OBVIOUS
<1>2. ASSUME NEW k \in 1 .. Len(s) + Len(t)
      PROVE  (s \o t)[k] = [id |-> id, len |-> len, off |-> from + k - 1]
  <2>1. CASE k <= Len(s)
    BY <1>1, <2>1 DEF Stretch
  <2>2. CASE k > Len(s)
    <3> DEFINE j == k - Len(s)
    <3>1. j \in 1 .. Len(t) /\ Len(s) + j = k /\ (from + Len(s)) + j - 1 = from + k - 1
      BY <2>2
    <3> HIDE DEF j
    <3> QED
      BY <1>1, <3>1 DEF Stretch
  <2> QED
    BY <2>1, <2>2
<1> QED
  BY <1>1, <1>2 DEF Stretch

\* A stretch as long as the frame is the frame.
LEMMA StretchAll ==
  ASSUME NEW s \in Seq(Byte), NEW id \in Nat, NEW len \in Nat,
         Stretch(s, id, len, 0), Len(s) = HdrSize + len
  PROVE  s = Bytes(id, len)
<1>1. Bytes(id, len) \in Seq(Byte) /\ Len(Bytes(id, len)) = HdrSize + len
  BY BytesType
<1>2. \A k \in 1 .. Len(s) : s[k] = Bytes(id, len)[k]
  BY DEF Stretch, Bytes
<1> QED
  BY <1>1, <1>2, SeqEqual

\* A frame is a stretch of itself.
LEMMA BytesStretch ==
  \A id, len \in Nat : Stretch(Bytes(id, len), id, len, 0)
<1> SUFFICES ASSUME NEW id \in Nat, NEW len \in Nat,
                    NEW k \in 1 .. Len(Bytes(id, len))
             PROVE  Bytes(id, len)[k] = [id |-> id, len |-> len, off |-> 0 + k - 1]
  BY DEF Stretch
<1>1. k \in 1 .. HdrSize + len /\ 0 + k - 1 = k - 1
  BY BytesType
<1> QED
  BY <1>1 DEF Bytes

\* Nothing is a stretch of anything.
LEMMA NoStretch ==
  ASSUME NEW s, Len(s) = 0, NEW id, NEW len, NEW from
  PROVE  Stretch(s, id, len, from)
  BY DEF Stretch

\* The length of a packet survives its framing.
LEMMA ContentLen == \A id, len \in Nat : Len(Content(id, len).data) = len
<1> SUFFICES ASSUME NEW id \in Nat, NEW len \in Nat
             PROVE  Len(Payload(Bytes(id, len), HdrSize + len)) = len
  BY DEF Content
<1>1. /\ HdrSize + len \in Nat /\ HdrSize <= HdrSize + len
      /\ Bytes(id, len) \in Seq(Byte) /\ Len(Bytes(id, len)) = HdrSize + len
  BY BytesType
<1> QED
  BY <1>1, PayloadType

\* Types the rest of this section needs.
LEMMA LinkTypes ==
  ASSUME TypeInv, Orderly, Sent, Posted, Front
  PROVE  /\ hostQ \in Seq(Byte) /\ fifo \in Seq(Byte) /\ rxBuf \in Seq(Byte)
         /\ Len(hostQ) \in Nat /\ Len(fifo) \in Nat /\ Len(rxBuf) \in Nat
         /\ Len(sent) \in Nat /\ Len(posted) \in Nat /\ Dealt \in Nat /\ Cur \in Nat
         /\ rxTotal \in Nat
         /\ \A n \in 1 .. Len(sent) : LenOf(n) \in 1 .. BufSize /\ FrameLen(n) \in Nat
         /\ Len(sent) # Dealt => Cur \in 1 .. Len(sent) /\ Len(sent) \in 1 .. Len(sent)
         /\ Start \in Nat
<1>1. /\ hostQ \in Seq(Byte) /\ fifo \in Seq(Byte) /\ rxBuf \in Seq(Byte)
      /\ Len(hostQ) \in Nat /\ Len(fifo) \in Nat /\ Len(rxBuf) \in Nat
      /\ Len(sent) \in Nat /\ Len(posted) \in Nat /\ rxTotal \in Nat
  BY DEF TypeInv, TypeOK
<1>2. \A n \in 1 .. Len(sent) : LenOf(n) \in 1 .. BufSize
  BY DEF Sent, Orderly
<1>3. \A n \in 1 .. Len(sent) : FrameLen(n) \in Nat
  BY <1>2 DEF FrameLen
<1>4. Dealt \in Nat
  BY <1>1 DEF Dealt, Posted
<1>5. Dealt <= Len(sent)
  BY <1>1, <1>4 DEF Front
<1> QED
  BY <1>1, <1>2, <1>3, <1>4, <1>5 DEF Cur, Start

LEMMA LinkInit == Init => LinkInv
<1> SUFFICES ASSUME Init PROVE LinkInv
  OBVIOUS
<1>1. Len(<<>>) = 0
  OBVIOUS
<1>2. /\ Len(sent) = 0 /\ Len(posted) = 0 /\ Len(rxBuf) = 0 /\ Len(fifo) = 0
      /\ Len(hostQ) = 0 /\ podPc = "poll" /\ ~rxPending
  BY <1>1 DEF Init
<1>3. Dealt = 0
  BY <1>2 DEF Dealt
<1> QED
  BY <1>2, <1>3 DEF LinkInv, Sent, Posted, Front, Behind, Whole

LEMMA LinkStep ==
  ASSUME Orderly, TypeInv, LinkInv, [LinkNext]_vars
  PROVE  LinkInv'
<1>0. /\ hostQ \in Seq(Byte) /\ fifo \in Seq(Byte) /\ rxBuf \in Seq(Byte)
      /\ Len(hostQ) \in Nat /\ Len(fifo) \in Nat /\ Len(rxBuf) \in Nat
      /\ Len(sent) \in Nat /\ Len(posted) \in Nat /\ Dealt \in Nat /\ Cur \in Nat
      /\ rxTotal \in Nat
      /\ \A n \in 1 .. Len(sent) : LenOf(n) \in 1 .. BufSize /\ FrameLen(n) \in Nat
      /\ Len(sent) # Dealt => Cur \in 1 .. Len(sent) /\ Len(sent) \in 1 .. Len(sent)
      /\ Start \in Nat
  BY LinkTypes DEF LinkInv
<1>00. Sent /\ Posted /\ Front /\ Behind /\ Whole
  BY DEF LinkInv
<1>01. Len(sent) # Dealt =>
         /\ Cur \in 1 .. Len(sent) /\ FrameLen(Cur) \in Nat
         /\ FrameLen(Len(sent)) \in Nat
         /\ FrameLen(Cur) > HdrSize /\ FrameLen(Len(sent)) > HdrSize
         /\ FrameLen(Cur) - HdrSize <= BufSize
  <2>1. \A n \in 1 .. Len(sent) : FrameLen(n) > HdrSize /\ FrameLen(n) - HdrSize <= BufSize
    BY <1>0, SMTT(30) DEF FrameLen
  <2> QED
    BY <1>0, <2>1
\* The bytes stay where they are.
<1>1. ASSUME UNCHANGED <<hostQ, fifo, rxBuf, sent>>, Dealt' = Dealt
      PROVE  Sent' /\ Front' /\ Behind' /\ Cur' = Cur /\ FrameLen(Cur)' = FrameLen(Cur)
  <2>1. /\ Cur' = Cur
        /\ \A n : LenOf(n)' = LenOf(n) /\ FrameLen(n)' = FrameLen(n)
    BY <1>1 DEF Cur, LenOf, FrameLen
  <2>2. Start' = Start
    BY <1>1, <2>1 DEF Start
  <2>3. LenOf(Cur)' = LenOf(Cur) /\ FrameLen(Cur)' = FrameLen(Cur)
    BY <1>1, <2>1 DEF LenOf, FrameLen
  <2>4. LenOf(Len(sent))' = LenOf(Len(sent)) /\ FrameLen(Len(sent))' = FrameLen(Len(sent))
    BY <1>1 DEF LenOf, FrameLen
  <2>5. Sent'
    BY <1>00, <1>1, <2>1 DEF Sent
  <2>6. Front'
    BY <1>00, <1>1, <2>1, <2>3 DEF Front
  <2>7. Behind'
    BY <1>00, <1>1, <2>1, <2>2, <2>4 DEF Behind
  <2> QED
    BY <2>1, <2>3, <2>5, <2>6, <2>7
<1>2. ASSUME UNCHANGED <<hostQ, fifo, rxBuf, rxTotal, rxPending, podPc, sent, posted>>
      PROVE  LinkInv'
  <2>1. Dealt' = Dealt
    BY <1>2 DEF Dealt
  <2>2. Posted'
    BY <1>00, <1>2 DEF Posted
  <2>3. Sent' /\ Front' /\ Behind' /\ Cur' = Cur /\ FrameLen(Cur)' = FrameLen(Cur)
    BY <1>1, <1>2, <2>1
  <2>4. Whole'
    BY <1>00, <1>2, <2>1, <2>3 DEF Whole
  <2> QED
    BY <2>2, <2>3, <2>4 DEF LinkInv
<1>3. ASSUME NEW len \in Lens, HostSend(len) PROVE LinkInv'
  <2> DEFINE n == Len(sent) + 1
             b == Bytes(n, len)
  <2>1. /\ len \in 1 .. BufSize /\ n \in Nat /\ len \in Nat
        /\ b \in Seq(Byte) /\ Len(b) = HdrSize + len /\ Stretch(b, n, len, 0)
    <3>1. len \in 1 .. BufSize /\ len \in Nat /\ n \in Nat
      BY <1>0 DEF Orderly
    <3> HIDE DEF n
    <3> QED
      BY <3>1, BytesType, BytesStretch
  <2>2. hostQ = <<>> /\ fifo = <<>> /\ Len(hostQ) = 0 /\ Len(fifo) = 0
    BY <1>3 DEF HostSend, Orderly
  <2>3. /\ hostQ' = hostQ \o b /\ sent' = Append(sent, Content(n, len))
        /\ UNCHANGED <<fifo, rxBuf, rxTotal, rxPending, podPc, posted>>
    BY <1>3 DEF HostSend, podVars
  <2>4. Content(n, len) \in [cid : Nat, data : Seq(Byte)] /\ Len(Content(n, len).data) = len
    BY <2>1, ContentType, ContentLen
  <2> HIDE DEF b, n
  <2>5. hostQ' = b
    BY <2>1, <2>2, <2>3
  <2>6. /\ Len(sent') = n /\ sent'[n] = Content(n, len)
        /\ \A k \in 1 .. Len(sent) : sent'[k] = sent[k]
    <3>1. sent \in Seq([cid : Nat, data : Seq(Byte)])
      BY DEF TypeInv, TypeOK
    <3> QED
      BY <2>3, <2>4, <3>1, AppendProperties DEF n
  <2>7. /\ Len(sent'[n].data) = len
        /\ \A k \in 1 .. Len(sent) : Len(sent'[k].data) = LenOf(k)
    BY <2>4, <2>6 DEF LenOf, FrameLen
  <2>8. Dealt' = Dealt /\ Cur' = Cur
    BY <2>3 DEF Dealt, Cur
  <2>9. Sent'
    <3>1. ASSUME NEW k \in 1 .. Len(sent')
          PROVE  Len(sent'[k].data) \in Lens /\ sent'[k] = Content(k, Len(sent'[k].data))
      <4>1. CASE k \in 1 .. Len(sent)
        BY <1>00, <2>6, <2>7, <4>1 DEF Sent, LenOf
      <4>2. CASE k = n
        BY <1>3, <2>4, <2>6, <4>2
      <4> QED
        BY <1>0, <2>6, <4>1, <4>2 DEF n
    <3> QED
      BY <3>1 DEF Sent, LenOf
  <2>10. Posted'
    <3>1. Len(posted) <= Len(sent') /\ \A k \in 1 .. Len(posted) : k \in 1 .. Len(sent)
      BY <1>0, <1>00, <2>6 DEF Posted, n
    <3> QED
      BY <1>00, <2>3, <2>6, <3>1 DEF Posted
  \* The packet before is whole in rx_buf, or there is none.
  <2>11. Len(sent) # Dealt => Len(sent) = Cur /\ Len(rxBuf) = FrameLen(Cur)
    <3>1. ASSUME Len(sent) # Dealt PROVE Len(sent) = Cur /\ Len(rxBuf) = FrameLen(Cur)
      <4>1. Start + 0 + 0 = FrameLen(Len(sent)) /\ FrameLen(Len(sent)) > 0
        <5>1. Start + Len(fifo) + Len(hostQ) = FrameLen(Len(sent))
          BY <1>00, <3>1 DEF Behind
        <5> QED
          BY <1>01, <2>2, <3>1, <5>1
      <4>2. Start > 0 /\ Start = FrameLen(Len(sent))
        BY <1>0, <4>1
      <4> QED
        BY <4>2 DEF Start
    <3> QED
      BY <3>1
  <2>12. CASE Len(sent) = Dealt
    <3>1. Len(rxBuf) = 0 /\ n = Cur /\ Len(sent') = Cur' /\ Len(sent') # Dealt'
      BY <1>0, <1>00, <2>6, <2>8, <2>12 DEF Front, Cur, n
    <3>2. Start' = 0
      BY <2>3, <3>1 DEF Start
    <3>3. LenOf(Cur)' = len /\ FrameLen(Cur)' = HdrSize + len
      BY <2>4, <2>6, <2>8, <3>1 DEF LenOf, FrameLen
    <3>4. Front'
      BY <1>0, <2>3, <2>6, <2>8, <3>1, <3>3, NoStretch DEF Front, Cur, n
    <3>5. Behind'
      <4>1. LenOf(Len(sent))' = len /\ FrameLen(Len(sent))' = HdrSize + len
        BY <2>4, <2>6 DEF LenOf, FrameLen
      <4>2. Stretch(fifo', n, len, 0)
        BY <2>2, <2>3, NoStretch
      <4> QED
        BY <2>1, <2>2, <2>3, <2>5, <2>6, <3>2, <4>1, <4>2 DEF Behind
    <3>6. Whole'
      BY <1>0, <1>00, <2>1, <2>3, <2>12, <3>1, <3>3 DEF Whole
    <3> QED
      BY <2>9, <2>10, <3>4, <3>5, <3>6 DEF LinkInv
  <2>13. CASE Len(sent) # Dealt
    <3>1. /\ Len(sent) = Cur /\ Len(rxBuf) = FrameLen(Cur) /\ Len(sent') = Dealt' + 2
          /\ Len(sent') # Dealt' /\ Len(sent') # Cur'
      BY <1>0, <2>6, <2>8, <2>11, <2>13, SMTT(30) DEF Cur, n
    <3>2. Start' = 0
      BY <3>1 DEF Start
    <3>3. LenOf(Cur)' = LenOf(Cur) /\ FrameLen(Cur)' = FrameLen(Cur)
      BY <1>0, <2>6, <2>8, <2>13 DEF LenOf, FrameLen
    <3>4. Front'
      BY <1>0, <1>00, <2>3, <2>8, <2>13, <3>1, <3>3 DEF Front
    <3>5. Behind'
      <4>1. LenOf(Len(sent))' = len /\ FrameLen(Len(sent))' = HdrSize + len
        BY <2>4, <2>6 DEF LenOf, FrameLen
      <4>2. Stretch(fifo', n, len, 0)
        BY <2>2, <2>3, NoStretch
      <4> QED
        BY <2>1, <2>2, <2>3, <2>5, <2>6, <3>2, <4>1, <4>2 DEF Behind
    <3>6. Whole'
      BY <1>0, <1>00, <2>3, <2>13, <3>1, <3>3 DEF Whole
    <3> QED
      BY <2>9, <2>10, <3>4, <3>5, <3>6 DEF LinkInv
  <2> QED
    BY <2>12, <2>13
<1>4. CASE UsbDeliver
  <2>1. PICK n \in 1 .. Len(hostQ) :
          /\ fifo' = fifo \o SubSeq(hostQ, 1, n)
          /\ hostQ' = SubSeq(hostQ, n + 1, Len(hostQ))
    BY <1>4 DEF UsbDeliver
  <2>2. UNCHANGED <<rxBuf, rxTotal, rxPending, podPc, sent, posted>>
    BY <1>4 DEF UsbDeliver, podVars
  <2>3. Len(sent) # Dealt /\ n \in 0 .. Len(hostQ)
    BY <1>0, <1>00 DEF Front
  <2> DEFINE s == Len(sent)
             l == LenOf(s)
  <2>4. /\ s \in Nat /\ l \in Nat /\ Start + Len(fifo) \in Nat
        /\ Stretch(fifo, s, l, Start) /\ Stretch(hostQ, s, l, Start + Len(fifo))
        /\ Start + Len(fifo) + Len(hostQ) = FrameLen(s)
    BY <1>0, <1>00, <2>3, SMTT(30) DEF Behind
  <2> HIDE DEF s, l
  <2>5. /\ Stretch(SubSeq(hostQ, 1, n), s, l, Start + Len(fifo))
        /\ Stretch(hostQ', s, l, Start + Len(fifo) + n)
        /\ Len(SubSeq(hostQ, 1, n)) = n /\ Len(hostQ') = Len(hostQ) - n
        /\ SubSeq(hostQ, 1, n) \in Seq(Byte)
    BY <1>0, <2>1, <2>3, <2>4, StretchCut, SplitType
  <2>6. Stretch(fifo', s, l, Start) /\ Len(fifo') = Len(fifo) + n
    BY <1>0, <2>1, <2>4, <2>5, StretchJoin
  <2>7. Dealt' = Dealt /\ Cur' = Cur /\ Start' = Start
    BY <2>2 DEF Dealt, Cur, Start
  <2>8. /\ LenOf(Len(sent))' = l /\ FrameLen(Len(sent))' = FrameLen(s)
        /\ LenOf(Cur)' = LenOf(Cur) /\ FrameLen(Cur)' = FrameLen(Cur)
    BY <2>2, <2>7 DEF LenOf, FrameLen, l, s
  <2>9. Sent' /\ Posted'
    BY <1>00, <2>2 DEF Sent, Posted, LenOf
  <2>10. Front'
    BY <1>00, <2>2, <2>3, <2>7, <2>8 DEF Front
  <2>11. Stretch(hostQ', s, l, Start + Len(fifo')) /\ Start + Len(fifo') + Len(hostQ') = FrameLen(s)
    BY <1>0, <2>3, <2>4, <2>5, <2>6
  <2>12. Behind'
    BY <2>2, <2>6, <2>7, <2>8, <2>11 DEF Behind, s
  <2>13. Whole'
    BY <1>00, <2>2, <2>7, <2>8 DEF Whole
  <2> QED
    BY <2>9, <2>10, <2>12, <2>13 DEF LinkInv
<1>5. CASE RxRead
  <2> DEFINE n   == IF RxRoom < Len(fifo) THEN RxRoom ELSE Len(fifo)
             buf == rxBuf \o SubSeq(fifo, 1, n)
             l   == LenOf(Cur)
  <2>1. RxRoom \in Nat /\ n \in 0 .. Len(fifo)
    <3>1. RxRoom \in Nat
      BY <1>0 DEF RxRoom, RxCap, TypeInv, Staged
    <3> QED
      BY <1>0, <3>1
  <2>2. /\ rxBuf' = buf /\ fifo' = SubSeq(fifo, n + 1, Len(fifo))
        /\ rxTotal' = IF Len(buf) >= HdrSize
                        THEN HdrSize + HeaderLen(buf) ELSE rxTotal
        /\ podPc' = IF Len(buf) >= HdrSize /\ Len(buf) >= rxTotal'
                      THEN "packet" ELSE "poll"
        /\ podPc = "poll" /\ UNCHANGED <<hostQ, sent, rxPending, posted>>
    BY <1>5 DEF RxRead
  <2>3. Len(sent) # Dealt
    <3>1. ASSUME Len(sent) = Dealt PROVE FALSE
      <4>1. fifo = <<>> /\ ~rxPending
        BY <1>0, <1>00, <3>1, EmptySeq DEF Front, Whole
      <4> QED
        BY <1>5, <4>1 DEF RxRead, RxHasWork
    <3> QED
      BY <3>1
  <2>4. /\ l \in Nat /\ l >= 1 /\ Cur \in Nat /\ FrameLen(Cur) = HdrSize + l
        /\ Stretch(rxBuf, Cur, l, 0)
    BY <1>0, <1>00, <2>3, SMTT(30) DEF Front, FrameLen
  <2>5. Dealt' = Dealt /\ Cur' = Cur /\ LenOf(Cur)' = l /\ FrameLen(Cur)' = HdrSize + l
    BY <2>2, <2>4 DEF Dealt, Cur, LenOf, FrameLen
  <2>6. Sent' /\ Posted'
    BY <1>00, <2>2 DEF Sent, Posted, LenOf
  \* The bytes in rx_buf are still a beginning of the packet, and the rest follows.
  <2>7. /\ buf \in Seq(Byte) /\ Stretch(buf, Cur, l, 0) /\ Front' /\ Behind'
        /\ Len(buf) <= HdrSize + l /\ (rxPending => Len(buf) = HdrSize + l)
    <3>1. CASE rxPending
      <4>1. n = 0 /\ Len(rxBuf) = HdrSize + l
        BY <1>0, <1>00, <2>3, <2>4, <3>1 DEF RxRoom, Whole
      <4>2. buf = rxBuf /\ fifo' = fifo
        <5>1. SubSeq(fifo, 1, 0) = <<>> /\ SubSeq(fifo, 0 + 1, Len(fifo)) = fifo
          BY <1>0
        <5>2. rxBuf \o <<>> = rxBuf
          BY <1>0
        <5> QED
          BY <2>2, <4>1, <5>1, <5>2
      <4>3. UNCHANGED <<hostQ, fifo, rxBuf, sent>>
        BY <2>2, <4>2
      <4>4. Front' /\ Behind'
        BY <1>1, <2>5, <4>3
      <4> HIDE DEF buf, n, l
      <4> QED
        BY <1>0, <2>4, <3>1, <4>1, <4>2, <4>4
    <3>2. CASE ~rxPending
      <4>1. Len(rxBuf) < HdrSize + l
        BY <1>00, <2>2, <2>3, <2>4, <3>2 DEF Whole
      <4>2. Len(sent) = Cur
        BY <1>0, <1>00, <2>3, <2>4, <4>1 DEF Front, Cur
      <4>3. /\ Start = Len(rxBuf)
            /\ Stretch(fifo, Cur, l, Len(rxBuf)) /\ Stretch(hostQ, Cur, l, Len(rxBuf) + Len(fifo))
            /\ Len(rxBuf) + Len(fifo) + Len(hostQ) = HdrSize + l
        BY <1>00, <2>3, <2>4, <4>2 DEF Behind, Start
      <4> DEFINE got == SubSeq(fifo, 1, n)
      <4> HIDE DEF n, l
      <4>4. /\ Stretch(got, Cur, l, Len(rxBuf)) /\ Stretch(fifo', Cur, l, Len(rxBuf) + n)
            /\ got \in Seq(Byte) /\ Len(got) = n /\ Len(fifo') = Len(fifo) - n
        BY <1>0, <2>1, <2>2, <2>4, <4>3, StretchCut, SplitType
      <4> HIDE DEF got
      <4>5. Stretch(rxBuf, Cur, l, 0) /\ Stretch(got, Cur, l, 0 + Len(rxBuf))
        BY <1>0, <2>4, <4>4
      <4>6. /\ rxBuf \o got \in Seq(Byte) /\ Stretch(rxBuf \o got, Cur, l, 0)
            /\ Len(rxBuf \o got) = Len(rxBuf) + n
        <5>1. rxBuf \o got \in Seq(Byte)
          BY <1>0, <4>4
        <5>2. 0 \in Nat
          OBVIOUS
        <5>3. Stretch(rxBuf \o got, Cur, l, 0) /\ Len(rxBuf \o got) = Len(rxBuf) + Len(got)
          BY <1>0, <2>4, <4>4, <4>5, <5>2, StretchJoin, Zenon
        <5> QED
          BY <4>4, <5>1, <5>3
      <4>7. buf = rxBuf \o got
        BY DEF got
      <4> HIDE DEF buf
      <4>8. Len(sent') = Cur' /\ Start' = Len(rxBuf) + n /\ Len(sent') = Dealt' + 1
        BY <1>0, <2>2, <2>5, <4>2, <4>6, <4>7 DEF Start, Cur
      <4>9. Front'
        BY <1>0, <2>2, <2>5, <4>6, <4>7, <4>8 DEF Front
      <4>10. /\ Stretch(hostQ', Cur, l, Len(rxBuf) + n + Len(fifo'))
             /\ Len(rxBuf) + n + Len(fifo') + Len(hostQ') = HdrSize + l
        <5>1. Len(rxBuf) + n + Len(fifo') = Len(rxBuf) + Len(fifo)
          BY <1>0, <2>1, <4>4
        <5> QED
          BY <2>2, <4>3, <5>1
      <4>11. LenOf(Len(sent))' = l /\ FrameLen(Len(sent))' = HdrSize + l
        BY <2>2, <2>4, <4>2 DEF LenOf, FrameLen, l
      <4>12. Behind'
        BY <2>5, <4>4, <4>8, <4>10, <4>11 DEF Behind
      <4>13. Len(rxBuf) + n <= HdrSize + l
        BY <1>0, <2>1, <2>4, <4>3
      <4> QED
        BY <3>2, <4>6, <4>7, <4>9, <4>12, <4>13
    <3> QED
      BY <3>1, <3>2
  <2> HIDE DEF buf, n
  <2>8. Len(buf) \in Nat
    BY <2>7
  <2>9. Len(buf) >= HdrSize => rxTotal' = HdrSize + l
    <3>1. ASSUME Len(buf) >= HdrSize PROVE HeaderLen(buf) = l
      <4>1. buf[1] = [id |-> Cur, len |-> l, off |-> 0 + 1 - 1]
        BY <2>7, <2>8, <3>1 DEF Stretch
      <4>2. buf[1].off = 0 /\ buf[1].len = l
        BY <4>1
      <4> QED
        BY <4>2 DEF HeaderLen
    <3> QED
      BY <2>2, <3>1
  <2> HIDE DEF l
  <2>10. Whole'
    <3>1. CASE Len(buf) = HdrSize + l
      <4>1. podPc' = "packet" /\ rxTotal' = HdrSize + l
        BY <2>2, <2>4, <2>9, <3>1
      <4> QED
        BY <2>2, <2>3, <2>5, <3>1, <4>1 DEF Whole
    <3>2. CASE Len(buf) < HdrSize + l
      <4>1. podPc' = "poll" /\ ~rxPending
        BY <2>2, <2>4, <2>7, <2>8, <2>9, <3>2
      <4> QED
        BY <2>2, <2>3, <2>5, <3>2, <4>1 DEF Whole
    <3> QED
      BY <2>4, <2>7, <2>8, <3>1, <3>2
  <2> QED
    BY <2>6, <2>7, <2>10 DEF LinkInv
<1>6. CASE RxStall
  <2>1. /\ podPc = "packet" /\ podPc' = "poll" /\ rxPending'
        /\ UNCHANGED <<hostQ, fifo, rxBuf, sent, posted, rxTotal>>
    BY <1>6 DEF RxStall, hostVars
  <2>2. Dealt' = Dealt
    BY <2>1 DEF Dealt
  <2>3. Sent' /\ Front' /\ Behind' /\ FrameLen(Cur)' = FrameLen(Cur)
    BY <1>1, <2>1, <2>2
  <2>4. Posted'
    BY <1>00, <2>1 DEF Posted
  <2>5. Whole'
    BY <1>00, <2>1, <2>2, <2>3 DEF Whole
  <2> QED
    BY <2>3, <2>4, <2>5 DEF LinkInv
<1>7. CASE RxAccept \/ RxCopy
  <2>1. /\ podPc \in {"packet", "copy"}
        /\ UNCHANGED <<hostQ, fifo, rxBuf, sent, posted, rxTotal, rxPending>>
    BY <1>7 DEF RxAccept, RxCopy, hostVars
  <2>2. Len(sent) # Dealt /\ rxTotal = FrameLen(Cur)
    BY <1>00, <2>1 DEF Whole
  <2>3. rxTotal - HdrSize <= BufSize
    BY <1>01, <2>2
  <2>4. podPc' \in {"copy", "post"}
    <3>1. CASE RxAccept
      <4>1. podPc' = IF rxTotal - HdrSize > BufSize THEN "trim" ELSE "copy"
        BY <3>1 DEF RxAccept
      <4> QED
        BY <1>0, <2>3, <4>1
    <3>2. CASE RxCopy
      BY <3>2 DEF RxCopy
    <3> QED
      BY <1>7, <3>1, <3>2
  <2>5. Dealt' = Dealt
    BY <2>1, <2>4 DEF Dealt
  <2>6. Sent' /\ Front' /\ Behind' /\ FrameLen(Cur)' = FrameLen(Cur)
    BY <1>1, <2>1, <2>5
  <2>7. Posted'
    BY <1>00, <2>1, <2>4 DEF Posted
  <2>8. Whole'
    BY <1>00, <2>1, <2>4, <2>5, <2>6 DEF Whole
  <2> QED
    BY <2>6, <2>7, <2>8 DEF LinkInv
<1>8. CASE RxPost
  <2> DEFINE p == [cid |-> rxBuf[1].id, data |-> Payload(rxBuf, rxTotal)]
             l == LenOf(Cur)
  <2>1. /\ podPc = "post" /\ podPc' = "trim" /\ posted' = Append(posted, p)
        /\ UNCHANGED <<hostQ, fifo, rxBuf, sent, rxTotal, rxPending>>
    BY <1>8 DEF RxPost, hostVars
  <2>2. /\ Len(sent) # Dealt /\ rxTotal = FrameLen(Cur) /\ Len(rxBuf) = FrameLen(Cur)
        /\ FrameLen(Cur) = HdrSize + l /\ l \in Nat
    BY <1>0, <1>00, <2>1, SMTT(30) DEF Whole, FrameLen
  <2>3. rxBuf = Bytes(Cur, l) /\ rxBuf[1] = [id |-> Cur, len |-> l, off |-> 0 + 1 - 1]
    <3>1. Stretch(rxBuf, Cur, l, 0) /\ 1 \in 1 .. Len(rxBuf)
      BY <1>0, <1>00, <2>2 DEF Front
    <3> QED
      BY <1>0, <2>2, <3>1, StretchAll DEF Stretch
  <2>4. p = Content(Cur, l)
    <3>1. rxBuf[1].id = Cur
      BY <2>3
    <3> QED
      BY <2>2, <2>3, <3>1 DEF Content
  <2>5. p = sent[Cur] /\ Cur = Len(posted) + 1 /\ Cur \in 1 .. Len(sent)
    BY <1>0, <1>00, <2>1, <2>2, <2>4 DEF Sent, Dealt, Cur
  <2>6. p \in [cid : Nat, data : Seq(Byte)]
    BY <1>0, <2>2, <2>4, ContentType
  <2> HIDE DEF p
  <2>7. /\ Len(posted') = Len(posted) + 1 /\ posted'[Len(posted) + 1] = p
        /\ \A k \in 1 .. Len(posted) : posted'[k] = posted[k]
    <3>1. posted \in Seq([cid : Nat, data : Seq(Byte)])
      BY DEF TypeInv, TypeOK
    <3> QED
      BY <2>1, <2>6, <3>1, AppendProperties
  <2>8. Dealt' = Dealt
    BY <1>0, <2>1, <2>7 DEF Dealt
  <2>9. Sent' /\ Front' /\ Behind' /\ FrameLen(Cur)' = FrameLen(Cur)
    BY <1>1, <2>1, <2>8
  <2>10. Posted'
    <3>1. \A k \in 1 .. Len(posted') : k \in 1 .. Len(posted) \/ k = Len(posted) + 1
      BY <1>0, <2>7
    <3>2. \A k \in 1 .. Len(posted') : posted'[k] = sent[k]
      BY <1>00, <2>5, <2>7, <3>1 DEF Posted
    <3> QED
      BY <1>0, <2>1, <2>5, <2>7, <3>2, SMTT(30) DEF Posted
  <2>11. Whole'
    BY <1>00, <2>1, <2>2, <2>8, <2>9 DEF Whole
  <2> QED
    BY <2>9, <2>10, <2>11 DEF LinkInv
<1>9. CASE RxTrim
  <2>1. /\ podPc = "trim" /\ rxTotal = FrameLen(Cur) /\ Len(rxBuf) = FrameLen(Cur)
        /\ Len(sent) # Dealt /\ FrameLen(Cur) \in Nat
    BY <1>0, <1>00, <1>9 DEF Whole, RxTrim
  <2>2. /\ podPc' = "poll" /\ rxBuf' = <<>> /\ ~rxPending'
        /\ UNCHANGED <<hostQ, fifo, sent, rxTotal, posted>>
    BY <1>9, <2>1 DEF RxTrim, hostVars
  <2>3. Len(rxBuf') = 0
    BY <2>2
  <2>4. Dealt' = Cur /\ Cur' = Cur + 1
    BY <1>0, <2>1, <2>2 DEF Dealt, Cur
  <2>5. Sent' /\ Posted'
    BY <1>00, <2>2 DEF Sent, Posted, LenOf
  <2>6. CASE Len(sent) = Cur
    <3>1. Len(fifo) = 0 /\ Len(hostQ) = 0
      BY <1>0, <1>00, <2>1, <2>6, SMTT(30) DEF Behind, Start
    <3>2. Front' /\ Behind' /\ Whole'
      BY <1>0, <2>2, <2>3, <2>4, <2>6, <3>1 DEF Front, Behind, Whole
    <3> QED
      BY <2>5, <3>2 DEF LinkInv
  <2>7. CASE Len(sent) # Cur
    <3>1. Len(sent) = Cur + 1 /\ Start = 0
      BY <1>0, <1>00, <2>1, <2>7 DEF Front, Cur, Start
    <3>2. Len(sent') = Cur' /\ Start' = 0 /\ Len(sent') = Dealt' + 1
      BY <2>2, <2>3, <2>4, <3>1 DEF Start
    <3>3. LenOf(Len(sent))' = LenOf(Len(sent)) /\ FrameLen(Len(sent))' = FrameLen(Len(sent))
      BY <2>2 DEF LenOf, FrameLen
    <3>4. Behind'
      BY <1>00, <2>1, <2>2, <3>1, <3>2, <3>3 DEF Behind
    <3>5. FrameLen(Cur)' > 0
      <4>1. FrameLen(Len(sent)) > 0
        BY <1>01, <2>1
      <4>2. Cur' = Len(sent)
        BY <2>4, <3>1
      <4> QED
        BY <2>2, <3>3, <4>1, <4>2 DEF FrameLen, LenOf
    <3>6. Front'
      BY <1>0, <2>3, <2>4, <3>2, NoStretch DEF Front
    <3>7. Whole'
      BY <2>2, <2>3, <3>2, <3>5 DEF Whole
    <3> QED
      BY <2>5, <3>4, <3>6, <3>7 DEF LinkInv
  <2> QED
    BY <2>6, <2>7
<1>10. CASE UsbConnect \/ ArcRxCall \/ ArcRxReady \/ ArcRxTimeout \/ ArcRxCopy \/ ArcRxConsume
            \/ UNCHANGED vars
  BY <1>2, <1>10 DEF UsbConnect, ArcRxCall, ArcRxReady, ArcRxTimeout, ArcRxCopy,
                     ArcRxConsume, vars, hostVars, podVars
<1> QED
  BY <1>3, <1>4, <1>5, <1>6, <1>7, <1>8, <1>9, <1>10
     DEF LinkNext, PoduleNext, ArcProgress

\* With one connection and a host that spaces its packets, core 0 never faults.
THEOREM LinkHasNoFault ==
  ASSUME Orderly
  PROVE  LinkSpec => []NoFault
<1>1. Init => TypeInv /\ LinkInv
  BY TypeInit, LinkInit
<1>2. TypeInv /\ LinkInv /\ [LinkNext]_vars => (TypeInv /\ LinkInv)'
  <2>1. [LinkNext]_vars => [Next]_vars
    BY DEF Next
  <2> QED
    BY <2>1, TypeStep, LinkStep, Orderly
<1>3. LinkInv => NoFault
  BY DEF LinkInv, Whole, NoFault
<1> QED
  BY <1>1, <1>2, <1>3, PTL DEF LinkSpec

AllInv == TypeInv /\ HandoverInv /\ ReadsInv /\ LinkInv

\* A step of the link is one of the channel, or none.
LEMMA ChannelStep ==
  ASSUME Orderly, NoEmpty, AllInv, AllInv', [LinkNext]_vars
  PROVE  [Channel!Next]_<<sent, received>>
<1>1. ASSUME NEW len \in Lens, HostSend(len) PROVE Channel!Send
  <2>1. /\ sent' = Append(sent, Content(Len(sent) + 1, len)) /\ received' = received
        /\ Len(sent) < MaxPackets
    BY <1>1 DEF HostSend, arcVars
  <2>2. Len(sent) + 1 \in 1 .. MaxPackets
    BY <2>1 DEF AllInv, TypeInv, TypeOK
  <2> QED
    BY <2>1, <2>2 DEF Channel!Send
<1>2. CASE ArcRxConsume
  <2> DEFINE r == [cid |-> arcDescr.cid, data |-> arcGot]
  <2>1. /\ received' = Append(received, r) /\ sent' = sent /\ posted' = posted
    BY <1>2 DEF ArcRxConsume, hostVars, podVars
  <2>2. /\ received \in Seq([cid : Cid, data : Seq(Byte)])
        /\ Len(received) \in Nat /\ Len(posted) \in Nat /\ Len(sent) \in Nat
        /\ r \in [cid : Cid, data : Seq(Byte)]
    <3>1. /\ received \in Seq([cid : Cid, data : Seq(Byte)])
          /\ Len(received) \in Nat /\ Len(posted) \in Nat /\ Len(sent) \in Nat
          /\ arcDescr \in Descr /\ arcGot \in Seq(Byte)
      BY SMTT(30) DEF AllInv, TypeInv, TypeOK
    <3>2. arcDescr.cid \in Cid
      BY <3>1 DEF Descr
    <3> QED
      BY <3>1, <3>2
  <2> HIDE DEF r
  <2>3. Len(received') = Len(received) + 1 /\ received'[Len(received) + 1] = r
    BY <2>1, <2>2, AppendProperties
  <2>4. /\ Len(received') <= Len(posted)
        /\ \A n \in 1 .. Len(received') : received'[n] = posted[n]
    BY <2>1 DEF AllInv, ReadsInv, ReadsWhatWasPosted
  <2>5. /\ Len(posted) <= Len(sent)
        /\ \A n \in 1 .. Len(posted) : posted[n] = sent[n]
    BY DEF AllInv, LinkInv, Posted
  <2>6. Len(received) < Len(sent) /\ r = sent[Len(received) + 1]
    <3>1. Len(received) + 1 \in 1 .. Len(received') /\ Len(received) + 1 \in 1 .. Len(posted)
      BY <2>2, <2>3, <2>4
    <3>2. Len(received) + 1 \in 1 .. Len(sent)
      BY <2>2, <2>5, <3>1
    <3>3. r = received'[Len(received) + 1]
      BY <2>3
    <3>4. received'[Len(received) + 1] = posted[Len(received) + 1]
      BY <2>4, <3>1
    <3>5. posted[Len(received) + 1] = sent[Len(received) + 1]
      BY <2>5, <3>1
    <3> QED
      BY <2>2, <3>2, <3>3, <3>4, <3>5
  <2> QED
    BY <2>1, <2>6 DEF Channel!Next, Channel!Deliver
<1>3. CASE UNCHANGED <<sent, received>>
  BY <1>3
<1> QED
  BY <1>1, <1>2, <1>3
     DEF LinkNext, PoduleNext, ArcProgress, Channel!Next, vars, hostVars, arcVars,
         UsbConnect, UsbDeliver, RxRead, RxStall, RxAccept, RxCopy, RxPost, RxTrim,
         ArcRxCall, ArcRxReady, ArcRxTimeout, ArcRxCopy

\* The receive path is the reliable, ordered channel of the README: what the Arc
\* is given are the packets the host sent, whole, once, in order.
THEOREM ChannelImplemented ==
  ASSUME Orderly, NoEmpty
  PROVE  LinkSpec => ImplementsChannel
<1>1. Init => AllInv
  BY TypeInit, HandoverInit, ReadsInit, LinkInit DEF AllInv
<1>2. AllInv /\ [LinkNext]_vars => AllInv'
  <2>1. [LinkNext]_vars => [Next]_vars
    BY DEF Next
  <2> QED
    BY <2>1, TypeStep, HandoverStep, ReadsStep, LinkStep, Orderly, NoEmpty DEF AllInv
<1>3. Init => Channel!Init
  BY DEF Init, Channel!Init
<1>4. AllInv /\ AllInv' /\ [LinkNext]_vars => [Channel!Next]_<<sent, received>>
  BY ChannelStep, Orderly, NoEmpty
<1> QED
  BY <1>1, <1>2, <1>3, <1>4, PTL DEF LinkSpec, ImplementsChannel, Channel!Spec, Channel!vars
=============================================================================
