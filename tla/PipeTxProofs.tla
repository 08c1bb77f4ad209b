---------------------------- MODULE PipeTxProofs ----------------------------
(***************************************************************************)
(* Proofs about PipeTx for every number of descriptors, every buffer,      *)
(* header and FIFO size, every set of packet lengths and every number of   *)
(* packets.  Spec has everything in it; PatientSpec has no timeout of the  *)
(* Arc's, after which the run TxWedge shows the two queue ends apart.      *)
(***************************************************************************)
EXTENDS PipeTx, SequenceTheorems, TLAPS

USE RegsAssumption, TxAssumption

-----------------------------------------------------------------------------
(* Operators *)

\* A queue index stays in the queue.
LEMMA NextSlotType == \A i \in Slots : NextSlot(i) \in Slots
  BY DEF NextSlot, Slots

\* A framed packet is a sequence of bytes.
LEMMA BytesType ==
  \A id, len \in Nat : Bytes(id, len) \in Seq(Byte)
                       /\ Len(Bytes(id, len)) = HdrSize + len
  BY DEF Bytes, Byte

\* Its first byte names it.
LEMMA BytesFirst ==
  \A id, len \in Nat : Bytes(id, len)[1].id = id /\ Bytes(id, len)[1].len = len
  BY DEF Bytes

\* The payload of bytes is bytes, if there are as many as it takes.
LEMMA PayloadType ==
  \A frame \in Seq(Byte), total \in Nat :
    HdrSize <= total /\ total <= Len(frame)
      => /\ Payload(frame, total) \in Seq(Byte)
         /\ Len(Payload(frame, total)) = total - HdrSize
         /\ \A k \in 1 .. total - HdrSize :
              Payload(frame, total)[k] = frame[HdrSize + k]
  BY DEF Payload

\* All of a sequence of bytes is a sequence of bytes.
LEMMA WholeType ==
  \A frame \in Seq(Byte) :
    HdrSize <= Len(frame)
      => /\ Payload(frame, Len(frame)) \in Seq(Byte)
         /\ Len(Payload(frame, Len(frame))) = Len(frame) - HdrSize
         /\ \A k \in 1 .. Len(frame) - HdrSize :
              Payload(frame, Len(frame))[k] = frame[HdrSize + k]
  BY DEF Payload

\* A piece of bytes is bytes.
LEMMA PieceType ==
  \A s \in Seq(Byte) : \A m, n \in Nat :
    m <= n /\ n <= Len(s) => /\ SubSeq(s, m + 1, n) \in Seq(Byte)
                             /\ Len(SubSeq(s, m + 1, n)) = n - m
  OBVIOUS

\* What a command sends is a packet.
LEMMA ContentType ==
  \A id, len \in Nat : Content(id, len) \in [cid : Nat, data : Seq(Byte)]
<1> SUFFICES ASSUME NEW id \in Nat, NEW len \in Nat
             PROVE  Content(id, len) \in [cid : Nat, data : Seq(Byte)]
  OBVIOUS
<1>1. /\ HdrSize + len \in Nat /\ HdrSize <= HdrSize + len
      /\ Bytes(id, len) \in Seq(Byte) /\ Len(Bytes(id, len)) = HdrSize + len
  BY BytesType
<1>2. Payload(Bytes(id, len), HdrSize + len) \in Seq(Byte)
  BY <1>1, PayloadType
<1> QED
  BY <1>2 DEF Content

-----------------------------------------------------------------------------
(* Type correctness *)

\* tx_buf is filled no further than the packet goes, a packet that is sent fits
\* the TX buffer, and the Arc's loop counters stay in their loops.
Staged ==
  /\ podPc # "poll" => ~txOngoing
  /\ podPc = "copy" => /\ podDescr.len < BufSize
                       /\ HdrSize <= Len(txBuf) /\ Len(txBuf) <= TxTotal
  /\ txOngoing => HdrSize < Len(txBuf)
  /\ arcPc = "fill"  => arcK < arcPkt.len
  /\ arcPc = "descr" => arcK \in {0, 1}

TypeInv == TypeOK /\ Staged

LEMMA TypeInit == Init => TypeInv
<1> SUFFICES ASSUME Init PROVE TypeInv
  OBVIOUS
<1>1. NoDescr \in Descr /\ Blank \in Byte /\ 0 \in Slots
  BY DEF NoDescr, Descr, Blank, Byte, Slots
<1>2. [id |-> 0, len |-> 1] \in [id : Nat, len : Lens \cup {1}]
  OBVIOUS
<1>3. \A S : <<>> \in Seq(S) /\ Len(<<>>) = 0
  BY EmptySeq
<1> QED
  BY <1>1, <1>2, <1>3 DEF Init, TypeInv, TypeOK, Staged, PodPcs, ArcPcs

\* What tud_cdc_n_write makes of a packet of which pos bytes have gone.
LEMMA SubmitType ==
  ASSUME TypeInv, NEW pos \in Nat, pos < Len(txBuf), HdrSize < Len(txBuf),
         TxSubmit(pos)
  PROVE  /\ fifo' \in Seq(Byte) /\ Len(fifo') <= FifoSize
         /\ txPos' \in Nat /\ txOngoing' \in BOOLEAN
         /\ podPc' \in {"poll", "load"}
         /\ txOngoing' => podPc' = "poll" /\ txPos' < Len(txBuf)
         /\ podPc' = "load" => ~txOngoing'
         /\ submitted' \in Seq([cid : Nat, data : Seq(Byte)])
<1> DEFINE room == FifoSize - Len(fifo)
           left == Len(txBuf) - pos
           n    == IF room < left THEN room ELSE left
<1>1. /\ txBuf \in Seq(Byte) /\ fifo \in Seq(Byte) /\ Len(fifo) <= FifoSize
      /\ submitted \in Seq([cid : Nat, data : Seq(Byte)])
  BY DEF TypeInv, TypeOK
<1>2. room \in Nat /\ left \in Nat /\ n \in Nat /\ n <= room /\ n <= left
  BY <1>1
<1>3. /\ fifo' = fifo \o SubSeq(txBuf, pos + 1, pos + n)
      /\ txPos' = pos + n
      /\ txOngoing' = (pos + n < Len(txBuf))
      /\ IF txOngoing'
           THEN podPc' = "poll" /\ UNCHANGED submitted
           ELSE /\ podPc' = "load"
                /\ submitted' = Append(submitted,
                     [cid |-> txBuf[1].id, data |-> Payload(txBuf, Len(txBuf))])
  BY DEF TxSubmit
<1> HIDE DEF n
<1>4. /\ SubSeq(txBuf, pos + 1, pos + n) \in Seq(Byte)
      /\ Len(SubSeq(txBuf, pos + 1, pos + n)) = n
  <2>1. pos + n \in Nat /\ pos <= pos + n /\ pos + n <= Len(txBuf)
    BY <1>1, <1>2
  <2> QED
    BY <1>1, <1>2, <2>1, PieceType
<1>5. fifo' \in Seq(Byte) /\ Len(fifo') <= FifoSize
  BY <1>1, <1>2, <1>3, <1>4
<1>6. [cid |-> txBuf[1].id, data |-> Payload(txBuf, Len(txBuf))]
        \in [cid : Nat, data : Seq(Byte)]
  <2>1. txBuf[1] \in Byte /\ Len(txBuf) \in Nat /\ HdrSize <= Len(txBuf)
    BY <1>1
  <2>2. txBuf[1].id \in Nat
    BY <2>1 DEF Byte
  <2>3. Payload(txBuf, Len(txBuf)) \in Seq(Byte)
    BY <1>1, <2>1, WholeType
  <2> QED
    BY <2>2, <2>3
<1>7. submitted' \in Seq([cid : Nat, data : Seq(Byte)])
  <2> DEFINE p == [cid |-> txBuf[1].id, data |-> Payload(txBuf, Len(txBuf))]
  <2>1. submitted' = submitted \/ submitted' = Append(submitted, p)
    BY <1>3
  <2>2. p \in [cid : Nat, data : Seq(Byte)]
    BY <1>6
  <2> HIDE DEF p
  <2>3. Append(submitted, p) \in Seq([cid : Nat, data : Seq(Byte)])
    BY <1>1, <2>2, AppendProperties
  <2>4. CASE submitted' = submitted
    BY <1>1, <2>4
  <2>5. CASE submitted' = Append(submitted, p)
    BY <2>3, <2>5
  <2> QED
    BY <2>1, <2>4, <2>5
<1>8. txPos' \in Nat /\ txOngoing' \in BOOLEAN
  BY <1>2, <1>3
<1>9. podPc' = IF txOngoing' THEN "poll" ELSE "load"
  BY <1>3
<1>10. txOngoing' => txPos' < Len(txBuf)
  BY <1>3
<1> QED
  BY <1>5, <1>7, <1>8, <1>9, <1>10

\* The packet the Arc was called with fits the TX buffer.
LEMMA PktType == TypeOK => /\ arcPkt.id \in Nat
                           /\ arcPkt.len \in 1 .. BufSize /\ arcPkt.len \in Nat
<1> SUFFICES ASSUME TypeOK
             PROVE  /\ arcPkt.id \in Nat
                    /\ arcPkt.len \in 1 .. BufSize /\ arcPkt.len \in Nat
  OBVIOUS
<1>1. arcPkt \in [id : Nat, len : Lens \cup {1}]
  BY DEF TypeOK
<1>2. arcPkt.id \in Nat /\ arcPkt.len \in Lens \cup {1}
  BY <1>1
<1>3. Lens \cup {1} \subseteq 1 .. BufSize
  OBVIOUS
<1>4. arcPkt.len \in 1 .. BufSize
  BY <1>2, <1>3
<1> QED
  BY <1>2, <1>4

LEMMA TypeStep == TypeInv /\ [Next]_vars => TypeInv'
<1> SUFFICES ASSUME TypeInv, [Next]_vars PROVE TypeInv'
  OBVIOUS
<1> USE DEF TypeInv
<1>1. CASE UsbDrain
  <2> DEFINE frame == Append(hostBuf, Head(fifo))
             total == HdrSize + frame[1].len
             p     == [cid |-> frame[1].id, data |-> Payload(frame, total)]
  <2>1. /\ fifo \in Seq(Byte) /\ fifo # <<>> /\ hostBuf \in Seq(Byte)
        /\ delivered \in Seq([cid : Nat, data : Seq(Byte)])
    BY <1>1 DEF UsbDrain, TypeOK
  <2>2. /\ Head(fifo) \in Byte
        /\ Tail(fifo) \in Seq(Byte) /\ Len(Tail(fifo)) <= Len(fifo)
    BY <2>1
  <2>3. frame \in Seq(Byte) /\ frame[1] \in Byte
    BY <2>1, <2>2
  <2>4. /\ fifo' = Tail(fifo)
        /\ IF Len(frame) >= total
             THEN hostBuf' = <<>> /\ delivered' = Append(delivered, p)
             ELSE hostBuf' = frame /\ UNCHANGED delivered
        /\ UNCHANGED <<connected, breaks, podVars, histVars, regVars, resetReq,
                       arcVars>>
    BY <1>1 DEF UsbDrain
  <2> HIDE DEF frame
  <2>5. frame[1].id \in Nat /\ total \in Nat /\ HdrSize <= total
    BY <2>3 DEF Byte
  <2> HIDE DEF total
  <2>6. Len(frame) >= total => p \in [cid : Nat, data : Seq(Byte)]
    BY <2>3, <2>5, PayloadType
  <2> HIDE DEF p
  <2>7. /\ hostBuf' \in Seq(Byte)
        /\ delivered' \in Seq([cid : Nat, data : Seq(Byte)])
    <3>1. CASE Len(frame) >= total
      <4>1. Append(delivered, p) \in Seq([cid : Nat, data : Seq(Byte)])
        BY <2>1, <2>6, <3>1, AppendProperties
      <4> QED
        BY <2>4, <3>1, <4>1, EmptySeq
    <3>2. CASE ~(Len(frame) >= total)
      BY <2>1, <2>3, <2>4, <3>2
    <3> QED
      BY <3>1, <3>2
  <2>8. fifo' \in Seq(Byte) /\ Len(fifo') <= FifoSize
    BY <2>1, <2>2, <2>4 DEF TypeOK
  <2> QED
    BY <2>4, <2>7, <2>8
       DEF TypeOK, Staged, TxTotal, podVars, histVars, regVars, arcVars
<1>2. CASE UsbConnect
  <2>1. hostBuf' \in Seq(Byte)
    BY <1>2, EmptySeq DEF UsbConnect
  <2> QED
    BY <1>2, <2>1
       DEF UsbConnect, TypeOK, Staged, TxTotal, podVars, histVars, regVars, arcVars
<1>3. CASE UsbDisconnect
  <2>1. /\ fifo' \in Seq(Byte) /\ Len(fifo') <= FifoSize
        /\ breaks' \in 0 .. MaxBreaks
    <3>1. <<>> \in Seq(Byte) /\ Len(<<>>) = 0
      BY EmptySeq
    <3>2. /\ fifo' = fifo \/ fifo' = <<>>
          /\ breaks' = breaks + 1 /\ breaks < MaxBreaks
      BY <1>3 DEF UsbDisconnect
    <3>3. /\ fifo \in Seq(Byte) /\ Len(fifo) <= FifoSize
          /\ breaks \in 0 .. MaxBreaks
      BY DEF TypeOK
    <3>4. fifo' \in Seq(Byte) /\ Len(fifo') <= FifoSize
      <4>1. CASE fifo' = fifo
        BY <3>3, <4>1
      <4>2. CASE fifo' = <<>>
        BY <3>1, <4>2
      <4> QED
        BY <3>2, <4>1, <4>2
    <3> QED
      BY <3>2, <3>3, <3>4
  <2> QED
    BY <1>3, <2>1 DEF UsbDisconnect, TypeOK, Staged, TxTotal, hostVars, podVars,
                      histVars, regVars, arcVars
<1>4. CASE TxLook
  <2>1. podDescr' \in Descr /\ podDescr'.cid \in Nat
    BY <1>4 DEF TxLook, TypeOK, Descr
  <2> QED
    BY <1>4, <2>1 DEF TxLook, TypeOK, Staged, PodPcs, hostVars, usbVars, regVars,
                      arcVars
<1>5. CASE TxDrop
  <2>1. podDescr.cid \in Nat
    BY DEF TypeOK, Descr
  <2> QED
    BY <1>5, <2>1 DEF TxDrop, TypeOK, Staged, PodPcs, hostVars, usbVars, regVars,
                      arcVars
<1>6. CASE TxHeader
  <2>1. /\ podDescr.cid \in Nat
        /\ podDescr.len \in 1 .. BufSize /\ podDescr.len \in Nat
    BY DEF TypeOK, Descr
  <2>2. /\ Bytes(podDescr.cid, podDescr.len) \in Seq(Byte)
        /\ Len(Bytes(podDescr.cid, podDescr.len)) = HdrSize + podDescr.len
    BY <2>1, BytesType
  <2>3. txBuf' \in Seq(Byte) /\ Len(txBuf') = HdrSize
    BY <1>6, <2>1, <2>2 DEF TxHeader
  <2>4. podDescr.len < BufSize
    BY <1>6, <2>1 DEF TxHeader, TxOffEnd
  <2>5. Staged'
    <3>1. podDescr' = podDescr /\ podPc' = "copy" /\ ~txOngoing'
      BY <1>6 DEF TxHeader, Staged
    <3>2. HdrSize <= HdrSize + podDescr.len
      BY <2>1
    <3> QED
      BY <1>6, <2>3, <2>4, <3>1, <3>2 DEF TxHeader, Staged, TxTotal, arcVars
  <2>6. podPc' \in PodPcs
    BY <1>6 DEF TxHeader, PodPcs
  <2>7. ~txOngoing
    BY <1>6 DEF TxHeader, Staged
  <2> QED
    BY <1>6, <2>3, <2>5, <2>6, <2>7
       DEF TxHeader, TypeOK, hostVars, usbVars, histVars, regVars, arcVars
<1>7. CASE TxCopy
  <2>1. podDescr.len \in 1 .. BufSize /\ txBuf \in Seq(Byte)
    BY DEF TypeOK, Descr
  <2>2. Len(txBuf) - HdrSize + 1 \in 1 .. BufSize
    BY <1>7, <2>1 DEF TxCopy, Staged, TxTotal
  <2>3. txMem[Len(txBuf) - HdrSize + 1] \in Byte
    BY <2>2 DEF TypeOK
  <2>4. txBuf' \in Seq(Byte) /\ Len(txBuf') = Len(txBuf) + 1
    BY <1>7, <2>1, <2>3, AppendProperties DEF TxCopy
  <2>5. Staged'
    BY <1>7, <2>1, <2>4, SMTT(30) DEF TxCopy, TypeOK, Staged, TxTotal, arcVars
  <2> QED
    BY <1>7, <2>4, <2>5 DEF TxCopy, TypeOK, Staged, hostVars, usbVars, histVars,
                            regVars, arcVars
<1>8. CASE TxFirst
  <2>1. podDescr.len \in 1 .. BufSize /\ txBuf \in Seq(Byte)
    BY DEF TypeOK, Descr
  <2>2. 0 < Len(txBuf) /\ HdrSize < Len(txBuf) /\ 0 \in Nat
    BY <1>8, <2>1 DEF TxFirst, TxTotal
  <2>3. TxSubmit(0)
    BY <1>8 DEF TxFirst
  <2> HIDE DEF TypeInv
  <2>4. /\ fifo' \in Seq(Byte) /\ Len(fifo') <= FifoSize
        /\ txPos' \in Nat /\ txOngoing' \in BOOLEAN
        /\ podPc' \in {"poll", "load"}
        /\ txOngoing' => podPc' = "poll" /\ txPos' < Len(txBuf)
        /\ podPc' = "load" => ~txOngoing'
        /\ submitted' \in Seq([cid : Nat, data : Seq(Byte)])
    BY <2>2, <2>3, SubmitType
  <2> USE DEF TypeInv
  <2> QED
    BY <1>8, <2>2, <2>4 DEF TxFirst, TypeOK, Staged, PodPcs, hostVars, regVars, arcVars
<1>9. CASE TxContinue
  <2>1. /\ txPos \in Nat /\ txPos < Len(txBuf) /\ HdrSize < Len(txBuf)
        /\ TxSubmit(txPos)
    BY <1>9 DEF TxContinue, TypeOK, Staged
  <2> HIDE DEF TypeInv
  <2>2. /\ fifo' \in Seq(Byte) /\ Len(fifo') <= FifoSize
        /\ txPos' \in Nat /\ txOngoing' \in BOOLEAN
        /\ podPc' \in {"poll", "load"}
        /\ txOngoing' => podPc' = "poll" /\ txPos' < Len(txBuf)
        /\ podPc' = "load" => ~txOngoing'
        /\ submitted' \in Seq([cid : Nat, data : Seq(Byte)])
    BY <2>1, SubmitType
  <2> USE DEF TypeInv
  <2> QED
    BY <1>9, <2>1, <2>2
       DEF TxContinue, TypeOK, Staged, PodPcs, hostVars, regVars, arcVars
<1>10. CASE TxAbort
  <2>1. txOngoing' \in BOOLEAN /\ ~txOngoing'
    BY <1>10, Zenon DEF TxAbort
  <2> QED
    BY <1>10, <2>1 DEF TxAbort, TypeOK, Staged, TxTotal, hostVars, usbVars, histVars,
                       regVars, arcVars
<1>11. CASE TxDoneLoad
  <2>1. podDescr' \in Descr
    BY <1>11 DEF TxDoneLoad, TypeOK
  <2> QED
    BY <1>11, <2>1 DEF TxDoneLoad, TypeOK, Staged, PodPcs, hostVars, usbVars, histVars,
                       regVars, arcVars
<1>12. CASE TxDoneStore
  <2>1. [podDescr EXCEPT !.ready = FALSE] \in Descr
    BY DEF TypeOK, Descr
  <2>2. txDescr' \in [Slots -> Descr]
    BY <1>12, <2>1 DEF TxDoneStore, TypeOK
  <2> QED
    BY <1>12, <2>2 DEF TxDoneStore, TypeOK, Staged, PodPcs, hostVars, usbVars, histVars,
                       arcVars
<1>13. CASE TxAdvance
  <2>1. txTail' \in Slots
    BY <1>13, NextSlotType DEF TxAdvance, TypeOK
  <2> QED
    BY <1>13, <2>1 DEF TxAdvance, TypeOK, Staged, PodPcs, hostVars, usbVars, histVars,
                       regVars, arcVars
<1>14. CASE PipeInit
  <2>1. NoDescr \in Descr /\ 0 \in Slots
    BY DEF NoDescr, Descr, Slots
  <2>2. txDescr' \in [Slots -> Descr] /\ txTail' \in Slots
    BY <1>14, <2>1 DEF PipeInit
  <2>3. resetReq' \in BOOLEAN /\ txOngoing' \in BOOLEAN /\ ~txOngoing'
    BY <1>14, Zenon DEF PipeInit
  <2> QED
    BY <1>14, <2>2, <2>3 DEF PipeInit, TypeOK, Staged, hostVars, usbVars, histVars,
                             arcVars
<1>15. ASSUME NEW len \in Lens, ArcTxCall(len) PROVE TypeInv'
  <2>1. Len(asked) + 1 \in Nat /\ len \in Nat /\ 0 < len /\ len \in 1 .. BufSize
    BY DEF TypeOK
  <2>2. Content(Len(asked) + 1, len) \in [cid : Nat, data : Seq(Byte)]
    BY <2>1, ContentType
  <2>3. asked' \in Seq([cid : Nat, data : Seq(Byte)])
    BY <1>15, <2>2, AppendProperties DEF ArcTxCall, TypeOK
  <2>4. arcPkt' \in [id : Nat, len : Lens \cup {1}] /\ arcPkt'.len = len
    BY <1>15, <2>1 DEF ArcTxCall
  <2> QED
    BY <1>15, <2>1, <2>3, <2>4 DEF ArcTxCall, TypeOK, Staged, ArcPcs, TxTotal, hostVars,
                                   usbVars, podVars, histVars, regVars
<1>16. CASE ArcTxFill
  <2>0. /\ arcPkt.id \in Nat
        /\ arcPkt.len \in 1 .. BufSize /\ arcPkt.len \in Nat
    BY PktType
  <2>1. arcK \in 0 .. arcPkt.len - 1
    BY <1>16, <2>0 DEF ArcTxFill, TypeOK, Staged
  <2>2. Bytes(arcPkt.id, arcPkt.len)[HdrSize + arcK + 1] \in Byte
    <3>1. /\ Bytes(arcPkt.id, arcPkt.len) \in Seq(Byte)
          /\ Len(Bytes(arcPkt.id, arcPkt.len)) = HdrSize + arcPkt.len
      BY <2>0, BytesType
    <3>2. HdrSize + arcK + 1 \in 1 .. HdrSize + arcPkt.len
      BY <2>0, <2>1
    <3> QED
      BY <3>1, <3>2
  <2>3. txMem' \in [1 .. BufSize -> Byte]
    BY <1>16, <2>0, <2>1, <2>2 DEF ArcTxFill, TypeOK
  <2>4. arcK' \in 0 .. BufSize - 1 /\ arcPc' \in ArcPcs
    BY <1>16, <2>0, <2>1, SMTT(30) DEF ArcTxFill, TypeOK, ArcPcs
  <2>5. (arcPc' = "fill" => arcK' < arcPkt.len) /\ (arcPc' = "descr" => arcK' = 0)
    BY <1>16, <2>0, <2>1 DEF ArcTxFill
  <2> QED
    BY <1>16, <2>3, <2>4, <2>5 DEF ArcTxFill, TypeOK, Staged, TxTotal, hostVars, usbVars,
                                   podVars, histVars
<1>17. CASE ArcTxStore
  <2>1. arcPkt.id \in Nat /\ arcPkt.len \in 1 .. BufSize
    BY PktType
  <2>2. txDescr' \in [Slots -> Descr]
    <3>1. txDescr[txHead] \in Descr
      BY DEF TypeOK
    <3>2. /\ [txDescr[txHead] EXCEPT !.len = arcPkt.len] \in Descr
          /\ [txDescr[txHead] EXCEPT !.ready = TRUE, !.cid = arcPkt.id] \in Descr
      BY <2>1, <3>1 DEF Descr
    <3> QED
      BY <1>17, <3>2 DEF ArcTxStore, TypeOK
  <2>3. arcK' \in {0, 1} /\ arcPc' \in {"descr", "wait"}
    BY <1>17 DEF ArcTxStore, Staged, DescrStores
  <2> QED
    BY <1>17, <2>2, <2>3 DEF ArcTxStore, TypeOK, Staged, ArcPcs, TxTotal, hostVars,
                             usbVars, podVars, histVars
<1>18. CASE ArcTxSent
  <2>1. txHead' \in Slots /\ reported' \subseteq Nat
    BY <1>18, NextSlotType DEF ArcTxSent, TypeOK
  <2> QED
    BY <1>18, <2>1 DEF ArcTxSent, TypeOK, Staged, ArcPcs, TxTotal, hostVars, usbVars,
                       podVars, histVars, regVars
<1>19. CASE ArcTxTimeout
  BY <1>19 DEF ArcTxTimeout, TypeOK, Staged, ArcPcs, TxTotal, hostVars, usbVars, podVars,
               histVars, regVars
<1>20. CASE ArcReset
  <2>1. resetReq' \in BOOLEAN
    BY <1>20, Zenon DEF ArcReset
  <2> QED
    BY <1>20, <2>1 DEF ArcReset, TypeOK, Staged, ArcPcs, TxTotal, hostVars, usbVars,
                       podVars, histVars, regVars
<1>21. CASE ModuleInit
  <2>1. txHead' \in Slots
    BY <1>21 DEF ModuleInit, Slots
  <2> QED
    BY <1>21, <2>1 DEF ModuleInit, TypeOK, Staged, ArcPcs, TxTotal, hostVars, usbVars,
                       podVars, histVars, regVars
<1>22. CASE UNCHANGED vars
  BY <1>22 DEF vars, TypeOK, Staged, TxTotal, hostVars, usbVars, podVars, histVars,
               regVars, arcVars
<1> QED
  BY <1>1, <1>2, <1>3, <1>4, <1>5, <1>6, <1>7, <1>8, <1>9, <1>10, <1>11, <1>12,
     <1>13, <1>14, <1>15, <1>16, <1>17, <1>18, <1>19, <1>20, <1>21, <1>22
     DEF Next, PatientNext, LinkNext, BreakNext, ResetNext, PoduleNext, ArcStep

\* Every variable keeps its type in every behaviour, and no buffer is overrun.
THEOREM TypeCorrect == Spec => []TypeOK
<1>1. Init => TypeInv
  BY TypeInit
<1>2. TypeInv /\ [Next]_vars => TypeInv'
  BY TypeStep
<1>3. TypeInv => TypeOK
  BY DEF TypeInv
<1> QED
  BY <1>1, <1>2, <1>3, PTL DEF Spec

-----------------------------------------------------------------------------
(* One packet at a time, timeouts included *)

\* Between a reset and the module's start the podule has cleared its side.
ResetKeepsOff == resetReq => arcPc = "off"
ClearWhenOff  == arcPc = "off" /\ ~resetReq => \A i \in Slots : ~Ready(i)

OwnerInv == ResetKeepsOff /\ ClearWhenOff /\ OneOutstanding

LEMMA OwnerStep == TypeInv /\ OwnerInv /\ [Next]_vars => OwnerInv'
<1> SUFFICES ASSUME TypeInv, OwnerInv, [Next]_vars PROVE OwnerInv'
  OBVIOUS
<1> USE DEF OwnerInv, ResetKeepsOff, ClearWhenOff, OneOutstanding, Ready
<1>0. /\ txDescr \in [Slots -> Descr] /\ txTail \in Slots /\ txHead \in Slots
      /\ podDescr \in Descr
  BY DEF TypeInv, TypeOK
\* Nobody but the Arc makes a descriptor READY, and only the one at its head.
<1>1. ASSUME UNCHANGED <<resetReq, arcPc, txHead>>,
             \A i \in Slots : txDescr'[i].ready => txDescr[i].ready
      PROVE  OwnerInv'
  BY <1>1
<1>2. CASE UsbDrain \/ UsbConnect \/ UsbDisconnect
  BY <1>1, <1>2 DEF UsbDrain, UsbConnect, UsbDisconnect, regVars, arcVars
<1>3. CASE TxLook \/ TxDrop \/ TxHeader \/ TxCopy \/ TxFirst \/ TxContinue \/ TxAbort
           \/ TxDoneLoad \/ TxAdvance
  BY <1>1, <1>3 DEF TxLook, TxDrop, TxHeader, TxCopy, TxFirst, TxContinue, TxAbort,
                    TxDoneLoad, TxAdvance, regVars, arcVars
<1>4. CASE TxDoneStore
  <2>1. \A i \in Slots : txDescr'[i].ready => txDescr[i].ready
    BY <1>0, <1>4 DEF TxDoneStore, Descr
  <2> QED
    BY <1>1, <1>4, <2>1 DEF TxDoneStore, arcVars
<1>5. CASE PipeInit
  BY <1>5 DEF PipeInit, NoDescr, arcVars
<1>6. ASSUME NEW len \in Lens, ArcTxCall(len) PROVE OwnerInv'
  BY <1>6 DEF ArcTxCall, regVars
<1>7. CASE ArcTxFill
  BY <1>7 DEF ArcTxFill
<1>8. CASE ArcTxStore
  <2>1. \A i \in Slots : i # txHead => txDescr'[i] = txDescr[i]
    BY <1>0, <1>8 DEF ArcTxStore
  <2>2. UNCHANGED <<resetReq, txHead>> /\ arcPc = "descr" /\ arcPc' # "off"
    BY <1>8 DEF ArcTxStore
  <2> QED
    BY <2>1, <2>2
<1>9. CASE ArcTxSent \/ ArcTxTimeout
  BY <1>0, <1>9 DEF ArcTxSent, ArcTxTimeout, regVars
<1>10. CASE ArcReset
  BY <1>10 DEF ArcReset
<1>11. CASE ModuleInit
  BY <1>11 DEF ModuleInit, regVars
<1>12. CASE UNCHANGED vars
  BY <1>1, <1>12 DEF vars, regVars, arcVars
<1> QED
  BY <1>2, <1>3, <1>4, <1>5, <1>6, <1>7, <1>8, <1>9, <1>10, <1>11, <1>12
     DEF Next, PatientNext, LinkNext, BreakNext, ResetNext, PoduleNext, ArcStep

\* At no moment is more than one packet outstanding, and that one in the slot at
\* the Arc's head, though the Arc gives up, connections break and the Arc resets.
THEOREM OneIsOutstanding == Spec => []OneOutstanding
<1>1. Init => TypeInv /\ OwnerInv
  <2>1. Init => OwnerInv
    BY DEF Init, OwnerInv, ResetKeepsOff, ClearWhenOff, OneOutstanding, Ready, NoDescr
  <2> QED
    BY <2>1, TypeInit
<1>2. TypeInv /\ OwnerInv /\ [Next]_vars => (TypeInv /\ OwnerInv)'
  BY TypeStep, OwnerStep
<1>3. OwnerInv => OneOutstanding
  BY DEF OwnerInv
<1> QED
  BY <1>1, <1>2, <1>3, PTL DEF Spec

-----------------------------------------------------------------------------
(* When the module starts again without a reset, or the queue ends are apart *)

LEMMA TypeStepAny == TypeInv /\ [ReInitNext]_vars => TypeInv'
<1>1. ASSUME TypeInv, ModuleReInit PROVE TypeInv'
  BY <1>1 DEF ModuleReInit, TypeInv, TypeOK, Staged, TxTotal, hostVars, usbVars, podVars,
              histVars, regVars, Slots
<1> QED
  BY <1>1, TypeStep DEF ReInitNext

\* Whatever a start without a reset does to the queue, every variable keeps to its
\* type, and no buffer is overrun.
THEOREM TypeCorrectAnyway == ReInitSpec => []TypeOK
<1>1. TypeInv => TypeOK
  BY DEF TypeInv
<1> QED
  BY <1>1, TypeInit, TypeStepAny, PTL DEF ReInitSpec

LEMMA WedgedStep ==
  ASSUME TypeInv, [ReInitNext]_vars, Wedged, ~ArcReset, ~ModuleReInit
  PROVE  Wedged' /\ UNCHANGED <<histVars, reported>>
<1> USE DEF Ready
<1>0. /\ txDescr \in [Slots -> Descr] /\ txTail \in Slots /\ txHead \in Slots
  BY DEF TypeInv, TypeOK
\* The podule finds nothing to do.
<1>1. CASE PoduleNext \/ PipeInit \/ ModuleInit
  BY <1>1 DEF PoduleNext, TxLook, TxDrop, TxHeader, TxCopy, TxFirst, TxContinue, TxAbort,
              TxDoneLoad, TxDoneStore, TxAdvance, PipeInit, ModuleInit, Wedged
<1>2. CASE UsbDrain \/ UsbConnect \/ UsbDisconnect \/ UNCHANGED vars
  BY <1>2 DEF UsbDrain, UsbConnect, UsbDisconnect, vars, Wedged, podVars, histVars,
              regVars, arcVars
\* The Arc touches its own slot only.
<1>3. ASSUME NEW len \in Lens, ArcTxCall(len)
      PROVE  Wedged' /\ UNCHANGED <<histVars, reported>>
  BY <1>3 DEF ArcTxCall, Wedged, podVars, histVars, regVars
<1>4. CASE ArcTxFill
  BY <1>4 DEF ArcTxFill, Wedged, podVars, histVars
<1>5. CASE ArcTxStore
  <2>1. ~txDescr'[txTail].ready
    BY <1>0, <1>5 DEF ArcTxStore, Wedged
  <2>2. arcPc' = "wait" => txDescr'[txHead].ready
    <3>1. arcPc' = "wait" => ~(arcK + 1 < Len(DescrStores))
      BY <1>5 DEF ArcTxStore
    <3>2. arcK \in {0, 1}
      BY <1>5 DEF ArcTxStore, TypeInv, Staged
    <3>3. Len(DescrStores) = 2 /\ DescrStores[2] = "top"
      BY DEF DescrStores
    <3>4. arcPc' = "wait" => DescrStores[arcK + 1] = "top"
      BY <3>1, <3>2, <3>3
    <3> QED
      BY <1>0, <1>5, <3>4 DEF ArcTxStore, Descr
  <2> QED
    BY <1>5, <2>1, <2>2 DEF ArcTxStore, Wedged, podVars, histVars
<1>6. CASE ArcTxSent \/ ArcTxTimeout
  BY <1>6 DEF ArcTxSent, ArcTxTimeout, Wedged, podVars, histVars, regVars
<1> QED
  BY <1>1, <1>2, <1>3, <1>4, <1>5, <1>6
     DEF ReInitNext, Next, PatientNext, LinkNext, BreakNext, ResetNext, ArcStep

\* A podule that was late once (pipe_packet_tx had given up and kept its head), or a
\* module that started again, leaves the ends apart: from then on every call ends
\* in a timeout and nothing reaches the host, until a reset or another start.
THEOREM WedgeIsForGood == ReInitSpec => WedgedForGood
<1>1. TypeInv /\ [ReInitNext]_vars
        => [Wedged => \/ ArcReset \/ ModuleReInit
                      \/ Wedged' /\ UNCHANGED <<histVars, reported>>]_vars
  BY WedgedStep
<1> QED
  BY <1>1, TypeInit, TypeStepAny, PTL DEF ReInitSpec, WedgedForGood

-----------------------------------------------------------------------------
(* The longest packet *)

\* What is in tx_buf, whole or in part, is short of a full TX buffer.
ShortInv == Len(txBuf) < HdrSize + BufSize /\ LongestNeverGoes

LEMMA ShortSubmit ==
  ASSUME TypeInv, ShortInv, NEW pos \in Nat, pos < Len(txBuf), HdrSize < Len(txBuf),
         TxSubmit(pos), txBuf' = txBuf
  PROVE  ShortInv'
<1>1. PICK data \in Seq(Byte) : /\ data = Payload(txBuf, Len(txBuf))
                               /\ Len(data) = Len(txBuf) - HdrSize
  <2>1. txBuf \in Seq(Byte) /\ HdrSize <= Len(txBuf)
    BY DEF TypeInv, TypeOK
  <2> QED
    BY <2>1, WholeType
<1>2. PICK p : p = [cid |-> txBuf[1].id, data |-> data]
  OBVIOUS
<1>3. Len(p.data) < BufSize
  BY <1>1, <1>2 DEF ShortInv
<1>4. submitted' = submitted \/ submitted' = Append(submitted, p)
  BY <1>1, <1>2 DEF TxSubmit
<1>5. \A n \in 1 .. Len(submitted') : Len(submitted'[n].data) < BufSize
  <2>1. CASE submitted' = submitted
    BY <2>1 DEF ShortInv, LongestNeverGoes
  <2>2. CASE submitted' = Append(submitted, p)
    <3>1. submitted \in Seq([cid : Nat, data : Seq(Byte)])
      BY DEF TypeInv, TypeOK
    <3>2. /\ Len(submitted') = Len(submitted) + 1 /\ Len(submitted) \in Nat
          /\ submitted'[Len(submitted) + 1] = p
          /\ \A n \in 1 .. Len(submitted) : submitted'[n] = submitted[n]
      BY <2>2, <3>1, AppendProperties
    <3>3. ASSUME NEW n \in 1 .. Len(submitted') PROVE Len(submitted'[n].data) < BufSize
      <4>1. CASE n = Len(submitted) + 1
        BY <1>3, <3>2, <4>1
      <4>2. CASE n \in 1 .. Len(submitted)
        <5>1. submitted'[n] = submitted[n]
          BY <3>2, <4>2
        <5>2. Len(submitted[n].data) < BufSize
          BY <4>2 DEF ShortInv, LongestNeverGoes
        <5> QED
          BY <5>1, <5>2
      <4> QED
        BY <3>2, <3>3, <4>1, <4>2
    <3> QED
      BY <3>3
  <2> QED
    BY <1>4, <2>1, <2>2
<1> QED
  BY <1>5 DEF ShortInv, LongestNeverGoes

LEMMA ShortStep == TypeInv /\ ShortInv /\ [ReInitNext]_vars => ShortInv'
<1> SUFFICES ASSUME TypeInv, ShortInv, [ReInitNext]_vars PROVE ShortInv'
  OBVIOUS
<1>1. txBuf \in Seq(Byte) /\ Len(txBuf) \in Nat
  BY DEF TypeInv, TypeOK
<1>2. ASSUME UNCHANGED <<txBuf, submitted>>, ~txOngoing' \/ txOngoing' = txOngoing
      PROVE  ShortInv'
  BY <1>2 DEF ShortInv, LongestNeverGoes
\* tx_buf is filled as far as the length that was looked at.
<1>3. CASE TxHeader
  <2>1. podDescr.len \in Nat /\ podDescr.cid \in Nat
    BY DEF TypeInv, TypeOK, Descr
  <2>2. Len(txBuf') = HdrSize
    <3>1. PICK b \in Seq(Byte) : /\ b = Bytes(podDescr.cid, podDescr.len)
                                /\ Len(b) = HdrSize + podDescr.len
      BY <2>1, BytesType
    <3>2. txBuf' = SubSeq(b, 0 + 1, HdrSize)
      BY <1>3, <3>1 DEF TxHeader
    <3>3. Len(SubSeq(b, 0 + 1, HdrSize)) = HdrSize - 0
      BY <2>1, <3>1, PieceType
    <3> QED
      BY <3>2, <3>3
  <2>3. ~txOngoing
    BY <1>3 DEF TxHeader, TypeInv, Staged
  <2> QED
    BY <1>3, <2>2, <2>3 DEF TxHeader, ShortInv, LongestNeverGoes, histVars
<1>4. CASE TxCopy
  <2>1. podDescr.len \in 1 .. BufSize
    BY DEF TypeInv, TypeOK, Descr
  <2>2. podDescr.len < BufSize /\ HdrSize <= Len(txBuf) /\ ~txOngoing
    BY <1>4 DEF TxCopy, TypeInv, Staged
  <2>3. Len(txBuf) < HdrSize + podDescr.len
    BY <1>4 DEF TxCopy, TxTotal
  <2>4. Len(txBuf) - HdrSize + 1 \in 1 .. BufSize
    BY <1>1, <2>1, <2>2, <2>3
  <2>5. PICK b \in Byte : txBuf' = Append(txBuf, b)
    BY <1>4, <2>4 DEF TxCopy, TypeInv, TypeOK
  <2>6. Len(txBuf') = Len(txBuf) + 1
    BY <1>1, <2>5, AppendProperties
  <2>7. Len(txBuf') < HdrSize + BufSize
    BY <1>1, <2>1, <2>2, <2>3, <2>6
  <2> QED
    BY <1>4, <2>2, <2>7 DEF TxCopy, ShortInv, LongestNeverGoes, histVars
<1>5. CASE TxFirst
  <2>1. podDescr.len \in 1 .. BufSize
    BY DEF TypeInv, TypeOK, Descr
  <2>2. Len(txBuf) = HdrSize + podDescr.len
    BY <1>5 DEF TxFirst, TxTotal
  <2>3. 0 < Len(txBuf) /\ HdrSize < Len(txBuf)
    BY <2>1, <2>2
  <2> QED
    BY <1>5, <2>3, ShortSubmit DEF TxFirst
<1>6. CASE TxContinue
  <2>1. txPos \in Nat /\ txPos < Len(txBuf) /\ HdrSize < Len(txBuf)
    BY <1>6 DEF TxContinue, TypeInv, TypeOK, Staged
  <2> QED
    BY <1>6, <2>1, ShortSubmit DEF TxContinue
<1>7. CASE TxLook \/ TxDrop \/ TxAbort \/ TxDoneLoad \/ TxDoneStore \/ TxAdvance
  BY <1>2, <1>7 DEF TxLook, TxDrop, TxAbort, TxDoneLoad, TxDoneStore, TxAdvance, histVars
<1>8. CASE PipeInit \/ UsbDrain \/ UsbConnect \/ UsbDisconnect
  BY <1>2, <1>8 DEF PipeInit, UsbDrain, UsbConnect, UsbDisconnect, podVars, histVars
<1>9. CASE \/ ArcStep \/ ArcTxTimeout \/ ArcReset \/ ModuleInit \/ ModuleReInit
           \/ \E len \in Lens : ArcTxCall(len)
  BY <1>2, <1>9 DEF ArcStep, ArcTxFill, ArcTxStore, ArcTxSent, ArcTxTimeout, ArcReset,
                    ModuleInit, ModuleReInit, ArcTxCall, podVars, histVars
<1>10. CASE UNCHANGED vars
  BY <1>2, <1>10 DEF vars, podVars, histVars
<1> QED
  BY <1>3, <1>4, <1>5, <1>6, <1>7, <1>8, <1>9, <1>10
     DEF ReInitNext, Next, PatientNext, LinkNext, BreakNext, ResetNext, PoduleNext

\* However a command asks for it, and whatever else happens, a packet of the full
\* length of the TX buffer is not sent, nor any of it.
THEOREM LongestIsDropped == ReInitSpec => []LongestNeverGoes
<1>1. Init => ShortInv
  BY EmptySeq DEF Init, ShortInv, LongestNeverGoes
<1>2. ShortInv => LongestNeverGoes
  BY DEF ShortInv
<1> QED
  BY <1>1, <1>2, TypeInit, TypeStepAny, ShortStep, PTL DEF ReInitSpec

-----------------------------------------------------------------------------
(* The hand-over, with an Arc that waits *)

AnyReady == \E i \in Slots : Ready(i)

\* After pipe_init and until the module starts nothing is going on.
FreshWhenOff ==
  arcPc = "off" /\ ~resetReq =>
    podPc = "poll" /\ ~txOngoing /\ txTail = 0 /\ ~AnyReady

\* One READY descriptor, though the Arc may have been reset over it.
AtMostOne == \A i, j \in Slots : Ready(i) /\ Ready(j) => i = j

\* READY is stored last, and then waited for.
ReadyWaits == AnyReady /\ arcPc # "off" => arcPc = "wait"

\* The podule is at work on a packet.
Sending == podPc \in {"start", "copy"} \/ txOngoing
Working == Sending \/ podPc \in {"load", "store"}

\* Its descriptor is READY until pipe_tx_done takes READY away.
WorkingReady == Working => Ready(txTail)

HandoverInv ==
  /\ ResetKeepsOff
  /\ FreshWhenOff
  /\ AtMostOne
  /\ OneOutstanding
  /\ ReadyWaits
  /\ WorkingReady
  /\ SlotAgreement

LEMMA HandoverInit == Init => HandoverInv
  BY DEF Init, HandoverInv, ResetKeepsOff, FreshWhenOff, AtMostOne, OneOutstanding,
         ReadyWaits, Working, Sending, WorkingReady, SlotAgreement, TailToBe, AnyReady,
         Ready, NoDescr

LEMMA HandoverStep == TypeInv /\ HandoverInv /\ [PatientNext]_vars => HandoverInv'
<1> SUFFICES ASSUME TypeInv, HandoverInv, [PatientNext]_vars PROVE HandoverInv'
  OBVIOUS
<1> USE DEF HandoverInv, ResetKeepsOff, FreshWhenOff, AtMostOne, OneOutstanding,
            ReadyWaits, Working, Sending, WorkingReady, SlotAgreement, TailToBe,
            AnyReady, Ready
<1>0. /\ txDescr \in [Slots -> Descr] /\ txTail \in Slots /\ txHead \in Slots
      /\ podDescr \in Descr
      /\ NextSlot(txTail) \in Slots /\ NextSlot(txHead) \in Slots
  BY NextSlotType DEF TypeInv, TypeOK
\* A step within a packet, or of USB.
<1>1. ASSUME UNCHANGED <<txDescr, txTail, resetReq, arcPc, txHead>>,
             podPc' = "advance" <=> podPc = "advance",
             Working' => Ready(txTail),
             arcPc = "off" /\ ~resetReq => podPc' = "poll" /\ ~txOngoing'
      PROVE  HandoverInv'
  BY <1>0, <1>1
<1>2. CASE UsbDrain \/ UsbConnect \/ UsbDisconnect
  BY <1>1, <1>2 DEF UsbDrain, UsbConnect, UsbDisconnect, podVars, regVars, arcVars
<1>3. CASE TxLook
  BY <1>0, <1>1, <1>3 DEF TxLook, regVars, arcVars
<1>4. CASE TxDrop \/ TxHeader \/ TxCopy \/ TxDoneLoad
  BY <1>1, <1>4 DEF TxDrop, TxHeader, TxCopy, TxDoneLoad, regVars, arcVars
<1>5. CASE TxFirst \/ TxContinue
  <2>1. podPc' \in {"poll", "load"} /\ podPc # "advance"
    BY <1>5 DEF TxFirst, TxContinue, TxSubmit
  <2>2. Ready(txTail)
    BY <1>5 DEF TxFirst, TxContinue
  <2>3. UNCHANGED <<txDescr, txTail, resetReq, arcPc, txHead>>
    BY <1>5 DEF TxFirst, TxContinue, regVars, arcVars
  <2> QED
    BY <1>0, <1>1, <2>1, <2>2, <2>3
<1>6. CASE TxAbort
  BY <1>1, <1>6 DEF TxAbort, regVars, arcVars
<1>7. CASE TxDoneStore
  <2>1. /\ \A i \in Slots : i # txTail => txDescr'[i] = txDescr[i]
        /\ ~txDescr'[txTail].ready
    BY <1>0, <1>7 DEF TxDoneStore, Descr
  <2>2. Ready(txTail) /\ ~AnyReady'
    BY <1>0, <1>7, <2>1 DEF TxDoneStore
  <2>3. arcPc # "off" => arcPc = "wait" /\ txHead = txTail
    BY <1>0, <1>7, <2>2 DEF TxDoneStore
  <2>4. /\ podPc' = "advance" /\ ~txOngoing'
        /\ UNCHANGED <<txTail, txOngoing, resetReq, arcPc, txHead>>
    BY <1>7 DEF TxDoneStore, TypeInv, Staged, arcVars
  <2> QED
    BY <1>0, <1>7, <2>2, <2>3, <2>4 DEF TxDoneStore
<1>8. CASE TxAdvance
  <2>1. /\ podPc = "advance" /\ podPc' = "poll" /\ ~txOngoing /\ ~txOngoing'
        /\ txTail' = NextSlot(txTail)
        /\ UNCHANGED <<txDescr, resetReq, arcPc, txHead>>
    BY <1>8 DEF TxAdvance, TypeInv, Staged, regVars, arcVars
  <2> QED
    BY <1>0, <2>1
<1>9. CASE PipeInit
  BY <1>9 DEF PipeInit, NoDescr, arcVars
<1>10. ASSUME NEW len \in Lens, ArcTxCall(len) PROVE HandoverInv'
  BY <1>10 DEF ArcTxCall, podVars, regVars
<1>11. CASE ArcTxFill
  BY <1>11 DEF ArcTxFill, podVars
<1>12. CASE ArcTxStore
  <2>1. ~AnyReady /\ ~Working /\ arcPc = "descr" /\ arcPc' \in {"descr", "wait"}
        /\ txHead = TailToBe
    BY <1>0, <1>12 DEF ArcTxStore
  <2>2. /\ \A i \in Slots : i # txHead => txDescr'[i] = txDescr[i]
        /\ arcPc' = "descr" => ~txDescr'[txHead].ready
        /\ arcPc' = "wait" => txDescr'[txHead].ready
    <3>1. arcK \in {0, 1}
      BY <2>1 DEF TypeInv, Staged
    <3>2. CASE arcK = 0
      BY <1>0, <1>12, <2>1, <3>2 DEF ArcTxStore, DescrStores, Descr
    <3>3. CASE arcK = 1
      BY <1>0, <1>12, <2>1, <3>3 DEF ArcTxStore, DescrStores, Descr
    <3> QED
      BY <3>1, <3>2, <3>3
  <2>3. UNCHANGED <<podPc, txOngoing, txTail, resetReq, txHead>>
    BY <1>12 DEF ArcTxStore, podVars
  <2> QED
    BY <1>0, <2>1, <2>2, <2>3
<1>13. CASE ArcTxSent
  BY <1>0, <1>13 DEF ArcTxSent, podVars, regVars
<1>14. CASE ArcReset
  BY <1>14 DEF ArcReset, podVars, regVars
<1>15. CASE ModuleInit
  BY <1>15 DEF ModuleInit, podVars, regVars
<1>16. CASE UNCHANGED vars
  BY <1>1, <1>16 DEF vars, podVars, regVars, arcVars
<1> QED
  BY <1>2, <1>3, <1>4, <1>5, <1>6, <1>7, <1>8, <1>9, <1>10, <1>11, <1>12, <1>13,
     <1>14, <1>15, <1>16
     DEF PatientNext, LinkNext, BreakNext, ResetNext, PoduleNext, ArcStep

\* The slot the Arc writes next is the one the podule looks at next, whatever
\* either is in the middle of, with breaks and resets, as long as the Arc waits.
THEOREM SlotsAgree == PatientSpec => []SlotAgreement
<1>1. Init => TypeInv /\ HandoverInv
  BY TypeInit, HandoverInit
<1>2. TypeInv /\ HandoverInv /\ [PatientNext]_vars => (TypeInv /\ HandoverInv)'
  BY TypeStep, HandoverStep DEF Next
<1>3. HandoverInv => SlotAgreement
  BY DEF HandoverInv
<1> QED
  BY <1>1, <1>2, <1>3, PTL DEF PatientSpec

-----------------------------------------------------------------------------
(* What is sent, with an Arc that waits *)

\* The packet the Arc was called with last is the one everything is about.
Current ==
  /\ arcPkt.id = Len(asked)
  /\ Len(asked) > 0 => asked[Len(asked)] = Content(arcPkt.id, arcPkt.len)
  /\ arcPc \in {"fill", "descr", "wait"} \/ AnyReady => Len(asked) > 0
  /\ \A n \in 1 .. Len(asked) : asked[n].cid = n

Packet == Bytes(arcPkt.id, arcPkt.len)

\* It is in the TX buffer before its descriptor is written, and until READY goes.
Filled(n) == \A k \in 1 .. n : txMem[k] = Packet[HdrSize + k]

Filling ==
  /\ arcPc = "fill" => Filled(arcK)
  /\ arcPc = "descr" \/ AnyReady => Filled(arcPkt.len)

\* Its descriptor says so, when READY, and to the podule.
Describes(descr) == descr.cid = arcPkt.id /\ descr.len = arcPkt.len

Described ==
  /\ arcPc = "descr" /\ arcK = 1 => txDescr[txHead].len = arcPkt.len
  /\ \A i \in Slots : Ready(i) => Describes(txDescr[i])
  /\ podPc \in {"start", "copy"} => Describes(podDescr)

\* tx_buf is the beginning of it, then all of it.
Copying ==
  /\ podPc = "copy" \/ txOngoing =>
       \A k \in 1 .. Len(txBuf) : txBuf[k] = Packet[k]
  /\ txOngoing => Len(txBuf) = HdrSize + arcPkt.len

\* It is given to USB only once.
NotYet ==
  arcPc \in {"fill", "descr"} \/ (AnyReady /\ podPc \notin {"load", "store"}) =>
    \A n \in 1 .. Len(submitted) : submitted[n].cid < arcPkt.id

\* READY goes only when it has been dealt with.
Handled == Submitted \cup offline \cup dropped

Answered ==
  /\ podPc \in {"load", "store"} => arcPkt.id \in Handled
  /\ arcPc = "wait" /\ ~Ready(txHead) => arcPkt.id \in Handled

DataInv ==
  /\ Current /\ Filling /\ Described /\ Copying /\ NotYet
  /\ SubmitsWhatWasAsked
  /\ Answered /\ ReportedWasHandled

LEMMA DataInit == Init => DataInv
<1> SUFFICES ASSUME Init PROVE DataInv
  OBVIOUS
<1>1. Len(<<>>) = 0
  OBVIOUS
<1> QED
  BY <1>1 DEF Init, DataInv, Current, Filling, Filled, Described, Describes, Copying,
     NotYet, SubmitsWhatWasAsked, Handled, Submitted, Answered, ReportedWasHandled,
     AnyReady, Ready, NoDescr

\* A packet all of which is in tx_buf is the packet that was asked for.
LEMMA WholePacket ==
  ASSUME TypeInv, DataInv, HdrSize < Len(txBuf),
         Len(txBuf) = HdrSize + arcPkt.len,
         \A k \in 1 .. Len(txBuf) : txBuf[k] = Packet[k]
  PROVE  [cid |-> txBuf[1].id, data |-> Payload(txBuf, Len(txBuf))]
           = Content(arcPkt.id, arcPkt.len)
<1>1. arcPkt.id \in Nat /\ arcPkt.len \in Nat
  BY PktType DEF TypeInv
<1>2. txBuf \in Seq(Byte) /\ Packet \in Seq(Byte) /\ Len(Packet) = Len(txBuf)
  BY <1>1, BytesType DEF TypeInv, TypeOK, Packet
<1>3. txBuf = Packet
  BY <1>2, SeqEqual
<1>4. Packet[1].id = arcPkt.id
  BY <1>1, BytesFirst DEF Packet
<1>5. Payload(txBuf, Len(txBuf)) = Payload(Packet, HdrSize + arcPkt.len)
  BY <1>3
<1> QED
  BY <1>3, <1>4, <1>5 DEF Content, Packet

\* A write of the packet, or of the rest of it, to USB.
LEMMA SubmitStep ==
  ASSUME TypeInv, DataInv, NEW pos \in Nat, TxSubmit(pos),
         pos < Len(txBuf), HdrSize < Len(txBuf),
         Len(txBuf) = HdrSize + arcPkt.len,
         \A k \in 1 .. Len(txBuf) : txBuf[k] = Packet[k],
         AnyReady, podPc \notin {"load", "store"}
  PROVE  \/ /\ podPc' = "poll" /\ txOngoing' /\ UNCHANGED submitted
         \/ /\ podPc' = "load" /\ ~txOngoing'
            /\ submitted' = Append(submitted, asked[Len(asked)])
            /\ asked[Len(asked)].cid = arcPkt.id
            /\ \A n \in 1 .. Len(submitted) : submitted[n].cid < arcPkt.id
<1>1. /\ Len(asked) > 0
      /\ asked[Len(asked)] = Content(arcPkt.id, arcPkt.len)
      /\ asked[Len(asked)].cid = arcPkt.id
  BY DEF DataInv, Current, Content
<1>2. [cid |-> txBuf[1].id, data |-> Payload(txBuf, Len(txBuf))] = asked[Len(asked)]
  BY <1>1, WholePacket
<1>3. \A n \in 1 .. Len(submitted) : submitted[n].cid < arcPkt.id
  BY DEF DataInv, NotYet
<1>4. txOngoing' \in BOOLEAN
  BY SubmitType
<1> QED
  BY <1>1, <1>2, <1>3, <1>4 DEF TxSubmit

LEMMA DataStep ==
  TypeInv /\ HandoverInv /\ DataInv /\ [PatientNext]_vars => DataInv'
<1> SUFFICES ASSUME TypeInv, HandoverInv, DataInv, [PatientNext]_vars PROVE DataInv'
  OBVIOUS
<1> USE DEF Ready, AnyReady
<1>0. /\ txDescr \in [Slots -> Descr] /\ txTail \in Slots /\ txHead \in Slots
      /\ podDescr \in Descr /\ txBuf \in Seq(Byte) /\ txMem \in [1 .. BufSize -> Byte]
      /\ asked \in Seq([cid : Nat, data : Seq(Byte)])
      /\ submitted \in Seq([cid : Nat, data : Seq(Byte)])
      /\ Len(asked) \in Nat /\ Len(submitted) \in Nat
  BY DEF TypeInv, TypeOK
<1>p. /\ arcPkt.id \in Nat /\ arcPkt.id = Len(asked)
      /\ arcPkt.len \in 1 .. BufSize /\ arcPkt.len \in Nat
  BY PktType DEF TypeInv, DataInv, Current
\* While the podule is at work the descriptor is READY, and all of this holds.
<1>w. Working => /\ AnyReady /\ Ready(txTail) /\ Describes(txDescr[txTail])
                 /\ Filled(arcPkt.len)
  BY <1>0 DEF HandoverInv, WorkingReady, DataInv, Described, Filling
<1> DEFINE ArcSide == UNCHANGED <<asked, arcPkt, txMem, txDescr, txHead, arcPc, arcK,
                                  reported>>
\* A step of the podule that leaves registers and what is submitted alone.
<1>1. ASSUME ArcSide, UNCHANGED submitted,
             podPc' \in {"start", "copy"} => Describes(podDescr'),
             Copying',
             podPc' \notin {"load", "store"} => podPc \notin {"load", "store"},
             Handled \subseteq Handled',
             podPc' \in {"load", "store"} => arcPkt.id \in Handled'
      PROVE  DataInv'
  <2>1. Current' /\ Filling'
    BY <1>1 DEF DataInv, Current, Filling, Filled, Packet
  <2>2. Described'
    BY <1>1 DEF DataInv, Described, Describes
  <2>3. NotYet' /\ SubmitsWhatWasAsked'
    BY <1>1 DEF DataInv, NotYet, SubmitsWhatWasAsked
  <2>4. Answered'
    BY <1>1 DEF DataInv, Answered
  <2>5. ReportedWasHandled'
    BY <1>1 DEF DataInv, ReportedWasHandled, Handled
  <2> QED
    BY <1>1, <2>1, <2>2, <2>3, <2>4, <2>5 DEF DataInv
<1>2. ASSUME ArcSide,
             UNCHANGED <<submitted, offline, dropped, podPc, podDescr, txBuf, txOngoing>>
      PROVE  DataInv'
  <2>1. Copying' /\ Handled' = Handled
    BY <1>2 DEF DataInv, Copying, Packet, Handled, Submitted
  <2>2. /\ podPc' \in {"start", "copy"} => Describes(podDescr')
        /\ podPc' \in {"load", "store"} => arcPkt.id \in Handled'
    BY <1>2, <2>1 DEF DataInv, Described, Describes, Answered
  <2> QED
    BY <1>1, <1>2, <2>1, <2>2
<1>3. CASE UsbDrain \/ UsbConnect \/ UsbDisconnect
  BY <1>2, <1>3 DEF UsbDrain, UsbConnect, UsbDisconnect, podVars, histVars, regVars,
                    arcVars
<1>4. CASE TxLook
  <2>1. /\ ArcSide /\ UNCHANGED <<submitted, dropped, txBuf, txOngoing>>
        /\ podPc = "poll" /\ podDescr' = txDescr[txTail] /\ Ready(txTail)
        /\ ~txOngoing /\ podPc' \in {"start", "load"}
        /\ podPc' = "load" => offline' = offline \cup {txDescr[txTail].cid}
        /\ podPc' = "start" => UNCHANGED offline
    BY <1>4 DEF TxLook, regVars, arcVars
  <2>2. Describes(txDescr[txTail])
    BY <1>0, <2>1 DEF DataInv, Described
  <2>3. Describes(podDescr') /\ Copying'
    BY <2>1, <2>2 DEF Describes, Copying
  <2>4. /\ Handled \subseteq Handled'
        /\ podPc' \in {"load", "store"} => arcPkt.id \in Handled'
    BY <2>1, <2>2 DEF Describes, Handled, Submitted
  <2> QED
    BY <1>1, <2>1, <2>3, <2>4
<1>5. CASE TxDrop
  <2>1. /\ ArcSide /\ UNCHANGED <<submitted, offline, txBuf, txOngoing>>
        /\ podPc = "start" /\ podPc' = "load"
        /\ dropped' = dropped \cup {podDescr.cid}
    BY <1>5 DEF TxDrop, regVars, arcVars
  <2>2. Describes(podDescr) /\ ~txOngoing
    BY <2>1 DEF DataInv, Described, TypeInv, Staged
  <2>3. Copying'
    BY <2>1, <2>2 DEF Copying
  <2>4. Handled \subseteq Handled' /\ arcPkt.id \in Handled'
    BY <2>1, <2>2 DEF Describes, Handled, Submitted
  <2> QED
    BY <1>1, <2>1, <2>3, <2>4
<1>6. CASE TxHeader
  <2>1. /\ ArcSide /\ UNCHANGED <<submitted, offline, dropped, podDescr, txOngoing>>
        /\ podPc = "start" /\ podPc' = "copy"
        /\ txBuf' = SubSeq(Bytes(podDescr.cid, podDescr.len), 1, HdrSize)
    BY <1>6 DEF TxHeader, histVars, regVars, arcVars
  <2>2. Describes(podDescr) /\ ~txOngoing
    BY <2>1 DEF DataInv, Described, TypeInv, Staged
  <2>3. txBuf' = SubSeq(Packet, 1, HdrSize)
    BY <2>1, <2>2 DEF Describes, Packet
  <2>4. Packet \in Seq(Byte) /\ Len(Packet) = HdrSize + arcPkt.len
    BY <1>p, BytesType DEF Packet
  <2>5. \A k \in 1 .. Len(txBuf') : txBuf'[k] = Packet[k]
    BY <1>p, <2>3, <2>4
  <2>6. Copying'
    BY <2>1, <2>2, <2>5 DEF Copying, Packet
  <2>7. Describes(podDescr') /\ Handled' = Handled
    BY <2>1, <2>2 DEF Describes, Handled, Submitted
  <2> QED
    BY <1>1, <2>1, <2>6, <2>7
<1>7. CASE TxCopy
  <2> DEFINE k0 == Len(txBuf) + 1
  <2>1. /\ ArcSide /\ UNCHANGED <<submitted, offline, dropped, podDescr, txOngoing, podPc>>
        /\ podPc = "copy"
        /\ Len(txBuf) < TxTotal
        /\ txBuf' = Append(txBuf, txMem[Len(txBuf) - HdrSize + 1])
    BY <1>7 DEF TxCopy, histVars, regVars, arcVars
  <2>2. /\ Describes(podDescr) /\ ~txOngoing /\ HdrSize <= Len(txBuf)
        /\ \A k \in 1 .. Len(txBuf) : txBuf[k] = Packet[k]
    BY <2>1 DEF DataInv, Described, Copying, TypeInv, Staged
  <2>3. Len(txBuf) - HdrSize + 1 \in 1 .. arcPkt.len
    BY <1>0, <1>p, <2>1, <2>2 DEF TxTotal, Describes
  <2>4. txMem[Len(txBuf) - HdrSize + 1] = Packet[k0]
    <3>1. Filled(arcPkt.len)
      BY <1>w, <2>1 DEF Working, Sending
    <3>2. HdrSize + (Len(txBuf) - HdrSize + 1) = k0
      BY <1>0
    <3> QED
      BY <2>3, <3>1, <3>2 DEF Filled
  <2>5. txMem[Len(txBuf) - HdrSize + 1] \in Byte
    BY <1>0, <1>p, <2>3
  <2>6. \A k \in 1 .. Len(txBuf') : txBuf'[k] = Packet[k]
    <3>1. /\ Len(txBuf') = k0 /\ txBuf'[k0] = Packet[k0]
          /\ \A k \in 1 .. Len(txBuf) : txBuf'[k] = txBuf[k]
      BY <1>0, <2>1, <2>4, <2>5, AppendProperties
    <3> SUFFICES ASSUME NEW k \in 1 .. Len(txBuf') PROVE txBuf'[k] = Packet[k]
      OBVIOUS
    <3>2. CASE k = k0
      BY <3>1, <3>2
    <3>3. CASE k # k0
      <4>1. k \in 1 .. Len(txBuf)
        BY <1>0, <3>1, <3>3
      <4> QED
        BY <2>2, <3>1, <4>1
    <3> QED
      BY <3>2, <3>3
  <2>7. Copying'
    BY <2>1, <2>2, <2>6 DEF Copying, Packet
  <2>8. Describes(podDescr') /\ Handled' = Handled
    BY <2>1, <2>2 DEF Describes, Handled, Submitted
  <2> QED
    BY <1>1, <2>1, <2>7, <2>8
<1>8. CASE TxFirst \/ TxContinue
  <2>1. /\ ArcSide /\ UNCHANGED <<offline, dropped, podDescr, txBuf>>
        /\ podPc = "copy" \/ txOngoing
        /\ \E pos \in {0, txPos} : TxSubmit(pos) /\ pos < Len(txBuf) /\ pos \in Nat
        /\ HdrSize < Len(txBuf) /\ Len(txBuf) = HdrSize + arcPkt.len
        /\ podPc \notin {"load", "store"}
    <3>1. CASE TxFirst
      <4>1. Describes(podDescr) /\ podDescr.len \in Nat
        BY <1>0, <3>1 DEF TxFirst, DataInv, Described, Descr
      <4> QED
        BY <1>0, <1>p, <3>1, <4>1 DEF TxFirst, TxTotal, Describes, regVars, arcVars
    <3>2. CASE TxContinue
      BY <3>2 DEF TxContinue, TypeInv, TypeOK, Staged, DataInv, Copying, regVars, arcVars
    <3> QED
      BY <1>8, <3>1, <3>2
  <2>2. /\ \A k \in 1 .. Len(txBuf) : txBuf[k] = Packet[k]
        /\ AnyReady
    BY <1>w, <2>1 DEF DataInv, Copying, Working, Sending
  <2>3. \/ podPc' = "poll" /\ txOngoing' /\ UNCHANGED submitted
        \/ /\ podPc' = "load" /\ ~txOngoing'
           /\ submitted' = Append(submitted, asked[Len(asked)])
           /\ asked[Len(asked)].cid = arcPkt.id
           /\ \A n \in 1 .. Len(submitted) : submitted[n].cid < arcPkt.id
    BY <2>1, <2>2, SubmitStep
  <2>4. Copying'
    BY <2>1, <2>2, <2>3 DEF Copying, Packet
  <2>5. CASE podPc' = "poll" /\ txOngoing' /\ UNCHANGED submitted
    <3>1. Handled' = Handled
      BY <2>1, <2>5 DEF Handled, Submitted
    <3> QED
      BY <1>1, <2>1, <2>4, <2>5, <3>1
  <2>6. CASE /\ podPc' = "load" /\ ~txOngoing'
             /\ submitted' = Append(submitted, asked[Len(asked)])
             /\ asked[Len(asked)].cid = arcPkt.id
             /\ \A n \in 1 .. Len(submitted) : submitted[n].cid < arcPkt.id
    <3> DEFINE m == Len(submitted) + 1
    <3>1. Len(asked) > 0 /\ Len(asked) \in 1 .. Len(asked)
      BY <1>0, <2>2 DEF DataInv, Current
    <3>2. asked[Len(asked)] \in [cid : Nat, data : Seq(Byte)]
      BY <1>0, <3>1, ElementOfSeq
    <3>3. /\ Len(submitted') = m /\ submitted'[m] = asked[Len(asked)]
          /\ \A n \in 1 .. Len(submitted) : submitted'[n] = submitted[n]
      BY <1>0, <2>6, <3>2, AppendProperties
    <3>4. SubmitsWhatWasAsked'
      <4>1. \A n \in 1 .. Len(submitted') :
              /\ submitted'[n].cid \in 1 .. Len(asked)
              /\ submitted'[n] = asked[submitted'[n].cid]
        BY <1>0, <1>p, <2>6, <3>1, <3>3, SMTT(30) DEF DataInv, SubmitsWhatWasAsked
      <4>2. \A i, n \in 1 .. Len(submitted') :
              i < n => submitted'[i].cid < submitted'[n].cid
        <5> SUFFICES ASSUME NEW i \in 1 .. Len(submitted'),
                            NEW n \in 1 .. Len(submitted'), i < n
                     PROVE  submitted'[i].cid < submitted'[n].cid
          OBVIOUS
        <5>1. i \in 1 .. Len(submitted) /\ submitted'[i] = submitted[i]
          BY <1>0, <3>3, SMTT(30)
        <5>2. CASE n = m
          BY <2>6, <3>3, <5>1, <5>2
        <5>3. CASE n # m
          <6>1. Len(submitted) \in Nat /\ n \in 1 .. Len(submitted) + 1
            BY <1>0, <3>3
          <6>2. n \in 1 .. Len(submitted)
            BY <5>3, <6>1
          <6>3. submitted'[n] = submitted[n]
            BY <3>3, <6>2
          <6> QED
            BY <5>1, <6>2, <6>3 DEF DataInv, SubmitsWhatWasAsked
        <5> QED
          BY <5>2, <5>3
      <4> QED
        BY <2>1, <4>1, <4>2 DEF SubmitsWhatWasAsked
    <3>5. Handled \subseteq Handled' /\ arcPkt.id \in Handled'
      <4>1. Submitted \subseteq Submitted'
        <5>1. Len(submitted) \in Nat /\ Len(submitted') = Len(submitted) + 1
          BY <1>0, <3>3
        <5>2. \A n \in 1 .. Len(submitted) :
                n \in 1 .. Len(submitted') /\ submitted'[n].cid = submitted[n].cid
          BY <3>3, <5>1
        <5> QED
          BY <5>2 DEF Submitted
      <4>2. m \in 1 .. Len(submitted') /\ submitted'[m].cid = arcPkt.id
        BY <1>0, <2>6, <3>3
      <4>3. arcPkt.id \in Submitted'
        BY <4>2 DEF Submitted
      <4> QED
        BY <2>1, <4>1, <4>3 DEF Handled
    <3>6. Current' /\ Filling' /\ Described'
      BY <2>1, <2>6 DEF DataInv, Current, Filling, Filled, Packet, Described, Describes
    <3>7. NotYet'
      <4>1. arcPc \notin {"fill", "descr"}
        BY <1>0, <1>w, <2>1 DEF HandoverInv, ReadyWaits, Working, Sending
      <4> QED
        BY <2>1, <2>6, <4>1 DEF NotYet
    <3>8. Answered' /\ ReportedWasHandled'
      BY <2>1, <3>5 DEF DataInv, Answered, ReportedWasHandled, Handled
    <3> QED
      BY <2>4, <3>4, <3>6, <3>7, <3>8 DEF DataInv
  <2> QED
    BY <2>3, <2>5, <2>6
<1>9. CASE TxAbort \/ TxDoneLoad \/ TxAdvance
  <2>1. /\ ArcSide /\ UNCHANGED <<submitted, offline, dropped, txBuf>>
        /\ txOngoing' => txOngoing
        /\ podPc' \notin {"start", "copy"}
        /\ podPc' \in {"load", "store"} <=> podPc \in {"load", "store"}
    BY <1>9 DEF TxAbort, TxDoneLoad, TxAdvance, histVars, regVars, arcVars
  <2>2. Copying' /\ Handled' = Handled
    BY <2>1 DEF DataInv, Copying, Packet, Handled, Submitted
  <2> QED
    BY <1>1, <2>1, <2>2 DEF DataInv, Answered
<1>10. CASE TxDoneStore
  <2>1. /\ UNCHANGED <<asked, arcPkt, txMem, txHead, arcPc, arcK, reported, submitted,
                       offline, dropped, txBuf, txOngoing>>
        /\ podPc = "store" /\ podPc' = "advance"
        /\ \A i \in Slots : i # txTail => txDescr'[i] = txDescr[i]
        /\ ~txDescr'[txTail].ready
    BY <1>0, <1>10 DEF TxDoneStore, histVars, arcVars, Descr
  <2>2. Ready(txTail) /\ ~AnyReady' /\ arcPkt.id \in Handled /\ ~txOngoing
    BY <1>0, <2>1 DEF HandoverInv, WorkingReady, Working, AtMostOne, DataInv, Answered,
                      TypeInv, Staged
  <2>3. arcPc \notin {"fill", "descr"}
    BY <1>0, <2>2 DEF HandoverInv, ReadyWaits
  <2>4. Current' /\ Filling' /\ Described' /\ Copying' /\ NotYet'
    BY <2>1, <2>2, <2>3 DEF DataInv, Current, Filling, Described, Copying, NotYet
  <2>5. SubmitsWhatWasAsked' /\ Handled' = Handled
    BY <2>1 DEF DataInv, SubmitsWhatWasAsked, Handled, Submitted
  <2>6. Answered' /\ ReportedWasHandled'
    BY <2>1, <2>2, <2>5 DEF DataInv, Answered, ReportedWasHandled, Handled
  <2> QED
    BY <2>4, <2>5, <2>6 DEF DataInv
<1>11. CASE PipeInit
  <2>1. /\ UNCHANGED <<asked, arcPkt, txMem, txHead, arcPc, arcK, reported, submitted,
                       offline, dropped, txBuf, podPc>>
        /\ podPc = "poll" /\ ~txOngoing' /\ ~AnyReady' /\ arcPc = "off"
    BY <1>11 DEF PipeInit, NoDescr, histVars, arcVars, HandoverInv, ResetKeepsOff
  <2>2. Current' /\ Filling' /\ Described' /\ Copying' /\ NotYet'
    BY <2>1 DEF DataInv, Current, Filling, Described, Copying, NotYet
  <2>3. SubmitsWhatWasAsked' /\ Handled' = Handled
    BY <2>1 DEF DataInv, SubmitsWhatWasAsked, Handled, Submitted
  <2> QED
    BY <2>1, <2>2, <2>3 DEF DataInv, Answered, ReportedWasHandled, Handled
<1>12. ASSUME NEW len \in Lens, ArcTxCall(len) PROVE DataInv'
  <2> DEFINE n0 == Len(asked) + 1
             p  == Content(n0, len)
  <2>1. /\ UNCHANGED <<txMem, txDescr, txHead, reported, submitted, offline, dropped,
                       podPc, podDescr, txBuf, txOngoing>>
        /\ arcPc = "idle" /\ arcPc' = "fill" /\ arcK' = 0
        /\ arcPkt' = [id |-> n0, len |-> len] /\ asked' = Append(asked, p)
    BY <1>12 DEF ArcTxCall, podVars, histVars, regVars
  <2>2. ~AnyReady /\ ~Working
    BY <1>w, <2>1 DEF HandoverInv, ReadyWaits
  <2>3. n0 \in Nat /\ len \in Nat
    BY <1>0
  <2>4. p \in [cid : Nat, data : Seq(Byte)] /\ p.cid = n0
    BY <2>3, ContentType DEF Content
  <2>5. /\ Len(asked') = n0 /\ asked'[n0] = p
        /\ \A n \in 1 .. Len(asked) : asked'[n] = asked[n]
    BY <1>0, <2>1, <2>4, AppendProperties
  <2> HIDE DEF p
  <2>6. Current'
    <3>1. ASSUME NEW n \in 1 .. Len(asked') PROVE asked'[n].cid = n
      <4>1. CASE n = n0
        BY <2>4, <2>5, <4>1
      <4>2. CASE n # n0
        <5>1. n \in 1 .. Len(asked) /\ asked'[n] = asked[n]
          BY <1>0, <2>5, <4>2
        <5> QED
          BY <5>1 DEF DataInv, Current
      <4> QED
        BY <4>1, <4>2
    <3>2. arcPkt'.id = n0 /\ arcPkt'.len = len
      BY <2>1
    <3> QED
      BY <2>3, <2>5, <3>1, <3>2 DEF Current, p
  <2>7. Filling'
    BY <2>1, <2>2 DEF Filling, Filled
  <2>8. Described' /\ Copying'
    BY <2>1, <2>2 DEF Described, Copying, Working, Sending
  <2>9. ASSUME NEW n \in 1 .. Len(submitted)
        PROVE  /\ submitted[n].cid \in 1 .. Len(asked)
               /\ submitted[n] = asked'[submitted[n].cid]
    BY <2>5 DEF DataInv, SubmitsWhatWasAsked
  <2>10. NotYet'
    <3>1. ASSUME NEW n \in 1 .. Len(submitted) PROVE submitted[n].cid < n0
      BY <1>0, <2>9
    <3>2. arcPkt'.id = n0
      BY <2>1
    <3> QED
      BY <2>1, <3>1, <3>2 DEF NotYet
  <2>11. SubmitsWhatWasAsked'
    <3>1. ASSUME NEW n \in 1 .. Len(submitted)
          PROVE  submitted[n].cid \in 1 .. Len(asked')
      <4>1. Len(asked') = Len(asked) + 1
        BY <2>5
      <4>2. Len(asked) \in Nat
        BY <1>0
      <4>3. submitted[n].cid \in 1 .. Len(asked)
        BY <2>9
      <4> QED
        BY <4>1, <4>2, <4>3
    <3> QED
      BY <2>1, <2>9, <3>1 DEF DataInv, SubmitsWhatWasAsked
  <2>12. Answered' /\ ReportedWasHandled'
    BY <2>1, <2>2
       DEF Answered, DataInv, ReportedWasHandled, Submitted, Working
  <2> QED
    BY <2>6, <2>7, <2>8, <2>10, <2>11, <2>12 DEF DataInv
\* The Arc's steps leave the podule's variables and the histories alone.
<1> DEFINE PodSide == UNCHANGED <<asked, arcPkt, submitted, offline, dropped, podPc,
                                  podDescr, txBuf, txOngoing>>
<1>13. ASSUME PodSide,
              arcPc' \in {"fill", "descr"} => arcPc \in {"fill", "descr"}
       PROVE  Copying' /\ SubmitsWhatWasAsked' /\ Handled' = Handled
  BY <1>13 DEF DataInv, Copying, Packet, SubmitsWhatWasAsked, Handled, Submitted
<1>14. CASE ArcTxFill
  <2>1. /\ PodSide /\ UNCHANGED <<txDescr, txHead, reported>>
        /\ arcPc = "fill" /\ arcPc' \in {"fill", "descr"}
        /\ txMem' = [txMem EXCEPT ![arcK + 1] = Packet[HdrSize + arcK + 1]]
        /\ arcPc' = "fill" => arcK' = arcK + 1
        /\ arcPc' = "descr" => arcK' = 0 /\ arcK + 1 >= arcPkt.len
    <3>1. /\ PodSide /\ UNCHANGED <<txDescr, txHead, reported>>
          /\ arcPc = "fill"
          /\ txMem' = [txMem EXCEPT ![arcK + 1] = Packet[HdrSize + arcK + 1]]
      BY <1>14 DEF ArcTxFill, podVars, histVars, Packet
    <3>2. arcK \in Nat /\ arcK + 1 \in Nat /\ arcPkt.len \in Nat
      BY <1>p DEF TypeInv, TypeOK
    <3>3. \/ arcK + 1 < arcPkt.len /\ arcK' = arcK + 1 /\ arcPc' = "fill"
          \/ arcK + 1 >= arcPkt.len /\ arcK' = 0 /\ arcPc' = "descr"
      BY <1>14, <3>1, <3>2 DEF ArcTxFill
    <3> QED
      BY <3>1, <3>3
  <2>2. ~AnyReady /\ ~Working
    BY <1>w, <2>1 DEF HandoverInv, ReadyWaits
  <2>3. arcK \in Nat /\ arcK < arcPkt.len /\ arcK + 1 \in 1 .. BufSize
    BY <1>p, <2>1 DEF TypeInv, TypeOK, Staged
  <2>4. Filling'
    <3>1. ASSUME NEW k \in 1 .. arcK + 1 PROVE txMem'[k] = Packet[HdrSize + k]
      <4>1. HdrSize + arcK + 1 = HdrSize + (arcK + 1)
        BY <2>3, RegsAssumption
      <4>2. CASE k = arcK + 1
        BY <1>0, <2>1, <2>3, <4>1, <4>2
      <4>3. CASE k # arcK + 1
        <5>1. k \in 1 .. arcK /\ txMem'[k] = txMem[k]
          BY <1>0, <1>p, <2>1, <2>3, <4>3
        <5> QED
          BY <2>1, <5>1 DEF DataInv, Filling, Filled
      <4> QED
        BY <4>2, <4>3
    <3>2. arcPc' = "descr" => arcPkt.len = arcK + 1
      BY <1>p, <2>1, <2>3
    <3>3. Packet' = Packet
      BY <2>1 DEF Packet
    <3> QED
      BY <2>1, <2>2, <3>1, <3>2, <3>3 DEF Filling, Filled
  <2>5. Current' /\ Described' /\ NotYet'
    BY <2>1, <2>2 DEF DataInv, Current, Described, Describes, NotYet
  <2>6. Answered' /\ ReportedWasHandled'
    BY <1>13, <2>1, <2>2
       DEF DataInv, Answered, ReportedWasHandled, Handled, Working
  <2> QED
    BY <1>13, <2>1, <2>4, <2>5, <2>6 DEF DataInv
<1>15. CASE ArcTxStore
  <2>1. /\ PodSide /\ UNCHANGED <<txMem, txHead, reported>>
        /\ arcPc = "descr" /\ arcPc' \in {"descr", "wait"}
        /\ \A i \in Slots : i # txHead => txDescr'[i] = txDescr[i]
    BY <1>0, <1>15 DEF ArcTxStore, podVars, histVars
  <2>2. ~AnyReady /\ ~Working
    BY <1>w, <2>1 DEF HandoverInv, ReadyWaits
  <2>3. arcK \in {0, 1}
    BY <2>1 DEF TypeInv, Staged
  <2>4. /\ arcPc' = "descr" => txDescr'[txHead].len = arcPkt.len /\ ~AnyReady'
        /\ arcPc' = "wait" => Describes(txDescr'[txHead]) /\ txDescr'[txHead].ready
    <3>1. txDescr[txHead] \in Descr
      BY <1>0
    <3>2. CASE arcK = 0
      BY <1>0, <1>15, <2>1, <2>2, <3>1, <3>2 DEF ArcTxStore, DescrStores, Descr
    <3>3. CASE arcK = 1
      <4>1. txDescr[txHead].len = arcPkt.len
        BY <2>1, <3>3 DEF DataInv, Described
      <4> QED
        BY <1>0, <1>15, <2>1, <3>1, <3>3, <4>1
           DEF ArcTxStore, DescrStores, Descr, Describes
    <3> QED
      BY <2>3, <3>2, <3>3
  <2>5. Described'
    BY <1>0, <2>1, <2>2, <2>4 DEF Described, Describes, Working, Sending
  <2>6. Filling' /\ Current'
    BY <2>1, <2>2 DEF DataInv, Filling, Filled, Packet, Current
  <2>7. NotYet'
    BY <2>1 DEF DataInv, NotYet
  <2>8. Answered' /\ ReportedWasHandled'
    BY <1>13, <2>1, <2>2, <2>4
       DEF DataInv, Answered, ReportedWasHandled, Handled, Working
  <2> QED
    BY <1>13, <2>1, <2>5, <2>6, <2>7, <2>8 DEF DataInv
<1>16. CASE ArcTxSent
  <2>1. /\ PodSide /\ UNCHANGED <<txMem, txDescr>>
        /\ arcPc = "wait" /\ arcPc' = "idle" /\ ~Ready(txHead)
        /\ reported' = reported \cup {arcPkt.id}
    BY <1>16 DEF ArcTxSent, podVars, histVars, regVars
  <2>2. ~AnyReady /\ ~Working
    BY <1>0, <1>w, <2>1 DEF HandoverInv, OneOutstanding
  <2>3. arcPkt.id \in Handled
    BY <2>1 DEF DataInv, Answered
  <2>4. Current' /\ Filling' /\ Described' /\ NotYet'
    BY <2>1, <2>2 DEF DataInv, Current, Filling, Described, NotYet, Working, Sending
  <2>5. Answered' /\ ReportedWasHandled'
    BY <1>13, <2>1, <2>2, <2>3
       DEF DataInv, Answered, ReportedWasHandled, Handled, Working
  <2> QED
    BY <1>13, <2>1, <2>4, <2>5 DEF DataInv
<1>17. CASE ArcReset \/ ModuleInit
  <2>1. /\ PodSide /\ UNCHANGED <<txMem, txDescr, reported>>
        /\ arcPc' \in {"off", "idle"}
    BY <1>17 DEF ArcReset, ModuleInit, podVars, histVars, regVars
  <2>2. Current' /\ Filling' /\ Described' /\ NotYet'
    BY <2>1 DEF DataInv, Current, Filling, Filled, Packet, Described, Describes, NotYet
  <2>3. Answered' /\ ReportedWasHandled'
    BY <1>13, <2>1 DEF DataInv, Answered, ReportedWasHandled, Handled
  <2> QED
    BY <1>13, <2>1, <2>2, <2>3 DEF DataInv
<1>18. CASE UNCHANGED vars
  BY <1>2, <1>18 DEF vars, podVars, histVars, regVars, arcVars
<1> QED
  BY <1>3, <1>4, <1>5, <1>6, <1>7, <1>8, <1>9, <1>10, <1>11, <1>12, <1>14, <1>15,
     <1>16, <1>17, <1>18
     DEF PatientNext, LinkNext, BreakNext, ResetNext, PoduleNext, ArcStep

LEMMA PatientInvariant ==
  PatientSpec => [](TypeInv /\ HandoverInv /\ DataInv)
<1>1. Init => TypeInv /\ HandoverInv /\ DataInv
  BY TypeInit, HandoverInit, DataInit
<1>2. TypeInv /\ HandoverInv /\ DataInv /\ [PatientNext]_vars
        => (TypeInv /\ HandoverInv /\ DataInv)'
  BY TypeStep, HandoverStep, DataStep DEF Next
<1> QED
  BY <1>1, <1>2, PTL DEF PatientSpec

\* What the podule gives to USB is what pipe_packet_tx was called with: whole,
\* once, in order.
THEOREM SubmissionsAreFaithful == PatientSpec => []SubmitsWhatWasAsked
<1>1. DataInv => SubmitsWhatWasAsked
  BY DEF DataInv
<1> QED
  BY <1>1, PatientInvariant, PTL

\* Success is returned only for a packet the podule has dealt with.
THEOREM ReportsAreHonest == PatientSpec => []ReportedWasHandled
<1>1. DataInv => ReportedWasHandled
  BY DEF DataInv
<1> QED
  BY <1>1, PatientInvariant, PTL

-----------------------------------------------------------------------------
(* One connection: the stream the host reads, and the reliable channel.     *)
(* A place in the stream is a packet and an offset in its frame.            *)

Places      == [id : Nat, off : Nat]
Place(n, o) == [id |-> n, off |-> o]

\* Of the packets a: the length of a frame, the byte at a place, the place after.
FrameLen(a, n) == HdrSize + Len(a[n].data)
ByteAt(a, p)   == [id |-> p.id, len |-> Len(a[p.id].data), off |-> p.off]
After(a, p)    == IF p.off + 1 < FrameLen(a, p.id) THEN Place(p.id, p.off + 1)
                                                   ELSE Place(p.id + 1, 0)

\* The bytes f are those of the stream between two places.
Path(a, f, from, to, P) ==
  /\ P[1] = from /\ P[Len(f) + 1] = to
  /\ \A k \in 1 .. Len(f) : /\ P[k].id \in 1 .. Len(a)
                            /\ f[k] = ByteAt(a, P[k])
                            /\ P[k + 1] = After(a, P[k])

Leads(a, f, from, to) ==
  \E P \in [1 .. Len(f) + 1 -> Places] : Path(a, f, from, to, P)

\* Without its first byte the stream goes on from the place after it.
LEMMA LeadsTail ==
  ASSUME NEW a, NEW f \in Seq(Byte), NEW from, NEW to,
         Leads(a, f, from, to), f # <<>>
  PROVE  /\ from.id \in 1 .. Len(a) /\ Head(f) = ByteAt(a, from)
         /\ Tail(f) \in Seq(Byte) /\ Leads(a, Tail(f), After(a, from), to)
<1>1. PICK P \in [1 .. Len(f) + 1 -> Places] : Path(a, f, from, to, P)
  BY DEF Leads
<1>2. /\ Len(f) \in Nat /\ Len(f) >= 1 /\ Head(f) = f[1]
      /\ Tail(f) \in Seq(Byte) /\ Len(Tail(f)) = Len(f) - 1
      /\ \A k \in 1 .. Len(f) - 1 : Tail(f)[k] = f[k + 1]
  BY EmptySeq
<1>3. 1 \in 1 .. Len(f)
  BY <1>2
<1>4. from.id \in 1 .. Len(a) /\ Head(f) = ByteAt(a, from) /\ P[1 + 1] = After(a, from)
  BY <1>1, <1>2, <1>3 DEF Path
<1> DEFINE Q == [k \in 1 .. Len(f) |-> P[k + 1]]
<1>5. /\ Q \in [1 .. Len(f) -> Places]
      /\ \A k \in 1 .. Len(f) : Q[k] = P[k + 1]
  BY <1>2
<1> HIDE DEF Q
<1>6. Q[1] = After(a, from) /\ Q[Len(f)] = to
  BY <1>1, <1>2, <1>3, <1>4, <1>5 DEF Path
<1>7. ASSUME NEW k \in 1 .. Len(f) - 1
      PROVE  /\ Q[k].id \in 1 .. Len(a)
             /\ Tail(f)[k] = ByteAt(a, Q[k])
             /\ Q[k + 1] = After(a, Q[k])
  <2>1. k \in 1 .. Len(f) /\ k + 1 \in 1 .. Len(f)
    BY <1>2
  <2>2. Q[k] = P[k + 1] /\ Q[k + 1] = P[(k + 1) + 1] /\ Tail(f)[k] = f[k + 1]
    BY <1>2, <1>5, <2>1
  <2>3. /\ P[k + 1].id \in 1 .. Len(a) /\ f[k + 1] = ByteAt(a, P[k + 1])
        /\ P[(k + 1) + 1] = After(a, P[k + 1])
    BY <1>1, <2>1 DEF Path
  <2> QED
    BY <2>2, <2>3
<1>8. Len(Tail(f)) + 1 = Len(f)
  BY <1>2
<1>9. Path(a, Tail(f), After(a, from), to, Q)
  BY <1>2, <1>6, <1>7, <1>8 DEF Path
<1> QED
  BY <1>2, <1>4, <1>5, <1>8, <1>9 DEF Leads

\* A stretch and the one behind it.
LEMMA LeadsJoin ==
  ASSUME NEW a, NEW f \in Seq(Byte), NEW g \in Seq(Byte), NEW from, NEW mid, NEW to,
         Leads(a, f, from, mid), Leads(a, g, mid, to)
  PROVE  Leads(a, f \o g, from, to)
<1>1. PICK P \in [1 .. Len(f) + 1 -> Places] : Path(a, f, from, mid, P)
  BY DEF Leads
<1>2. PICK Q \in [1 .. Len(g) + 1 -> Places] : Path(a, g, mid, to, Q)
  BY DEF Leads
<1>3. /\ Len(f) \in Nat /\ Len(g) \in Nat /\ Len(f \o g) = Len(f) + Len(g)
      /\ \A k \in 1 .. Len(f) : (f \o g)[k] = f[k]
      /\ \A k \in 1 .. Len(g) : (f \o g)[Len(f) + k] = g[k]
  OBVIOUS
<1> DEFINE n == Len(f)
           R == [k \in 1 .. n + Len(g) + 1 |-> IF k <= n THEN P[k] ELSE Q[k - n]]
<1>4. /\ R \in [1 .. n + Len(g) + 1 -> Places]
      /\ \A k \in 1 .. n : R[k] = P[k]
      /\ \A k \in 1 .. Len(g) + 1 : R[n + k] = Q[k]
  <2>1. ASSUME NEW k \in 1 .. n + Len(g) + 1
        PROVE  (IF k <= n THEN P[k] ELSE Q[k - n]) \in Places
    BY <1>3
  <2>2. ASSUME NEW k \in 1 .. Len(g) + 1 PROVE R[n + k] = Q[k]
    <3>1. n + k \in 1 .. n + Len(g) + 1 /\ ~(n + k <= n) /\ (n + k) - n = k
      BY <1>3
    <3> QED
      BY <3>1
  <2>3. ASSUME NEW k \in 1 .. n PROVE R[k] = P[k]
    BY <1>3
  <2> QED
    BY <2>1, <2>2, <2>3
<1> HIDE DEF R
\* Where they meet.
<1>5. R[n + 1] = P[n + 1]
  <2>1. 1 \in 1 .. Len(g) + 1
    BY <1>3
  <2> QED
    BY <1>1, <1>2, <1>4, <2>1 DEF Path
<1>6. \A k \in 1 .. n + 1 : R[k] = P[k]
  BY <1>3, <1>4, <1>5, SMTT(30)
<1>7. ASSUME NEW k \in 1 .. n + Len(g)
      PROVE  /\ R[k].id \in 1 .. Len(a)
             /\ (f \o g)[k] = ByteAt(a, R[k])
             /\ R[k + 1] = After(a, R[k])
  <2>1. CASE k <= n
    <3>1. k \in 1 .. n /\ k \in 1 .. n + 1 /\ k + 1 \in 1 .. n + 1
      BY <1>3, <2>1
    <3>2. R[k] = P[k] /\ R[k + 1] = P[k + 1] /\ (f \o g)[k] = f[k]
      BY <1>3, <1>6, <3>1
    <3> QED
      BY <1>1, <3>1, <3>2 DEF Path
  <2>2. CASE k > n
    <3> DEFINE j == k - n
    <3>1. /\ j \in 1 .. Len(g) /\ j \in 1 .. Len(g) + 1 /\ j + 1 \in 1 .. Len(g) + 1
          /\ n + j = k /\ n + (j + 1) = k + 1
      BY <1>3, <2>2
    <3> HIDE DEF j
    <3>2. R[k] = Q[j] /\ R[k + 1] = Q[j + 1] /\ (f \o g)[k] = g[j]
      BY <1>3, <1>4, <3>1
    <3> QED
      BY <1>2, <3>1, <3>2 DEF Path
  <2> QED
    BY <1>3, <2>1, <2>2
<1>8. R[1] = from /\ R[n + Len(g) + 1] = to
  <2>1. 1 \in 1 .. n + 1 /\ Len(g) + 1 \in 1 .. Len(g) + 1 /\ n + (Len(g) + 1) = n + Len(g) + 1
    BY <1>3
  <2> QED
    BY <1>1, <1>2, <1>4, <1>6, <2>1 DEF Path
<1>9. Path(a, f \o g, from, to, R)
  BY <1>3, <1>7, <1>8 DEF Path
<1> QED
  BY <1>3, <1>4, <1>9 DEF Leads

\* m bytes of a frame, from an offset on.
LEMMA LeadsPiece ==
  ASSUME NEW a, NEW n \in Nat, n \in 1 .. Len(a), Len(a[n].data) \in Nat,
         NEW o \in Nat, NEW m \in Nat, o < FrameLen(a, n), o + m <= FrameLen(a, n),
         NEW f \in Seq(Byte), Len(f) = m,
         \A k \in 1 .. m : f[k] = ByteAt(a, Place(n, o + k - 1))
  PROVE  Leads(a, f, Place(n, o),
               IF o + m < FrameLen(a, n) THEN Place(n, o + m) ELSE Place(n + 1, 0))
<1> DEFINE F == FrameLen(a, n)
           At(k) == IF o + k - 1 < F THEN Place(n, o + k - 1) ELSE Place(n + 1, 0)
           P == [k \in 1 .. m + 1 |-> At(k)]
<1>1. F \in Nat
  BY DEF FrameLen
<1>2. \A k \in 1 .. m + 1 : At(k) \in Places
  BY DEF Place, Places
<1>3. P \in [1 .. m + 1 -> Places] /\ \A k \in 1 .. m + 1 : P[k] = At(k)
  BY <1>2
<1> HIDE DEF P
<1>4. P[1] = Place(n, o)
  <2>1. 1 \in 1 .. m + 1 /\ o + 1 - 1 = o
    OBVIOUS
  <2> QED
    BY <1>3, <2>1
<1>5. P[m + 1] = IF o + m < F THEN Place(n, o + m) ELSE Place(n + 1, 0)
  <2>1. m + 1 \in 1 .. m + 1 /\ o + (m + 1) - 1 = o + m
    OBVIOUS
  <2> QED
    BY <1>3, <2>1
<1>6. ASSUME NEW k \in 1 .. m
      PROVE  P[k].id \in 1 .. Len(a) /\ f[k] = ByteAt(a, P[k]) /\ P[k + 1] = After(a, P[k])
  <2>1. /\ k \in 1 .. m + 1 /\ k + 1 \in 1 .. m + 1 /\ o + k - 1 < F
        /\ o + (k + 1) - 1 = (o + k - 1) + 1
    BY <1>1
  <2>2. P[k] = Place(n, o + k - 1)
    BY <1>3, <2>1
  <2>3. P[k].id = n /\ P[k].off = o + k - 1
    BY <2>2 DEF Place
  <2>4. P[k + 1] = IF (o + k - 1) + 1 < F THEN Place(n, (o + k - 1) + 1) ELSE Place(n + 1, 0)
    BY <1>3, <2>1
  <2> QED
    BY <2>2, <2>3, <2>4 DEF After
<1>7. Path(a, f, Place(n, o), IF o + m < F THEN Place(n, o + m) ELSE Place(n + 1, 0), P)
  BY <1>4, <1>5, <1>6 DEF Path
<1> QED
  BY <1>3, <1>7 DEF Leads

\* Packets asked for later change nothing.
LEMMA LeadsMore ==
  ASSUME NEW a, NEW b, Len(a) \in Nat, Len(b) \in Nat, Len(a) <= Len(b),
         \A n \in 1 .. Len(a) : b[n] = a[n],
         NEW f, NEW from, NEW to, Leads(a, f, from, to)
  PROVE  Leads(b, f, from, to)
<1>1. PICK P \in [1 .. Len(f) + 1 -> Places] : Path(a, f, from, to, P)
  BY DEF Leads
<1>2. ASSUME NEW k \in 1 .. Len(f)
      PROVE  /\ P[k].id \in 1 .. Len(b) /\ f[k] = ByteAt(b, P[k])
             /\ P[k + 1] = After(b, P[k])
  <2>1. /\ P[k].id \in 1 .. Len(a) /\ f[k] = ByteAt(a, P[k])
        /\ P[k + 1] = After(a, P[k])
    BY <1>1 DEF Path
  <2>2. b[P[k].id] = a[P[k].id] /\ P[k].id \in 1 .. Len(b)
    BY <2>1
  <2> QED
    BY <2>1, <2>2 DEF ByteAt, After, FrameLen
<1>3. Path(b, f, from, to, P)
  BY <1>1, <1>2 DEF Path
<1> QED
  BY <1>3 DEF Leads

\* No bytes lead nowhere.
LEMMA LeadsNowhere ==
  ASSUME NEW a, NEW p \in Places
  PROVE  Leads(a, <<>>, p, p)
<1> DEFINE P == [k \in 1 .. 1 |-> p]
<1>1. Len(<<>>) = 0 /\ P \in [1 .. 1 -> Places] /\ P[1] = p
  OBVIOUS
<1> HIDE DEF P
<1>2. Path(a, <<>>, p, p, P)
  BY <1>1 DEF Path
<1> QED
  BY <1>1, <1>2 DEF Leads

\* The payload of what a command sends is as long as it says.
LEMMA ContentLen ==
  ASSUME NEW id \in Nat, NEW len \in Nat
  PROVE  Len(Content(id, len).data) = len
<1>1. /\ HdrSize + len \in Nat /\ HdrSize <= HdrSize + len
      /\ Bytes(id, len) \in Seq(Byte) /\ Len(Bytes(id, len)) = HdrSize + len
      /\ (HdrSize + len) - HdrSize = len
  BY BytesType
<1>2. Len(Payload(Bytes(id, len), HdrSize + len)) = len
  BY <1>1, PayloadType
<1> QED
  BY <1>2 DEF Content

\* The Arc sends no packet that the podule thinks too long.
Fits == Lens \subseteq 1 .. BufSize - 1

\* The host stays, the Arc stays, nothing is consumed unsent.
Online ==
  /\ connected /\ arcPc # "off" /\ ~resetReq
  /\ offline = {} /\ dropped = {}

\* The last packet asked for has yet to be given whole to USB.
Outstanding ==
  arcPc \in {"fill", "descr"} \/ (AnyReady /\ podPc \notin {"load", "store"})

Counted == Len(asked) = IF Outstanding THEN Len(submitted) + 1 ELSE Len(submitted)

\* Packet n was the n-th asked for, and the n-th delivered.
Asked == \A n \in 1 .. Len(asked) :
           /\ Len(asked[n].data) \in Lens
           /\ asked[n] = Content(n, Len(asked[n].data))

Given == /\ Len(delivered) <= Len(asked)
         /\ \A n \in 1 .. Len(delivered) : delivered[n] = asked[n]

\* Where in the stream the host is, and where the podule is.
Reader == Place(Len(delivered) + 1, Len(hostBuf))
Writer == Place(Len(submitted) + 1, IF txOngoing THEN txPos ELSE 0)

\* The host has the beginning of the frame it is reading, the FIFO the bytes
\* from there to where the podule is.
Hosted ==
  Len(hostBuf) > 0 =>
    /\ Len(delivered) < Len(asked)
    /\ Len(hostBuf) < FrameLen(asked, Len(delivered) + 1)
    /\ \A k \in 1 .. Len(hostBuf) :
         hostBuf[k] = ByteAt(asked, Place(Len(delivered) + 1, k - 1))

Chain == Leads(asked, fifo, Reader, Writer)

LinkInv == Online /\ Counted /\ Asked /\ Given /\ Hosted /\ Chain

LEMMA LinkInit == ConnectedInit => TypeInv /\ HandoverInv /\ DataInv /\ LinkInv
<1> SUFFICES ASSUME ConnectedInit PROVE TypeInv /\ HandoverInv /\ DataInv /\ LinkInv
  OBVIOUS
<1>1. TypeInv /\ HandoverInv /\ DataInv
  BY TypeInit, HandoverInit, DataInit DEF ConnectedInit
<1>2. Online /\ ~Outstanding
  BY DEF ConnectedInit, Init, Online, Outstanding, AnyReady, Ready, NoDescr
<1>3. /\ fifo = <<>> /\ asked = <<>> /\ submitted = <<>>
      /\ delivered = <<>> /\ hostBuf = <<>> /\ ~txOngoing
  BY DEF ConnectedInit, Init
<1>4. Len(<<>>) = 0
  OBVIOUS
<1>5. Reader = Place(1, 0) /\ Writer = Place(1, 0) /\ Place(1, 0) \in Places
  BY <1>3, <1>4 DEF Reader, Writer, Place, Places
<1>6. Chain
  BY <1>3, <1>5, LeadsNowhere DEF Chain
<1>7. Counted /\ Asked /\ Given /\ Hosted
  BY <1>2, <1>3, <1>4 DEF Counted, Asked, Given, Hosted
<1> QED
  BY <1>1, <1>2, <1>6, <1>7 DEF LinkInv

\* A byte reaches the host, and completes a frame or does not.
LEMMA DrainStep ==
  ASSUME TypeInv, LinkInv, UsbDrain
  PROVE  /\ LinkInv'
         /\ UNCHANGED asked
         /\ \/ UNCHANGED delivered
            \/ /\ Len(delivered) < Len(asked)
               /\ delivered' = Append(delivered, asked[Len(delivered) + 1])
<1> DEFINE frame == Append(hostBuf, Head(fifo))
           total == HdrSize + frame[1].len
           p     == [cid |-> frame[1].id, data |-> Payload(frame, total)]
           d     == Len(delivered) + 1
           o     == Len(hostBuf)
           len   == Len(asked[d].data)
<1>1. /\ fifo \in Seq(Byte) /\ fifo # <<>> /\ hostBuf \in Seq(Byte)
      /\ delivered \in Seq([cid : Nat, data : Seq(Byte)])
      /\ asked \in Seq([cid : Nat, data : Seq(Byte)])
      /\ Len(delivered) \in Nat /\ Len(asked) \in Nat /\ o \in Nat /\ d \in Nat
  BY SMTT(30) DEF UsbDrain, TypeInv, TypeOK
<1>2. /\ fifo' = Tail(fifo)
      /\ IF Len(frame) >= total
           THEN hostBuf' = <<>> /\ delivered' = Append(delivered, p)
           ELSE hostBuf' = frame /\ UNCHANGED delivered
      /\ UNCHANGED <<connected, podVars, histVars, regVars, resetReq, arcVars>>
  BY DEF UsbDrain
<1>3. Online /\ Counted /\ Asked /\ Given /\ Hosted /\ Chain
  BY DEF LinkInv
<1>4. /\ Reader.id \in 1 .. Len(asked) /\ Head(fifo) = ByteAt(asked, Reader)
      /\ Tail(fifo) \in Seq(Byte) /\ Leads(asked, Tail(fifo), After(asked, Reader), Writer)
  BY <1>1, <1>3, LeadsTail DEF Chain
<1>5. /\ d \in 1 .. Len(asked) /\ Len(delivered) < Len(asked)
      /\ Head(fifo) = [id |-> d, len |-> len, off |-> o]
  BY <1>1, <1>4 DEF Reader, Place, ByteAt
<1>6. len \in Nat /\ len > 0 /\ asked[d] = Content(d, len)
  <2>1. len \in Lens /\ asked[d] = Content(d, len)
    BY <1>3, <1>5 DEF Asked
  <2> HIDE DEF len
  <2> QED
    BY <2>1, TxAssumption
<1>7. /\ Head(fifo) \in Byte
      /\ frame \in Seq(Byte) /\ Len(frame) = o + 1
      /\ \A k \in 1 .. o : frame[k] = hostBuf[k]
      /\ frame[o + 1] = Head(fifo)
  BY <1>1, AppendProperties
<1> HIDE DEF frame, len
<1>8. ASSUME NEW k \in 1 .. o + 1
      PROVE  frame[k] = [id |-> d, len |-> len, off |-> k - 1]
  <2>1. CASE k = o + 1
    <3>1. k - 1 = o
      BY <1>1, <2>1
    <3> QED
      BY <1>5, <1>7, <2>1, <3>1
  <2>2. CASE k # o + 1
    <3>1. k \in 1 .. o /\ Len(hostBuf) > 0
      BY <1>1, <2>2
    <3>2. hostBuf[k] = ByteAt(asked, Place(d, k - 1))
      BY <1>3, <3>1 DEF Hosted
    <3> QED
      BY <1>7, <3>1, <3>2 DEF ByteAt, Place, len
  <2> QED
    BY <2>1, <2>2
<1>9. 1 \in 1 .. o + 1
  BY <1>1
<1>10. frame[1].len = len /\ frame[1].id = d
  <2>1. frame[1] = [id |-> d, len |-> len, off |-> 1 - 1]
    BY <1>8, <1>9
  <2> QED
    BY <2>1
<1>11. total = HdrSize + len /\ total = FrameLen(asked, d) /\ total \in Nat /\ o < total
  <2>1. total = HdrSize + len /\ total = FrameLen(asked, d) /\ total \in Nat /\ 0 < total
    BY <1>6, <1>10, SMTT(30) DEF FrameLen, len
  <2>2. CASE o = 0
    BY <2>1, <2>2
  <2>3. CASE o # 0
    <3>1. o > 0 /\ o < FrameLen(asked, d)
      BY <1>1, <1>3, <2>3 DEF Hosted
    <3> QED
      BY <2>1, <3>1
  <2> QED
    BY <2>1, <2>2, <2>3
<1> HIDE DEF total
<1>12. Online' /\ Counted' /\ Asked' /\ UNCHANGED asked
  BY <1>2, <1>3
     DEF Online, Counted, Asked, Outstanding, AnyReady, Ready, podVars, histVars, regVars,
         arcVars
<1>13. Writer' = Writer
  BY <1>2 DEF Writer, podVars, histVars
<1>14. CASE o + 1 = total
  <2>1. hostBuf' = <<>> /\ delivered' = Append(delivered, p)
    BY <1>1, <1>2, <1>7, <1>11, <1>14
  <2>2. frame = Bytes(d, len)
    <3>1. Bytes(d, len) \in Seq(Byte) /\ Len(Bytes(d, len)) = o + 1
      BY <1>1, <1>6, <1>11, <1>14, BytesType
    <3>2. \A k \in 1 .. o + 1 : Bytes(d, len)[k] = [id |-> d, len |-> len, off |-> k - 1]
      BY <1>11, <1>14 DEF Bytes
    <3> QED
      BY <1>7, <1>8, <3>1, <3>2, SeqEqual
  <2>3. p = asked[d]
    BY <1>6, <1>10, <1>11, <2>2 DEF Content
  <2>4. asked[d] \in [cid : Nat, data : Seq(Byte)]
    BY <1>1, <1>5, ElementOfSeq
  <2> HIDE DEF p
  <2>5. /\ Len(delivered') = d /\ delivered'[d] = asked[d]
        /\ \A n \in 1 .. Len(delivered) : delivered'[n] = delivered[n]
    BY <1>1, <2>1, <2>3, <2>4, AppendProperties
  <2>6. Given'
    <3>1. ASSUME NEW n \in 1 .. d PROVE n = d \/ n \in 1 .. Len(delivered)
      <4>1. Len(delivered) \in Nat /\ d = Len(delivered) + 1
        BY <1>1
      <4> QED
        BY <4>1
    <3>2. \A n \in 1 .. d : delivered'[n] = asked[n]
      BY <1>3, <2>5, <3>1 DEF Given
    <3> QED
      BY <1>5, <1>12, <2>5, <3>2 DEF Given
  <2>7. Len(hostBuf') = 0
    BY <2>1
  <2>8. After(asked, Reader) = Reader'
    <3>1. After(asked, Reader) = Place(d + 1, 0)
      BY <1>1, <1>11, <1>14 DEF After, Reader, Place
    <3> QED
      BY <2>5, <2>7, <3>1 DEF Reader
  <2>9. Chain' /\ Hosted'
    BY <1>2, <1>4, <1>12, <1>13, <2>7, <2>8 DEF Chain, Hosted
  <2> QED
    BY <1>5, <1>12, <2>1, <2>3, <2>6, <2>9 DEF LinkInv
<1>15. CASE o + 1 # total
  <2>1. hostBuf' = frame /\ UNCHANGED delivered /\ o + 1 < total
    BY <1>1, <1>2, <1>7, <1>11, <1>15
  <2>2. Given'
    BY <1>3, <1>12, <2>1 DEF Given
  <2>3. Hosted'
    <3>1. /\ Len(hostBuf') = o + 1 /\ Len(delivered') < Len(asked')
          /\ Len(hostBuf') < FrameLen(asked', Len(delivered') + 1)
      BY <1>5, <1>7, <1>11, <1>12, <2>1
    <3>2. \A k \in 1 .. o + 1 : hostBuf'[k] = ByteAt(asked', Place(Len(delivered') + 1, k - 1))
      BY <1>8, <1>12, <2>1 DEF ByteAt, Place, len
    <3> QED
      BY <3>1, <3>2 DEF Hosted
  <2>4. After(asked, Reader) = Reader'
    <3>1. After(asked, Reader) = Place(d, o + 1)
      BY <1>1, <1>11, <2>1 DEF After, Reader, Place
    <3> QED
      BY <1>7, <2>1, <3>1 DEF Reader
  <2>5. Chain'
    BY <1>2, <1>4, <1>12, <1>13, <2>4 DEF Chain
  <2> QED
    BY <1>12, <2>1, <2>2, <2>3, <2>5 DEF LinkInv
<1> QED
  BY <1>14, <1>15

\* The podule writes what goes into the FIFO, from where it is.
LEMMA WriteStep ==
  ASSUME TypeInv, HandoverInv, DataInv, LinkInv, TxFirst \/ TxContinue
  PROVE  LinkInv'
<1> DEFINE pos  == IF txOngoing THEN txPos ELSE 0
           room == FifoSize - Len(fifo)
           left == Len(txBuf) - pos
           n    == IF room < left THEN room ELSE left
           f    == SubSeq(txBuf, pos + 1, pos + n)
           a    == Len(asked)
<1>0. /\ txBuf \in Seq(Byte) /\ fifo \in Seq(Byte) /\ Len(fifo) <= FifoSize
      /\ asked \in Seq([cid : Nat, data : Seq(Byte)])
      /\ submitted \in Seq([cid : Nat, data : Seq(Byte)])
      /\ a \in Nat /\ Len(submitted) \in Nat /\ Len(txBuf) \in Nat /\ Len(fifo) \in Nat
      /\ arcPkt.len \in Nat /\ arcPkt.id \in Nat
      /\ txTail \in Slots /\ podDescr \in Descr /\ txPos \in Nat
  BY PktType DEF TypeInv, TypeOK
<1>1. Online /\ Counted /\ Asked /\ Given /\ Hosted /\ Chain
  BY DEF LinkInv
\* All of the packet is in tx_buf, and pos bytes of it have gone.
<1>2. /\ podPc \in {"poll", "copy"} /\ Working
      /\ pos \in Nat /\ pos < Len(txBuf) /\ HdrSize < Len(txBuf)
      /\ Len(txBuf) = HdrSize + arcPkt.len
      /\ TxSubmit(pos)
      /\ UNCHANGED <<hostVars, connected, offline, dropped, resetReq, txDescr, txHead,
                     arcPc, arcPkt, asked>>
  <2>1. CASE TxFirst
    <3>1. Describes(podDescr) /\ podDescr.len \in 1 .. BufSize /\ ~txOngoing
      BY <1>0, <2>1 DEF TxFirst, DataInv, Described, Descr, TypeInv, Staged
    <3>2. Len(txBuf) = HdrSize + arcPkt.len /\ HdrSize < Len(txBuf)
      BY <1>0, <2>1, <3>1 DEF TxFirst, TxTotal, Describes
    <3> QED
      BY <1>0, <2>1, <3>1, <3>2 DEF TxFirst, Working, Sending, regVars, arcVars
  <2>2. CASE TxContinue
    BY <1>0, <2>2 DEF TxContinue, TypeInv, TypeOK, Staged, DataInv, Copying, Working, Sending,
                      regVars, arcVars
  <2> QED
    BY <2>1, <2>2
<1>3. /\ AnyReady /\ arcPc = "wait"
      /\ \A k \in 1 .. Len(txBuf) : txBuf[k] = Packet[k]
  BY <1>0, <1>1, <1>2 DEF HandoverInv, WorkingReady, ReadyWaits, AnyReady, Online, DataInv,
                          Copying, TxFirst, TxContinue
<1>4. Outstanding /\ a = Len(submitted) + 1 /\ arcPkt.id = a /\ a \in 1 .. a
  <2>1. Outstanding
    BY <1>2, <1>3 DEF Outstanding
  <2> QED
    BY <1>0, <1>1, <2>1 DEF Counted, DataInv, Current
<1>5. Len(asked[a].data) = arcPkt.len /\ FrameLen(asked, a) = Len(txBuf)
  <2>1. asked[a] = Content(arcPkt.id, arcPkt.len)
    BY <1>0, <1>4 DEF DataInv, Current
  <2>2. Len(asked[a].data) = arcPkt.len
    BY <1>0, <2>1, ContentLen, SMTT(30)
  <2> QED
    BY <1>2, <2>2 DEF FrameLen
<1>6. /\ fifo' = fifo \o f
      /\ txPos' = pos + n
      /\ txOngoing' = (pos + n < Len(txBuf))
      /\ IF txOngoing'
           THEN podPc' = "poll" /\ UNCHANGED submitted
           ELSE /\ podPc' = "load"
                /\ submitted' = Append(submitted,
                     [cid |-> txBuf[1].id, data |-> Payload(txBuf, Len(txBuf))])
  BY <1>2 DEF TxSubmit
<1>7. n \in Nat /\ pos + n <= Len(txBuf)
  BY <1>0, <1>2, SMTT(30)
<1>8. Writer = Place(a, pos)
  BY <1>4 DEF Writer
<1> HIDE DEF n, pos
<1>9. /\ f \in Seq(Byte) /\ Len(f) = n
      /\ \A k \in 1 .. n : f[k] = txBuf[pos + k]
  BY <1>0, <1>2, <1>7, SMTT(30)
<1> HIDE DEF f
<1>10. \A k \in 1 .. n : f[k] = ByteAt(asked, Place(a, pos + k - 1))
  <2> SUFFICES ASSUME NEW k \in 1 .. n
               PROVE  f[k] = ByteAt(asked, Place(a, pos + k - 1))
    OBVIOUS
  <2>1. pos + k \in 1 .. Len(txBuf)
    BY <1>0, <1>2, <1>7
  <2>2. f[k] = Packet[pos + k]
    BY <1>3, <1>9, <2>1
  <2>3. Packet[pos + k] = [id |-> arcPkt.id, len |-> arcPkt.len, off |-> pos + k - 1]
    BY <1>2, <2>1 DEF Packet, Bytes
  <2> QED
    BY <1>4, <1>5, <2>2, <2>3 DEF ByteAt, Place
<1> DEFINE to == IF pos + n < Len(txBuf) THEN Place(a, pos + n) ELSE Place(a + 1, 0)
<1>11. Leads(asked, f, Writer, to)
  <2> DEFINE F == FrameLen(asked, a)
  <2>1. Len(asked[a].data) \in Nat /\ a \in Nat /\ a \in 1 .. Len(asked)
    BY <1>0, <1>4, <1>5
  <2>2. pos \in Nat /\ n \in Nat /\ pos < F /\ pos + n <= F
    BY <1>2, <1>5, <1>7
  <2>3. Leads(asked, f, Place(a, pos),
              IF pos + n < F THEN Place(a, pos + n) ELSE Place(a + 1, 0))
    BY <1>9, <1>10, <2>1, <2>2, LeadsPiece
  <2> QED
    BY <1>5, <1>8, <2>3
<1>12. Leads(asked, fifo \o f, Reader, to)
  BY <1>0, <1>1, <1>9, <1>11, LeadsJoin DEF Chain
<1>13. Writer' = to /\ Counted'
  <2>1. CASE pos + n < Len(txBuf)
    <3>1. txOngoing' /\ podPc' = "poll" /\ UNCHANGED submitted
      BY <1>6, <2>1
    <3>2. Outstanding'
      BY <1>2, <1>3, <3>1 DEF Outstanding, AnyReady, Ready
    <3> QED
      BY <1>2, <1>4, <1>6, <2>1, <3>1, <3>2 DEF Writer, Counted
  <2>2. CASE ~(pos + n < Len(txBuf))
    <3>1. ~txOngoing' /\ podPc' = "load"
      BY <1>6, <2>2
    <3>2. ~Outstanding'
      BY <1>2, <1>3, <3>1 DEF Outstanding
    <3> DEFINE p == [cid |-> txBuf[1].id, data |-> Payload(txBuf, Len(txBuf))]
    <3>3. p = asked[a] /\ p \in [cid : Nat, data : Seq(Byte)]
      <4>1. p = Content(arcPkt.id, arcPkt.len)
        BY <1>2, <1>3, WholePacket
      <4>2. asked[a] = Content(arcPkt.id, arcPkt.len)
        BY <1>0, <1>4 DEF DataInv, Current
      <4> QED
        BY <1>0, <4>1, <4>2, ContentType
    <3>4. submitted' = Append(submitted, p)
      BY <1>6, <3>1
    <3> HIDE DEF p
    <3>5. Len(submitted') = Len(submitted) + 1
      BY <1>0, <3>3, <3>4, AppendProperties
    <3> QED
      BY <1>2, <1>4, <2>2, <3>1, <3>2, <3>5 DEF Writer, Counted
  <2> QED
    BY <2>1, <2>2
<1>14. Chain'
  BY <1>2, <1>6, <1>12, <1>13 DEF Chain, Reader, hostVars
<1>15. Online' /\ Asked' /\ Given' /\ Hosted'
  BY <1>1, <1>2 DEF Online, Asked, Given, Hosted, hostVars
<1> QED
  BY <1>13, <1>14, <1>15 DEF LinkInv

LEMMA LinkStep ==
  ASSUME Fits
  PROVE  TypeInv /\ HandoverInv /\ DataInv /\ LinkInv /\ [LinkNext]_vars => LinkInv'
<1> SUFFICES ASSUME TypeInv, HandoverInv, DataInv, LinkInv, [LinkNext]_vars
             PROVE  LinkInv'
  OBVIOUS
<1>0. /\ txDescr \in [Slots -> Descr] /\ txTail \in Slots /\ txHead \in Slots
      /\ podDescr \in Descr
      /\ asked \in Seq([cid : Nat, data : Seq(Byte)])
      /\ Len(asked) \in Nat /\ Len(submitted) \in Nat /\ Len(delivered) \in Nat
  BY DEF TypeInv, TypeOK
<1>1. Online /\ Counted /\ Asked /\ Given /\ Hosted /\ Chain
  BY DEF LinkInv
\* A step that moves neither the stream nor the count.
<1>2. ASSUME UNCHANGED <<asked, delivered, hostBuf, fifo, submitted, txOngoing, txPos,
                         connected, resetReq, offline, dropped>>,
             arcPc' # "off", Outstanding' <=> Outstanding
      PROVE  LinkInv'
  <2>1. Online' /\ Counted'
    BY <1>1, <1>2 DEF Online, Counted
  <2>2. Asked' /\ Given' /\ Hosted'
    BY <1>1, <1>2 DEF Asked, Given, Hosted
  <2>3. Chain'
    BY <1>1, <1>2 DEF Chain, Reader, Writer
  <2> QED
    BY <2>1, <2>2, <2>3 DEF LinkInv
<1>3. CASE UsbDrain
  BY <1>3, DrainStep
<1>4. CASE TxFirst \/ TxContinue
  BY <1>4, WriteStep
<1>5. CASE TxLook \/ TxHeader \/ TxCopy \/ TxDoneLoad \/ TxAdvance
  <2>1. /\ UNCHANGED <<asked, delivered, hostBuf, fifo, submitted, txOngoing, txPos,
                       connected, resetReq, offline, dropped, arcPc, txDescr>>
        /\ podPc' \in {"load", "store"} <=> podPc \in {"load", "store"}
    BY <1>1, <1>5 DEF Online, TxLook, TxHeader, TxCopy, TxDoneLoad, TxAdvance, hostVars,
                      usbVars, histVars, regVars, arcVars
  <2> QED
    BY <1>1, <1>2, <2>1 DEF Outstanding, AnyReady, Ready, Online
\* The packet fits, and the host is there.
<1>6. CASE TxDrop
  <2>1. Describes(podDescr) /\ TxOffEnd(podDescr)
    BY <1>6 DEF TxDrop, DataInv, Described
  <2>2. Ready(txTail) /\ AnyReady
    BY <1>0, <1>6 DEF TxDrop, HandoverInv, WorkingReady, Working, Sending, AnyReady
  <2>3. asked[Len(asked)] = Content(arcPkt.id, arcPkt.len) /\ Len(asked) \in 1 .. Len(asked)
    BY <1>0, <2>2 DEF DataInv, Current
  <2>4. arcPkt.id \in Nat /\ arcPkt.len \in Nat
    BY PktType DEF TypeInv
  <2>5. arcPkt.len \in Lens
    BY <1>1, <2>3, <2>4, ContentLen DEF Asked
  <2>6. arcPkt.len \in 1 .. BufSize - 1
    BY <2>5, Fits DEF Fits
  <2>7. arcPkt.len >= BufSize
    BY <2>1 DEF TxOffEnd, Describes
  <2> QED
    BY <2>4, <2>6, <2>7, RegsAssumption
<1>7. CASE TxAbort
  BY <1>1, <1>7 DEF TxAbort, Online
<1>8. CASE TxDoneStore
  <2>1. /\ UNCHANGED <<asked, delivered, hostBuf, fifo, submitted, txOngoing, txPos,
                       connected, resetReq, offline, dropped, arcPc>>
        /\ podPc = "store"
        /\ \A i \in Slots : i # txTail => txDescr'[i] = txDescr[i]
        /\ ~txDescr'[txTail].ready
    BY <1>0, <1>8 DEF TxDoneStore, hostVars, usbVars, histVars, arcVars, Descr
  <2>2. Ready(txTail) /\ ~AnyReady' /\ AnyReady
    BY <1>0, <2>1 DEF HandoverInv, WorkingReady, Working, AtMostOne, AnyReady, Ready
  <2>3. arcPc = "wait"
    BY <1>1, <2>2 DEF HandoverInv, ReadyWaits, Online
  <2> QED
    BY <1>2, <2>1, <2>2, <2>3 DEF Outstanding
<1>9. ASSUME NEW len \in Lens, ArcTxCall(len) PROVE LinkInv'
  <2> DEFINE m == Len(asked) + 1
             p == Content(m, len)
  <2>1. /\ UNCHANGED <<delivered, hostBuf, fifo, submitted, txOngoing, txPos, connected,
                       resetReq, offline, dropped, podPc, txDescr>>
        /\ arcPc = "idle" /\ arcPc' = "fill"
        /\ asked' = Append(asked, p)
    BY <1>9 DEF ArcTxCall, hostVars, usbVars, podVars, histVars, regVars
  <2>2. m \in Nat /\ len \in Nat
    BY <1>0, TxAssumption
  <2>3. p \in [cid : Nat, data : Seq(Byte)] /\ Len(p.data) = len
    BY <2>2, ContentType, ContentLen
  <2> HIDE DEF p
  <2>4. /\ Len(asked') = m /\ asked'[m] = p
        /\ \A n \in 1 .. Len(asked) : asked'[n] = asked[n]
    BY <1>0, <2>1, <2>3, AppendProperties
  <2>5. Online'
    BY <1>1, <2>1 DEF Online
  <2>6. Counted'
    <3>1. ~Outstanding /\ Outstanding'
      BY <2>1 DEF HandoverInv, ReadyWaits, Outstanding
    <3> QED
      BY <1>1, <2>1, <2>4, <3>1 DEF Counted
  <2>7. Asked'
    <3>1. ASSUME NEW n \in 1 .. m
          PROVE  /\ Len(asked'[n].data) \in Lens
                 /\ asked'[n] = Content(n, Len(asked'[n].data))
      <4>1. CASE n = m
        BY <2>3, <2>4, <4>1 DEF p
      <4>2. CASE n # m
        <5>1. n \in 1 .. Len(asked)
          BY <1>0, <4>2
        <5> QED
          BY <1>1, <2>4, <5>1 DEF Asked
      <4> QED
        BY <4>1, <4>2
    <3> QED
      BY <2>4, <3>1 DEF Asked
  <2>8. Given'
    <3>1. ASSUME NEW n \in 1 .. Len(delivered) PROVE n \in 1 .. Len(asked)
      BY <1>0, <1>1 DEF Given
    <3>2. Len(delivered') <= Len(asked')
      BY <1>0, <1>1, <2>1, <2>4 DEF Given
    <3> QED
      BY <1>1, <2>1, <2>4, <3>1, <3>2 DEF Given
  <2>9. Hosted'
    <3>1. CASE ~(Len(hostBuf) > 0)
      BY <2>1, <3>1 DEF Hosted
    <3>2. CASE Len(hostBuf) > 0
      <4>1. /\ Len(delivered) + 1 \in 1 .. Len(asked)
            /\ Len(delivered') < Len(asked')
        BY <1>0, <1>1, <2>1, <2>4, <3>2 DEF Hosted
      <4>2. asked'[Len(delivered) + 1] = asked[Len(delivered) + 1]
        BY <2>4, <4>1
      <4>3. /\ FrameLen(asked', Len(delivered) + 1) = FrameLen(asked, Len(delivered) + 1)
            /\ \A o : ByteAt(asked', Place(Len(delivered) + 1, o))
                        = ByteAt(asked, Place(Len(delivered) + 1, o))
        BY <4>2 DEF FrameLen, ByteAt, Place
      <4> QED
        BY <1>1, <2>1, <3>2, <4>1, <4>3 DEF Hosted
    <3> QED
      BY <3>1, <3>2
  <2>10. Chain'
    <3>1. Leads(asked', fifo, Reader, Writer)
      <4>1. Len(asked') \in Nat /\ Len(asked) <= Len(asked')
        BY <1>0, <2>2, <2>4
      <4> QED
        BY <1>0, <1>1, <2>4, <4>1, LeadsMore DEF Chain
    <3>2. Reader' = Reader /\ Writer' = Writer
      BY <2>1 DEF Reader, Writer
    <3> QED
      BY <2>1, <3>1, <3>2 DEF Chain
  <2> QED
    BY <2>5, <2>6, <2>7, <2>8, <2>9, <2>10 DEF LinkInv
<1>10. CASE ArcTxFill
  BY <1>2, <1>10 DEF ArcTxFill, Outstanding, hostVars, usbVars, podVars, histVars
<1>11. CASE ArcTxStore
  <2>1. /\ UNCHANGED <<asked, delivered, hostBuf, fifo, submitted, txOngoing, txPos,
                       connected, resetReq, offline, dropped, podPc>>
        /\ arcPc = "descr" /\ arcPc' \in {"descr", "wait"}
    BY <1>11 DEF ArcTxStore, hostVars, usbVars, podVars, histVars
  <2>2. ~AnyReady /\ podPc \notin {"load", "store"}
    BY <1>0, <2>1 DEF HandoverInv, ReadyWaits, WorkingReady, Working, AnyReady
  <2>3. arcPc' = "wait" => AnyReady'
    <3>1. arcK \in {0, 1}
      BY <2>1 DEF TypeInv, Staged
    <3>2. arcPc' = "wait" => arcK = 1
      BY <1>11, <3>1 DEF ArcTxStore, DescrStores
    <3>3. arcK = 1 => txDescr'[txHead].ready
      BY <1>0, <1>11 DEF ArcTxStore, DescrStores, Descr
    <3> QED
      BY <1>0, <3>2, <3>3 DEF AnyReady, Ready
  <2> QED
    BY <1>2, <2>1, <2>2, <2>3 DEF Outstanding
<1>12. CASE ArcTxSent
  <2>1. /\ UNCHANGED <<asked, delivered, hostBuf, fifo, submitted, txOngoing, txPos,
                       connected, resetReq, offline, dropped, podPc, txDescr>>
        /\ arcPc = "wait" /\ arcPc' = "idle" /\ ~Ready(txHead)
    BY <1>12 DEF ArcTxSent, hostVars, usbVars, podVars, histVars, regVars, Ready
  <2>2. ~AnyReady /\ ~AnyReady'
    BY <2>1 DEF HandoverInv, OneOutstanding, AnyReady, Ready
  <2> QED
    BY <1>2, <2>1, <2>2 DEF Outstanding
<1>13. CASE UNCHANGED vars
  <2>1. UNCHANGED <<asked, delivered, hostBuf, fifo, submitted, txOngoing, txPos,
                    connected, resetReq, offline, dropped, podPc, txDescr, arcPc>>
    BY <1>13 DEF vars, hostVars, usbVars, podVars, histVars, regVars, arcVars
  <2> QED
    BY <1>1, <1>2, <2>1 DEF Outstanding, AnyReady, Ready, Online
<1> QED
  BY <1>3, <1>4, <1>5, <1>6, <1>7, <1>8, <1>9, <1>10, <1>11, <1>12, <1>13
     DEF LinkNext, PoduleNext, ArcStep

AllInv == TypeInv /\ HandoverInv /\ DataInv /\ LinkInv

LEMMA LinkInvariant ==
  ASSUME Fits
  PROVE  LinkSpec => []AllInv
<1>1. ConnectedInit => AllInv
  BY LinkInit DEF AllInv
<1>2. AllInv /\ [LinkNext]_vars => AllInv'
  <2>1. [LinkNext]_vars => [PatientNext]_vars /\ [Next]_vars
    BY DEF PatientNext, Next
  <2> QED
    BY <2>1, TypeStep, HandoverStep, DataStep, LinkStep, Fits DEF AllInv
<1> QED
  BY <1>1, <1>2, PTL DEF LinkSpec

\* The host never loses step with the framing: what it has of a frame is the
\* beginning of one packet, and what it has read are packets that were asked for.
THEOREM StreamIsFramed ==
  ASSUME Fits
  PROVE  LinkSpec => []Framed
<1>1. ASSUME AllInv PROVE Framed
  <2>1. Given /\ Hosted /\ Len(delivered) \in Nat /\ Len(asked) \in Nat
        /\ hostBuf \in Seq(Byte)
    BY <1>1 DEF AllInv, LinkInv, TypeInv, TypeOK
  <2>2. \A n \in 1 .. Len(delivered) : \E m \in 1 .. Len(asked) : delivered[n] = asked[m]
    <3>1. \A n \in 1 .. Len(delivered) : n \in 1 .. Len(asked) /\ delivered[n] = asked[n]
      BY <2>1 DEF Given
    <3> QED
      BY <3>1
  <2>3. ASSUME NEW k \in 1 .. Len(hostBuf)
        PROVE  hostBuf[k] = [hostBuf[1] EXCEPT !.off = k - 1]
    <3>1. Len(hostBuf) > 0 /\ 1 \in 1 .. Len(hostBuf)
      BY <2>1
    <3>2. /\ hostBuf[k] = ByteAt(asked, Place(Len(delivered) + 1, k - 1))
          /\ hostBuf[1] = ByteAt(asked, Place(Len(delivered) + 1, 1 - 1))
      BY <2>1, <3>1 DEF Hosted
    <3> DEFINE i == Len(delivered) + 1
               l == Len(asked[i].data)
    <3>3. \A o : ByteAt(asked, Place(i, o)) = [id |-> i, len |-> l, off |-> o]
      BY DEF ByteAt, Place
    <3> HIDE DEF i, l
    <3>4. /\ hostBuf[k] = [id |-> i, len |-> l, off |-> k - 1]
          /\ hostBuf[1] = [id |-> i, len |-> l, off |-> 1 - 1]
      BY <3>2, <3>3 DEF i
    <3> QED
      BY <3>4
  <2> QED
    BY <2>2, <2>3 DEF Framed
<1> QED
  BY <1>1, LinkInvariant, Fits, PTL

\* A step of the link is one of the channel, or none.
LEMMA ChannelStep ==
  AllInv /\ [LinkNext]_vars => [Channel!Next]_<<asked, delivered>>
<1> SUFFICES ASSUME AllInv, [LinkNext]_vars
             PROVE  [Channel!Next]_<<asked, delivered>>
  OBVIOUS
<1>1. ASSUME NEW len \in Lens, ArcTxCall(len) PROVE Channel!Next
  <2>1. /\ asked' = Append(asked, Content(Len(asked) + 1, len)) /\ delivered' = delivered
        /\ Len(asked) < MaxPackets
    BY <1>1 DEF ArcTxCall, hostVars
  <2>2. Len(asked) + 1 \in 1 .. MaxPackets
    BY <2>1, TxAssumption DEF AllInv, TypeInv, TypeOK
  <2> QED
    BY <2>1, <2>2 DEF Channel!Next, Channel!Send
<1>2. CASE UsbDrain
  <2>1. /\ UNCHANGED asked
        /\ \/ UNCHANGED delivered
           \/ /\ Len(delivered) < Len(asked)
              /\ delivered' = Append(delivered, asked[Len(delivered) + 1])
    BY <1>2, DrainStep DEF AllInv
  <2> QED
    BY <2>1 DEF Channel!Next, Channel!Deliver
<1>3. CASE UNCHANGED <<asked, delivered>>
  BY <1>3
<1> QED
  BY <1>1, <1>2, <1>3
     DEF LinkNext, PoduleNext, ArcStep, vars, hostVars, arcVars, TxLook, TxDrop, TxHeader,
         TxCopy, TxFirst, TxContinue, TxAbort, TxDoneLoad, TxDoneStore, TxAdvance,
         ArcTxFill, ArcTxStore, ArcTxSent

\* The transmit path is the reliable, ordered channel of the README: what the host
\* reads are the packets pipe_packet_tx was called with, whole, once, in order.
THEOREM ChannelImplemented ==
  ASSUME Fits
  PROVE  LinkSpec => ImplementsChannel
<1>1. ConnectedInit => Channel!Init
  BY DEF ConnectedInit, Init, Channel!Init
<1>2. AllInv /\ [LinkNext]_vars => [Channel!Next]_<<asked, delivered>>
  BY ChannelStep
<1> QED
  BY <1>1, <1>2, LinkInvariant, Fits, PTL
     DEF LinkSpec, ImplementsChannel, Channel!Spec, Channel!vars
=============================================================================
