------------------------------ MODULE MCPipeRx ------------------------------
(* Small instances of PipeRx for TLC. *)
EXTENDS PipeRx

MCLens == {1, 2}              \* a partly filled and a full RX buffer

\* Samples of what RegisterProofs proves of the word a packet is posted with.
D == INSTANCE Descriptor

ASSUME PostedSamples ==
  \A cid \in {{0}, {1, 6}}, size \in {{}, {0, 8}} :
    LET r4 == D!RxLoaded(cid, size)
    IN  D!RxCid(r4) = cid /\ D!RxSize(r4) = size
=============================================================================
