----------------------------- MODULE MCPoduleBus -----------------------------
(* A small instance of PoduleBus for TLC; and samples of what              *)
(* RegisterProofs proves of the address lines, each line high by itself    *)
(* and all together.                                                       *)
EXTENDS PoduleBus

MCBits == {0, 1}    \* two lines: one set by one byte and not by the next

Map == INSTANCE AddressMap

Idle    == [nsel |-> 0, hirq |-> 1, hrst |-> 1, nrd |-> 0, nwr |-> 1]
Samples == {2 ^ k : k \in 0 .. 11} \cup {0, 4095}

ASSUME MapSamples ==
  \A a \in Samples :
    /\ Map!Address1(Map!Gpio1(a, 170, Idle, 1, 1)) = a
    /\ Map!Address2(Map!Gpio2(a, 85, Idle, 1)) = a
    /\ Map!IsRead(Map!Gpio2(a, 85, Idle, 1)) /\ ~Map!IsWrite(Map!Gpio2(a, 85, Idle, 1))
=============================================================================
