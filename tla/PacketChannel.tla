--------------------------- MODULE PacketChannel ---------------------------
(***************************************************************************)
(* What one direction of the pipe promises: "The podule provides reliable  *)
(* transport for packets" (README.md:123).  A sender hands packets over, a *)
(* receiver gets each of them whole, once, and in the order of sending.    *)
(* PipeTx (Arc to host) and PipeRx (host to Arc) are shown to implement    *)
(* this specification, each under the assumptions its own module names.    *)
(***************************************************************************)
EXTENDS Naturals, Sequences

CONSTANT Packets    \* whatever a packet is: the channel does not look inside

VARIABLES
  sent,             \* every packet handed to the channel, oldest first
  delivered         \* every packet handed out of it, oldest first

vars == <<sent, delivered>>

Init ==
  /\ sent = <<>>
  /\ delivered = <<>>

Send ==
  /\ \E p \in Packets : sent' = Append(sent, p)
  /\ UNCHANGED delivered

Deliver ==
  /\ Len(delivered) < Len(sent)
  /\ delivered' = Append(delivered, sent[Len(delivered) + 1])
  /\ UNCHANGED sent

Next == Send \/ Deliver

Spec == Init /\ [][Next]_vars
=============================================================================
