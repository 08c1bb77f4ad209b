---------------------------- MODULE PacketService ----------------------------
(***************************************************************************)
(* The server as its clients know it, with whole packets: it takes the     *)
(* requests in order, answers each at most once, and loses no answer but   *)
(* with a connection, for clients that ask nothing more while an answer is *)
(* due.  The bytes of Server implement it, and the commands of Commands    *)
(* are such clients.                                                       *)
(***************************************************************************)
EXTENDS RawFile

VARIABLES
  asked,        \* number of requests made
  toHost,       \* requests on their way to the server
  toArc,        \* answers on their way back
  held,         \* the answer that waits to be sent, if any
  channel,      \* the file the server has open
  alive         \* the server is running

serviceVars == <<asked, toHost, toArc, held, channel, alive>>

Init ==
  /\ asked = 0 /\ toHost = <<>> /\ toArc = <<>> /\ held = <<>>
  /\ channel = RawfileInit /\ alive = TRUE

\* No answer is due: none is on its way, nor a request that may be given one.
Settled ==
  /\ held = <<>> /\ toArc = <<>>
  /\ \A k \in 1 .. Len(toHost) : Silent(toHost[k].rq)

\* A client makes a request, which may not be sent after all.
Ask ==
  /\ asked' = asked + 1
  /\ \/ UNCHANGED toHost
     \/ /\ toHost' # <<>>
        /\ LET packet == toHost'[Len(toHost')]
           IN  /\ toHost' = Append(toHost, packet)
               /\ packet.req = asked' /\ packet.rq \in Request
               /\ Silent(packet.rq) \/ Settled
  /\ UNCHANGED <<toArc, held, channel, alive>>

\* The server does what a request says; its answer waits, and overwrites none.
Serve ==
  /\ alive /\ toHost # <<>>
  /\ toHost' = Tail(toHost)
  /\ channel' = AfterRequest(channel, Head(toHost).rq)
  /\ LET rps == Replies(channel', Head(toHost).rq)
     IN  \/ rps = <<>> /\ UNCHANGED held
         \/ /\ rps # <<>> /\ held = <<>>
            /\ held' = <<[req |-> Head(toHost).req, reply |-> rps[1]]>>
  /\ UNCHANGED <<asked, toArc, alive>>

Output ==
  /\ alive /\ held # <<>>
  /\ toArc' = Append(toArc, held[1]) /\ held' = <<>>
  /\ UNCHANGED <<asked, toHost, channel, alive>>

\* The answer has come.
Take ==
  /\ toArc # <<>> /\ toArc' = Tail(toArc)
  /\ UNCHANGED <<asked, toHost, held, channel, alive>>

\* The connection is lost, with what was on its way, and made again.
Reconnect ==
  /\ alive
  /\ channel' = RawfileReopen(channel)
  /\ toHost' = <<>> /\ toArc' \in {<<>>, toArc}
  /\ UNCHANGED <<asked, held, alive>>

\* Two requests together may kill the server, which loses all it had.
Die ==
  /\ alive /\ Len(toHost) >= 2
  /\ alive' = FALSE
  /\ toHost' = <<>> /\ held' = <<>> /\ channel' = RawfileInit
  /\ UNCHANGED <<asked, toArc>>

Restart ==
  /\ alive' = TRUE /\ held' = <<>> /\ channel' = RawfileInit
  /\ UNCHANGED <<asked, toHost, toArc>>

Next == Ask \/ Serve \/ Output \/ Take \/ Reconnect \/ Die \/ Restart

Spec == Init /\ [][Next]_serviceVars
=============================================================================
