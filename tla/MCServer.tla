------------------------------ MODULE MCServer ------------------------------
(* Small instances of Server for TLC. *)
EXTENDS Server

MCNames   == {"a", "b", "c"}
MCFiles   == {"a", "b,fff"}
MCBaseOf  == [f \in MCFiles |-> IF f = "a" THEN "a" ELSE "b"]
MCTagOf   == [f \in MCFiles |-> IF f = "a" THEN "none" ELSE "type"]
MCFileLen == [f \in MCFiles |-> IF f = "a" THEN 3 ELSE 1]

Rq(op, name, off, size) == [op |-> op, name |-> name, off |-> off, size |-> size]

\* The two blocks of "a", the second of which is past the end of "b".
MCRequests ==
  {Rq("init", f, 0, 1) : f \in MCNames} \cup
  {Rq("read", "a", 0, 2), Rq("read", "a", 2, 1)} \cup
  {Rq(op, "a", 0, 1) : op \in {"info", "close"}}

\* With packets that have no answer.
MCCommands == {Rq(op, "a", 0, 1) : op \in {"ignore", "info", "close", "odd"}}
=============================================================================
