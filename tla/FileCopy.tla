------------------------------ MODULE FileCopy ------------------------------
(***************************************************************************)
(* What *PCPL promises its user (README.md, "copy a file to local FS"): it *)
(* ends with a true copy of the remote file, or says that there is no such *)
(* file and leaves the local one alone, or returns an error; at no time is *)
(* there anything in the local file but a beginning of the remote one.     *)
(***************************************************************************)
EXTENDS Integers, Sequences

CONSTANTS
  Names,        \* names of remote files
  Remote,       \* those that there are: their data and attributes
  NoName,       \* no copy is under way
  NewAttr       \* attributes of a file just created

VARIABLES
  asked,        \* name of the file being copied
  local,        \* the local file
  result        \* how the last copy ended

copyVars == <<asked, local, result>>

\* Nothing, or a beginning of the file asked for.
Beginning(file) ==
  /\ Len(file.data) <= Len(Remote[asked].data)
  /\ file.data = SubSeq(Remote[asked].data, 1, Len(file.data))

Init == asked = NoName /\ result = "none"

Begin ==
  /\ asked = NoName
  /\ asked' \in Names /\ result' = "none"
  /\ UNCHANGED local

\* Create the local file, or write more of it, or set its attributes.
Write ==
  /\ asked \in DOMAIN Remote
  /\ Beginning(local')
  /\ local'.attr \in {NewAttr, Remote[asked].attr}
  /\ UNCHANGED <<asked, result>>

End(how) ==
  /\ asked # NoName
  /\ asked' = NoName /\ result' = how
  /\ UNCHANGED local

Done   == asked \in DOMAIN Remote /\ local = Remote[asked] /\ End("done")
Refuse == asked \notin DOMAIN Remote /\ End("refused")
Fail   == End("error")

Next == Begin \/ Write \/ Done \/ Refuse \/ Fail

Spec == Init /\ [][Next]_copyVars
=============================================================================
