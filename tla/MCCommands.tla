----------------------------- MODULE MCCommands -----------------------------
(* Small instance of Commands for TLC: names with several files to choose   *)
(* from, an empty file, one of a block and one of a block and a bit.        *)
EXTENDS Commands

MCNames   == {"a", "b", "c", "d"}
MCFiles   == {"a", "a,8000-8000", "b", "b,fff", "c"}
MCBaseOf  == [f \in MCFiles |->
                CASE f \in {"a", "a,8000-8000"} -> "a" [] f \in {"b", "b,fff"} -> "b" [] OTHER -> "c"]
MCTagOf   == [f \in MCFiles |->
                CASE f = "a,8000-8000" -> "addr" [] f = "b,fff" -> "type" [] OTHER -> "none"]
MCFileLen == [f \in MCFiles |->
                CASE f = "a,8000-8000" -> 3 [] f = "c" -> 0 [] f = "b,fff" -> 2 [] OTHER -> 1]
=============================================================================
