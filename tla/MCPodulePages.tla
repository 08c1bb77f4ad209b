--------------------------- MODULE MCPodulePages ---------------------------
(* Small instances of PodulePages for TLC. *)
EXTENDS PodulePages

MCRomPages    == 257          \* pages that differ in either byte of the number
MCAskedPages  == {0, 1, 256, 257}
MCModulePages == {0, 1}
=============================================================================
