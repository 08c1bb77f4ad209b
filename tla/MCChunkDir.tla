----------------------------- MODULE MCChunkDir -----------------------------
(* Small instances of ChunkDir for TLC: texts and files of every length modulo  *)
(* 4, an empty file, one that is missing, and one too long for its entry.       *)
EXTENDS ChunkDir

MCTexts == {[o \in TextOptions |-> 0],
            [o \in TextOptions |-> IF o = "descr" THEN 4 ELSE 0],
            [o \in TextOptions |-> IF o \in {"descr", "serial"} THEN 3 ELSE 1]}
MCFiles == {NoFile, 0, 1, 2, 7, 8, 17}

MCJobs ==
  [header : BOOLEAN, texts : MCTexts, loader : {<<>>, <<6>>},
   modules : {<<>>} \cup {<<f>> : f \in MCFiles} \cup {<<f, 5>> : f \in MCFiles},
   part : {FALSE}, outfile : {TRUE}, round : {0, 16, 24}]
  \cup [header : {TRUE}, texts : MCTexts, loader : {<<>>}, modules : {<<1>>},
        part : BOOLEAN, outfile : BOOLEAN, round : {0}]
=============================================================================
