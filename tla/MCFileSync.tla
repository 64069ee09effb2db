----------------------------- MODULE MCFileSync -----------------------------
(* Instances of FileSync: MAX_ADB_DATA is 10 words, and the file is sent   *)
(* in three chunks, the last of them short.                                *)
EXTENDS FileSync

ThreeChunks == <<4, 4, 1>>
=============================================================================
