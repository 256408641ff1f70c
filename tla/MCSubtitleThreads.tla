------------------------- MODULE MCSubtitleThreads -------------------------
(* SubtitleThreads on small instances.                                       *)
EXTENDS SubtitleThreads, TLC
=============================================================================
