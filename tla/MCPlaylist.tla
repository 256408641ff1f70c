---------------------------- MODULE MCPlaylist ----------------------------
(* Playlist on small instances.                                             *)
EXTENDS Playlist, TLC

CONSTANTS a, b, c

\* Two folders or playlist files that share a medium.
MCLists == {<<a, b>>, <<c, a>>}
MCTwo   == {<<a, b>>, <<b>>}
MCOne   == {<<a, b, c>>}
=============================================================================
