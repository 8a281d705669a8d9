----------------------------- MODULE MCPlaylist -----------------------------
(* A small instance of Playlist for TLC. *)
EXTENDS Playlist

CONSTANTS a, b
=============================================================================
