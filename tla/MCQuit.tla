------------------------------- MODULE MCQuit -------------------------------
(***************************************************************************)
(* Quit with the program's own delays, in half seconds, on every platform. *)
(***************************************************************************)
EXTENDS Quit

MCPlatforms == {"darwin", "linux", "win32"}
=============================================================================
