--------------------------- MODULE MCMemoryQueue ----------------------------
(***************************************************************************)
(* Three jobs at a time, and any number one after the other, with          *)
(* priorities of which two may be equal, accepted at once or one unit      *)
(* ahead; three attempts with back-offs of one unit, two units, and a      *)
(* third one that wraps to a time in the past.                             *)
(***************************************************************************)
EXTENDS MemoryQueue
=============================================================================
