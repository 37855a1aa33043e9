----------------------------- MODULE MCTemplates ----------------------------
(***************************************************************************)
(* Two templates and one channel, so that the channel can move; the        *)
(* default file and one that does not come with the container.  One API    *)
(* call can be between its two statements at a time: a delete, the file    *)
(* operations and each step of the run can come in between.                *)
(***************************************************************************)
EXTENDS Templates, TLC

Symmetry == Permutations(Ids)
=============================================================================
