----------------------------- MODULE MCDelivery -----------------------------
(***************************************************************************)
(* Two workers on two channels and two reviews: a worker can be anywhere   *)
(* in a run for the same channel, or for the other one, while a second     *)
(* worker runs, and a review newer or older than the picked one comes in.  *)
(* The receivers refuse no review, one of them or both; when they refuse   *)
(* none, the older one waits behind the newer.  One channel's receiver may *)
(* never answer.  No symmetry, as liveness is checked.                     *)
(***************************************************************************)
EXTENDS Delivery
=============================================================================
