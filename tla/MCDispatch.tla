----------------------------- MODULE MCDispatch -----------------------------
(***************************************************************************)
(* One scrape job and one notification job, so that every worker finds     *)
(* jobs of both kinds.  Two scrape workers race for them in the safety     *)
(* run, where record writes may fail; the liveness run has one worker of   *)
(* each kind and writes that succeed.                                      *)
(***************************************************************************)
EXTENDS Dispatch, TLC

(* Workers of one kind are interchangeable; safety runs only. *)
Symmetry == Permutations(ScrapeWorkers)
=============================================================================
