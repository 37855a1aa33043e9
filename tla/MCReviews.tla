------------------------------ MODULE MCReviews ------------------------------
(***************************************************************************)
(* Two workers scrape two pages of one review each, while the site, empty  *)
(* at first, gains and loses reviews: a review can move to the other page  *)
(* before or after that one is read, and both workers can come to insert   *)
(* it.                                                                     *)
(***************************************************************************)
EXTENDS Reviews, TLC

EmptySite == <<>>

Symmetry == Permutations(ScrapeWorkers) \union Permutations(TrustpilotReviews)
=============================================================================
