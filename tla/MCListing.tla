------------------------------ MODULE MCListing -----------------------------
(***************************************************************************)
(* Four reviews with different dates, two of them with the same rating and *)
(* reviewer.  Clients ask for pages and limits below and above what makes  *)
(* sense; with ints of four bits, page 7 with limit 3 already overflows.   *)
(***************************************************************************)
EXTENDS Listing

MCReviews == 1..4
Dates == [r \in MCReviews |-> r]
Ratings == <<1, 3, 3, 5>>

MCField == [date |-> Dates, created_at |-> Dates, rating |-> Ratings,
            reviewer |-> Ratings]
MCRatingFilters == {{}, {0, 9}, {1, 3, 6}}
=============================================================================
