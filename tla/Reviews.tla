------------------------------- MODULE Reviews -------------------------------
(***************************************************************************)
(* How a scrape turns the pages of Trustpilot into rows of reviews         *)
(* (worker/worker.go, scrapePagesParallel and saveResults).  A goroutine   *)
(* per page reads its page while the site goes on changing; one that fails *)
(* makes the run fail, and only when all have read their pages are the     *)
(* reviews saved one by one, each with a query and then an insert.         *)
(* Several workers can scrape the one website modelled here at a time, as  *)
(* nothing keeps its jobs apart; and they all end where they are when the  *)
(* process does.                                                           *)
(*                                                                         *)
(* When runs start and how they are retried is Dispatch.tla's matter.  The *)
(* site, which puts its newest review first, is external.                  *)
(***************************************************************************)
EXTENDS Integers, Sequences, FiniteSets, SequencesExt

CONSTANTS
    TrustpilotReviews,     \* what may ever be on the site
    FirstReviews,          \* the site at first, the newest first
    ScrapeWorkers,
    MaxPages,              \* websites.max_pages
    PageSize,              \* reviews the site puts on a page
    NoId,                  \* the empty review_id
    LookupMayFail,         \* an element of a review may not be found
    DbMayFail              \* statements may fail

ASSUME ReviewsAssumption ==
    /\ FirstReviews \in Seq(TrustpilotReviews)
    /\ MaxPages \in Nat \ {0} /\ PageSize \in Nat \ {0}
    /\ NoId \notin TrustpilotReviews
    /\ {LookupMayFail, DbMayFail} \subseteq BOOLEAN
    /\ IsFiniteSet(ScrapeWorkers)

VARIABLES
    site,        \* the reviews on Trustpilot, the newest first
    reviews,     \* the table: per review_id "absent", "whole" or "half"
    run,         \* per worker: its processJob, see NoRun
    found,       \* the reviews_found of all completed runs together
    unrecorded   \* history: rows inserted by runs that never recorded a count

vars == <<site, reviews, run, found, unrecorded>>

Pages == 1..MaxPages

Ids == TrustpilotReviews \union {NoId}

NoRun ==
    [at |-> "idle",                       \* then "reading", "saving", "creating"
     pages |-> [p \in Pages |-> "open"],  \* "done", "failed": the goroutine is
     collected |-> <<>>,                  \* allReviews
     next |-> 1,                          \* the position saveResults is at
     saved |-> 0,                         \* savedCount
     calm |-> TRUE,        \* history: no change of the site while it was read
     sharp |-> TRUE,       \* history: every element was found
     refused |-> FALSE]    \* history: an insert failed, and not as a duplicate

Init ==
    /\ site = FirstReviews
    /\ reviews = [i \in Ids |-> "absent"]
    /\ run = [w \in ScrapeWorkers |-> NoRun]
    /\ found = 0
    /\ unrecorded = 0

Stored == {i \in Ids : reviews[i] # "absent"}

-----------------------------------------------------------------------------
(* Runs that are reading notice, or do not, that the site changes. *)
SiteBecomes(new) ==
    /\ site' = new
    /\ run' = [w \in ScrapeWorkers |->
          IF run[w].at = "reading" THEN [run[w] EXCEPT !.calm = FALSE] ELSE run[w]]
    /\ UNCHANGED <<reviews, found, unrecorded>>

(* A customer writes a review: all others move one place back. *)
SiteGains(r) == r \notin Range(site) /\ SiteBecomes(<<r>> \o site)

(* A review is taken down: those behind it move up. *)
SiteLoses(i) == SiteBecomes(RemoveAt(site, i))

Begin(w) ==
    /\ run[w].at = "idle"
    /\ run' = [run EXCEPT ![w] = [NoRun EXCEPT !.at = "reading"]]
    /\ UNCHANGED <<site, reviews, found, unrecorded>>

(* What page p shows now. *)
PageContent(p) ==
    SubSeq(site, (p - 1) * PageSize + 1,
           IF p * PageSize < Len(site) THEN p * PageSize ELSE Len(site))

(* The element lookups of ScrapeWithContext ignore their errors: a review   *)
(* is read in full, or without its rating, say ("half"), or not even with   *)
(* its id.  All reviews read without one have the same, the empty, id: the  *)
(* table takes the first of them and no other.                              *)
Reading(r, how) ==
    IF how = "blank" THEN [id |-> NoId, how |-> "half"] ELSE [id |-> r, how |-> how]

(* The reviews a goroutine gets to see: an error of the query for the cards *)
(* is ignored as well, and the page then counts as one without reviews.     *)
Shown(p) == {PageContent(p)} \union (IF LookupMayFail THEN {<<>>} ELSE {})

(* A goroutine has loaded its page, and appends what it found on it under   *)
(* the lock.                                                                *)
ReadPage(w, p) ==
    /\ run[w].at = "reading"
    /\ run[w].pages[p] = "open"
    /\ \E shown \in Shown(p) :
       \E how \in [1..Len(shown) ->
                     IF LookupMayFail THEN {"whole", "half", "blank"} ELSE {"whole"}] :
          run' = [run EXCEPT
              ![w].pages[p] = "done",
              ![w].collected = @ \o [i \in 1..Len(shown) |-> Reading(shown[i], how[i])],
              ![w].sharp = @ /\ shown = PageContent(p) /\ \A i \in DOMAIN how : how[i] = "whole"]
    /\ UNCHANGED <<site, reviews, found, unrecorded>>

(* The browser refuses or loses the page, a timeout passes, or another      *)
(* goroutine's error has cancelled the context of this one.                 *)
PageFails(w, p) ==
    /\ run[w].at = "reading"
    /\ run[w].pages[p] = "open"
    /\ run' = [run EXCEPT ![w].pages[p] = "failed"]
    /\ UNCHANGED <<site, reviews, found, unrecorded>>

AllReturned(w) == \A p \in Pages : run[w].pages[p] # "open"

(* Mutant: the group's error is not looked at. *)
AnyFailedUnseen(w) == FALSE

AnyFailed(w) == \E p \in Pages : run[w].pages[p] = "failed"

(* g.Wait returns an error: the job fails, what was read is thrown away. *)
ScrapeFails(w) ==
    /\ run[w].at = "reading"
    /\ AllReturned(w) /\ AnyFailed(w)
    /\ run' = [run EXCEPT ![w] = NoRun]
    /\ UNCHANGED <<site, reviews, found, unrecorded>>

ScrapeSucceeds(w) ==
    /\ run[w].at = "reading"
    /\ AllReturned(w) /\ ~AnyFailed(w)
    /\ run' = [run EXCEPT ![w].at = "saving", ![w].calm = TRUE, ![w].sharp = TRUE]
    /\ UNCHANGED <<site, reviews, found, unrecorded>>

Current(w) == run[w].collected[run[w].next]

(* Mutant: no continue behind a review that exists. *)
LookUpFallsThrough(w) ==
    /\ run[w].at = "saving"
    /\ run[w].next <= Len(run[w].collected)
    /\ run' = [run EXCEPT
          ![w].at = "creating",
          ![w].next = IF Current(w).id \in Stored THEN @ + 1 ELSE @]
    /\ UNCHANGED <<site, reviews, found, unrecorded>>

(* saveResults asks for the review, and skips it if it is there.  A query   *)
(* that fails counts as not there.                                          *)
LookUp(w) ==
    /\ run[w].at = "saving"
    /\ run[w].next <= Len(run[w].collected)
    /\ \/ /\ Current(w).id \in Stored
          /\ run' = [run EXCEPT ![w].next = @ + 1]
       \/ /\ Current(w).id \notin Stored \/ DbMayFail
          /\ run' = [run EXCEPT ![w].at = "creating"]
    /\ UNCHANGED <<site, reviews, found, unrecorded>>

(* Mutant: a review that could not be inserted is counted as well. *)
CreateCountsAll(w) ==
    /\ run[w].at = "creating"
    /\ reviews' = [reviews EXCEPT ![Current(w).id] =
                     IF @ = "absent" THEN Current(w).how ELSE @]
    /\ run' = [run EXCEPT
          ![w].at = "saving", ![w].next = @ + 1, ![w].saved = @ + 1]
    /\ UNCHANGED <<site, found, unrecorded>>

(* Mutant: the first duplicate ends the loop. *)
CreateBreaks(w) ==
    /\ run[w].at = "creating"
    /\ \/ /\ Current(w).id \notin Stored
          /\ reviews' = [reviews EXCEPT ![Current(w).id] = Current(w).how]
          /\ run' = [run EXCEPT
                ![w].at = "saving", ![w].next = @ + 1, ![w].saved = @ + 1]
       \/ /\ Current(w).id \in Stored
          /\ run' = [run EXCEPT
                ![w].at = "saving", ![w].next = Len(run[w].collected) + 1]
          /\ UNCHANGED reviews
    /\ UNCHANGED <<site, found, unrecorded>>

(* The insert.  The unique index on review_id refuses a review that another *)
(* worker has inserted since the query; then, and when the statement fails, *)
(* the loop goes on to the next review.                                     *)
CreateReview(w) ==
    /\ run[w].at = "creating"
    /\ \/ /\ Current(w).id \notin Stored
          /\ reviews' = [reviews EXCEPT ![Current(w).id] = Current(w).how]
          /\ run' = [run EXCEPT
                ![w].at = "saving", ![w].next = @ + 1, ![w].saved = @ + 1]
       \/ /\ Current(w).id \in Stored
          /\ run' = [run EXCEPT ![w].at = "saving", ![w].next = @ + 1]
          /\ UNCHANGED reviews
       \/ /\ DbMayFail
          /\ run' = [run EXCEPT
                ![w].at = "saving", ![w].next = @ + 1, ![w].refused = TRUE]
          /\ UNCHANGED reviews
    /\ UNCHANGED <<site, found, unrecorded>>

(* All reviews are done: the row of the job is completed with the count, by *)
(* a Save whose error nobody looks at.                                      *)
Complete(w) ==
    /\ run[w].at = "saving"
    /\ run[w].next > Len(run[w].collected)
    /\ \/ found' = found + run[w].saved /\ UNCHANGED unrecorded
       \/ /\ DbMayFail
          /\ unrecorded' = unrecorded + run[w].saved
          /\ UNCHANGED found
    /\ run' = [run EXCEPT ![w] = NoRun]
    /\ UNCHANGED <<site, reviews>>

SavedByRuns == FoldFunction(+, 0, [w \in ScrapeWorkers |-> run[w].saved])

(* The process ends: it is killed, or a goroutine finds no launcher manager *)
(* for its browser, which panics (MustNewManaged, MustClient), and nothing  *)
(* recovers.                                                                *)
ProcessEnds ==
    /\ run' = [w \in ScrapeWorkers |-> NoRun]
    /\ unrecorded' = unrecorded + SavedByRuns
    /\ UNCHANGED <<site, reviews, found>>

RunStep(w) ==
    \/ Begin(w)
    \/ \E p \in Pages : ReadPage(w, p)
    \/ \E p \in Pages : PageFails(w, p)
    \/ ScrapeFails(w) \/ ScrapeSucceeds(w)
    \/ LookUp(w) \/ CreateReview(w) \/ Complete(w)

Next ==
    \/ \E r \in TrustpilotReviews : SiteGains(r)
    \/ \E i \in 1..Len(site) : SiteLoses(i)
    \/ \E w \in ScrapeWorkers : RunStep(w)
    \/ ProcessEnds

Spec == Init /\ [][Next]_vars

-----------------------------------------------------------------------------
Readings == [id : Ids, how : {"whole", "half"}]

Runs ==
    [at : {"idle", "reading", "saving", "creating"},
     pages : [Pages -> {"open", "done", "failed"}],
     collected : Seq(Readings),
     next : Nat \ {0}, saved : Nat,
     calm : BOOLEAN, sharp : BOOLEAN, refused : BOOLEAN]

(* The types of the table and of the runs, and saveResults' position.       *)
TypeOK ==
    /\ site \in Seq(TrustpilotReviews)
    /\ reviews \in [Ids -> {"absent", "whole", "half"}]
    /\ run \in [ScrapeWorkers -> Runs]
    /\ \A w \in ScrapeWorkers :
          /\ run[w].next <= Len(run[w].collected) + 1
          /\ run[w].at = "creating" => run[w].next <= Len(run[w].collected)
          /\ run[w].saved < run[w].next
    /\ found \in Nat /\ unrecorded \in Nat

(* reviews_found is exact though workers race to insert the same reviews:   *)
(* every row of the table is counted by one run and by no other, or was     *)
(* inserted by a run that could not record its count, because its last Save *)
(* failed or the process ended.                                             *)
EveryRowCounted == Cardinality(Stored) = found + unrecorded + SavedByRuns

(* No review that was read with its id is dropped: when saveResults has     *)
(* passed it, it is in the table, stored by this run or by another, unless  *)
(* the database refused to insert it.                                       *)
SeenIsStored ==
    \A w \in ScrapeWorkers : \A i \in 1..(run[w].next - 1) :
        ~run[w].refused /\ run[w].collected[i].id # NoId =>
            run[w].collected[i].id \in Stored

(* A run whose pages all succeed has read all that the first MaxPages pages *)
(* show, whatever order its goroutines ran in, unless the site changed      *)
(* meanwhile or an element was not found; if a page is missing, nothing is  *)
(* saved.                                                                   *)
CalmScrapeReadsAll ==
    [][\A w \in ScrapeWorkers :
          /\ run[w].at = "reading" /\ run'[w].at = "saving"
          /\ run[w].calm /\ run[w].sharp
          => \A i \in 1..Len(site) : i <= MaxPages * PageSize =>
                \E k \in 1..Len(run[w].collected) : run[w].collected[k].id = site[i]]_vars

=============================================================================
