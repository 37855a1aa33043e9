------------------------------ MODULE Listing -------------------------------
(***************************************************************************)
(* GET /api/reviews (ReviewHandler.List and ListByWebsite): filtered,      *)
(* sorted and cut into pages.  A client walks the pages of one query from  *)
(* the first until the answer says there are no more, or asks for a page   *)
(* of its choice, while scrapes insert reviews; nothing deletes them.      *)
(*                                                                         *)
(* The rows are counted by one statement and fetched by another.  Both are *)
(* the database's, external here: rows that the sort column does not tell  *)
(* apart come in an order of its choice, each time anew; gorm leaves an    *)
(* OFFSET below 1 out.  Each may fail.  The handler drops the error of the *)
(* count; gorm keeps it in the query, which the fetch then may hand back   *)
(* instead of rows.  Both outcomes are left open here.  The website and    *)
(* search filters are the choice of Reviews, the client is external.  Go's *)
(* int has Width bits.                                                     *)
(***************************************************************************)
EXTENDS Integers, FiniteSets

CONSTANTS
    Reviews,
    Field,           \* per sort column, the value each review has in it
    RatingFilters,   \* the sets of numbers clients ask for
    SortColumns,     \* the columns clients ask for, allowed or not
    Pages, Limits,   \* the numbers clients ask for; what Atoi refuses is
                     \* the default, 1 or 20
    MaxLimit,        \* 100
    Width            \* 64

Columns == {"date", "rating", "created_at", "reviewer"}

(* Go's ints are -Half..(Half - 1), and the table's keys are among them. *)
Half == 2^(Width - 1)

ASSUME ListingAssumption ==
    /\ Field \in [Columns -> [Reviews -> Int]]
    /\ RatingFilters \subseteq SUBSET Int
    /\ Half \in Nat \ {0}
    /\ Pages \union Limits \subseteq -Half..(Half - 1)
    /\ MaxLimit \in Nat \ {0}
    /\ IsFiniteSet(Reviews) /\ Cardinality(Reviews) < Half

VARIABLES
    stored,      \* the reviews in the table
    query,       \* what the client asks for: filter, sort, page, limit
    at,          \* how far the request is; "done" when the client is
    walking,     \* the client walks, or asks for one page
    total,       \* the handler's count
    answer,      \* the reviews of the last answer
    base,        \* history: reviews that were there when the walk began
    seen,        \* history: reviews the walk has seen
    grown,       \* history: reviews came in between count and fetch
    erred        \* history: a statement of the last request failed

clientVars == <<query, walking, base, seen>>
vars == <<stored, clientVars, at, total, answer, grown, erred>>

AtLeast(n, bound) == IF n < bound THEN bound ELSE n
AtMost(n, bound) == IF n > bound THEN bound ELSE n

(* Arithmetic on int. *)
Wrap(n) == ((n + Half) % (2 * Half)) - Half

Page == AtLeast(query.page, 1)
Limit == AtMost(AtLeast(query.limit, 1), MaxLimit)

(* Only what is a rating filters; without one there is no filter. *)
RatingFilter == query.ratings \intersect 1..5

Matching ==
    {r \in stored : RatingFilter = {} \/ Field["rating"][r] \in RatingFilter}

(* parseSort: another column means the newest first. *)
Sort ==
    IF query.column \in Columns
      THEN [column |-> query.column, ascending |-> query.ascending]
      ELSE [column |-> "date", ascending |-> FALSE]

Before(r, s) ==
    IF Sort.ascending THEN Field[Sort.column][r] < Field[Sort.column][s]
                      ELSE Field[Sort.column][r] > Field[Sort.column][s]

Beginning(S) == \A r \in S, s \in Matching \ S : ~Before(s, r)

(* Mutant: pages are counted from 0. *)
OffsetFromZero == Wrap(Page * Limit)

Offset == Wrap((Page - 1) * Limit)

(* What LIMIT and OFFSET may select under ORDER BY. *)
Selections ==
    {S \in SUBSET Matching :
        \E skipped \in SUBSET (Matching \ S) :
            /\ Cardinality(skipped) =
                  AtMost(AtLeast(Offset, 0), Cardinality(Matching))
            /\ Cardinality(S) =
                  AtMost(Limit, Cardinality(Matching \ skipped))
            /\ Beginning(skipped)
            /\ Beginning(skipped \union S)}

(* Mutant: the last page counts only if it is full. *)
FullPages == total \div Limit

TotalPages == total \div Limit + (IF total % Limit > 0 THEN 1 ELSE 0)

-----------------------------------------------------------------------------
Queries ==
    [ratings : RatingFilters, column : SortColumns, ascending : BOOLEAN,
     page : Pages, limit : Limits]

Init ==
    /\ stored = {}
    /\ query \in {q \in Queries : q.page = 1}
    /\ at = "done"
    /\ walking = FALSE
    /\ total = 0
    /\ answer = {} /\ base = {} /\ seen = {}
    /\ grown = FALSE /\ erred = FALSE

(* saveResults of a scrape worker. *)
Insert(r) ==
    /\ r \notin stored
    /\ stored' = stored \union {r}
    /\ grown' = (grown \/ at = "counted")
    /\ UNCHANGED <<clientVars, at, total, answer, erred>>

(* A new walk, or a single request. *)
Ask(q, walk) ==
    /\ at = "done"
    /\ walk => q.page = 1
    /\ query' = q
    /\ walking' = walk
    /\ base' = stored
    /\ seen' = {}
    /\ at' = "asked"
    /\ total' = 0
    /\ answer' = {}
    /\ grown' = FALSE /\ erred' = FALSE
    /\ UNCHANGED stored

Count ==
    /\ at = "asked"
    /\ total' = Cardinality(Matching)
    /\ grown' = FALSE
    /\ at' = "counted"
    /\ UNCHANGED <<stored, clientVars, answer, erred>>

CountFails ==
    /\ at = "asked"
    /\ total' = 0
    /\ grown' = FALSE
    /\ erred' = TRUE
    /\ at' = "counted"
    /\ UNCHANGED <<stored, clientVars, answer>>

Find ==
    /\ at = "counted"
    /\ \E S \in Selections :
          /\ answer' = S
          /\ seen' = seen \union S
    /\ at' = "answered"
    /\ UNCHANGED <<stored, query, walking, base, total, grown, erred>>

(* The fetch fails, or hands the error of the count back: no rows, and the  *)
(* client gives up.                                                         *)
FindFails ==
    /\ at = "counted"
    /\ at' = "done"
    /\ erred' = TRUE
    /\ UNCHANGED <<stored, clientVars, total, answer, grown>>

(* Mutant: the client is not told how many pages there are. *)
NextPageAlways ==
    /\ at = "answered"
    /\ walking
    /\ query' = [query EXCEPT !.page = @ + 1]
    /\ at' = "asked"
    /\ answer' = {}
    /\ total' = 0
    /\ UNCHANGED <<stored, walking, base, seen, grown, erred>>

NextPage ==
    /\ at = "answered"
    /\ walking
    /\ Page < TotalPages
    /\ query' = [query EXCEPT !.page = @ + 1]
    /\ at' = "asked"
    /\ answer' = {}
    /\ total' = 0
    /\ UNCHANGED <<stored, walking, base, seen, grown, erred>>

Stop ==
    /\ at = "answered"
    /\ ~walking \/ Page >= TotalPages
    /\ at' = "done"
    /\ UNCHANGED <<stored, clientVars, total, answer, grown, erred>>

Next ==
    \/ \E r \in Reviews : Insert(r)
    \/ \E q \in Queries, walk \in BOOLEAN : Ask(q, walk)
    \/ Count \/ CountFails \/ Find \/ FindFails
    \/ NextPage \/ Stop

Spec == Init /\ [][Next]_vars

-----------------------------------------------------------------------------
(* The types of the table, the query and the answer. *)
TypeOK ==
    /\ stored \subseteq Reviews
    /\ query \in [ratings : RatingFilters, column : SortColumns,
                  ascending : BOOLEAN,
                  page : Pages \union 1..Cardinality(stored),
                  limit : Limits]
    /\ at \in {"done", "asked", "counted", "answered"}
    /\ walking \in BOOLEAN /\ grown \in BOOLEAN /\ erred \in BOOLEAN
    /\ total \in 0..Cardinality(stored)
    /\ base \subseteq stored /\ seen \subseteq stored
    /\ answer \subseteq seen

(* A walk over all pages has seen every review that was there from its      *)
(* beginning, although reviews come in meanwhile and push others to later   *)
(* pages.  Three things break this: the sort column does not tell the       *)
(* review from another (no second column decides), reviews came in between  *)
(* the count and the fetch of the last page, or a statement failed: a count *)
(* that fails is 0, which ends the walk without a word.                     *)
Alone(r) ==
    \A s \in Matching \ {r} : Field[Sort.column][s] # Field[Sort.column][r]

WalkMissesNothing ==
    at = "done" /\ walking /\ ~grown /\ ~erred =>
        \A r \in base \intersect Matching : Alone(r) => r \in seen

(* The answer agrees with what it says about itself: pages before the last  *)
(* are full, and behind the last there is nothing, unless reviews came in   *)
(* between count and fetch, or the count failed.  A page so large that      *)
(* (page - 1) * limit leaves int is another page, often the first.          *)
PageAsAnnounced ==
    at = "answered" /\ Wrap((Page - 1) * Limit) = (Page - 1) * Limit =>
        /\ Page < TotalPages => Cardinality(answer) = Limit
        /\ Page > TotalPages /\ ~grown /\ ~erred => answer = {}
=============================================================================
