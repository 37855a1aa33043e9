--------------------------- MODULE ListingProofs ----------------------------
(***************************************************************************)
(* Proofs about Listing: the types, PageAsAnnounced and WalkMissesNothing, *)
(* for every table, every query and every width of int.                    *)
(*                                                                         *)
(* What a walk may have missed so far (Missing) is counted by place: every *)
(* missing review that the sort column tells from all others has at least  *)
(* as many reviews before it as the pages read so far hold.  A review that *)
(* comes in can only push it further back, and the next page either holds  *)
(* it or ends before it.  At the last page nothing is left to be before it.*)
(***************************************************************************)
EXTENDS Listing, FiniteSetTheorems, TLAPS

(* How many matching reviews the pages asked for so far cover. *)
Reached == IF at = "answered" THEN Page * Limit ELSE (Page - 1) * Limit

Ahead(r) == {s \in Matching : Before(s, r)}

Missing == {r \in base \intersect Matching : Alone(r) /\ r \notin seen}

(* The count is of the table as it is, or as it was before it grew, unless  *)
(* it failed.                                                               *)
CountedRight ==
    at = "counted" =>
        /\ total <= Cardinality(Matching)
        /\ ~grown /\ ~erred => total = Cardinality(Matching)

WalkOnCourse ==
    walking /\ at # "done" =>
        /\ query.page >= 1
        /\ at # "answered" => Reached <= Cardinality(stored)
        /\ \A r \in Missing :
              /\ Cardinality(Ahead(r)) >= Reached
              /\ at = "answered" /\ ~grown /\ ~erred => Reached < total

Inv ==
    /\ TypeOK
    /\ CountedRight
    /\ PageAsAnnounced
    /\ WalkOnCourse
    /\ WalkMissesNothing

-----------------------------------------------------------------------------
(* Lemmas on the arithmetic of pages. *)

(* A number of rows that a table can have is not changed by int. *)
LEMMA WrapKeeps ==
    ASSUME NEW n \in Nat, n < Half
    PROVE  Wrap(n) = n
BY ListingAssumption DEF ListingAssumption, Wrap

(* Pages before the last end before the total, all others do not. *)
LEMMA PageCount ==
    ASSUME total \in Nat, NEW L \in Nat \ {0}, Limit = L
    PROVE  /\ TotalPages \in 0..total
           /\ \A p \in Nat : p < TotalPages => p * L < total
           /\ \A p \in Nat : p >= TotalPages => p * L >= total
<1> PICK t \in Nat : t = total
  OBVIOUS
<1> PICK q \in Nat : q = t \div L
  OBVIOUS
<1> PICK m \in 0..(L - 1) : m = t % L
  OBVIOUS
<1>1. t = (q * L) + m
  OBVIOUS
<1>2. q <= q * L
  OBVIOUS
<1>3. TotalPages = q + (IF m > 0 THEN 1 ELSE 0)
  BY DEF TotalPages
<1>4. TotalPages \in 0..t
  BY <1>1, <1>2, <1>3
<1>5. ASSUME NEW p \in Nat, p < TotalPages
      PROVE  p * L < t
  <2>1. p <= q /\ (m = 0 => p + 1 <= q)
    BY <1>3, <1>5
  <2>2. p * L <= q * L
    BY <2>1
  <2>3. CASE m > 0
    <3>1. p * L \in Nat /\ q * L \in Nat
      OBVIOUS
    <3> QED  BY <1>1, <2>2, <2>3, <3>1
  <2>4. CASE m = 0
    <3>1. (p + 1) * L <= q * L
      BY <2>1, <2>4
    <3>2. (p + 1) * L = p * L + L
      OBVIOUS
    <3>3. p * L \in Nat /\ q * L \in Nat
      OBVIOUS
    <3> QED  BY <1>1, <2>4, <3>1, <3>2, <3>3
  <2> QED  BY <2>3, <2>4
<1>6. ASSUME NEW p \in Nat, p >= TotalPages
      PROVE  p * L >= t
  <2>1. CASE m > 0
    <3>1. (q + 1) * L <= p * L
      BY <1>3, <1>6, <2>1
    <3>2. (q + 1) * L = q * L + L
      OBVIOUS
    <3>3. p * L \in Nat /\ q * L \in Nat
      OBVIOUS
    <3> QED  BY <1>1, <3>1, <3>2, <3>3
  <2>2. CASE m = 0
    <3>1. q * L <= p * L
      BY <1>3, <1>6, <2>2
    <3> QED  BY <1>1, <2>2, <3>1
  <2> QED  BY <2>1, <2>2
<1> QED  BY <1>4, <1>5, <1>6

(* What the handler makes of the query's numbers. *)
LEMMA PageAndLimit ==
    ASSUME TypeOK
    PROVE  /\ Page \in Nat \ {0} /\ Limit \in Nat \ {0}
           /\ query.page >= 1 => Page = query.page
           /\ (Page - 1) * Limit \in Nat
           /\ Page * Limit = (Page - 1) * Limit + Limit
<1>1. IsFiniteSet(stored) /\ Cardinality(stored) \in Nat
  BY ListingAssumption, FS_Subset, FS_CardinalityType
     DEF ListingAssumption, TypeOK
<1>2. query.page \in Int /\ query.limit \in Int
  BY <1>1, ListingAssumption DEF ListingAssumption, TypeOK
<1>3. Page \in Nat \ {0} /\ (query.page >= 1 => Page = query.page)
  BY <1>2 DEF Page, AtLeast
<1>4. Limit \in Nat \ {0}
  BY <1>2, ListingAssumption
     DEF ListingAssumption, Limit, AtLeast, AtMost
<1>5. \A p, l \in Nat \ {0} :
         (p - 1) * l \in Nat /\ p * l = (p - 1) * l + l
  <2> TAKE p, l \in Nat \ {0}
  <2>1. p - 1 \in Nat
    OBVIOUS
  <2>2. (p - 1) * l \in Nat
    BY <2>1
  <2> QED  BY <2>2
<1> QED  BY <1>3, <1>4, <1>5

-----------------------------------------------------------------------------
(* Lemmas on the table and on what a step leaves in place. *)

LEMMA TableIsFinite ==
    ASSUME stored \subseteq Reviews
    PROVE  /\ IsFiniteSet(stored)
           /\ Cardinality(stored) \in Nat /\ Cardinality(stored) < Half
           /\ IsFiniteSet(Matching)
           /\ Cardinality(Matching) \in Nat
           /\ Cardinality(Matching) <= Cardinality(stored)
<1>1. IsFiniteSet(stored) /\ Cardinality(stored) <= Cardinality(Reviews)
  BY ListingAssumption, FS_Subset DEF ListingAssumption
<1>2. Cardinality(stored) \in Nat /\ Cardinality(Reviews) \in Nat
  BY <1>1, ListingAssumption, FS_CardinalityType DEF ListingAssumption
<1>3. Matching \subseteq stored
  BY DEF Matching
<1>4. IsFiniteSet(Matching) /\ Cardinality(Matching) <= Cardinality(stored)
  BY <1>1, <1>3, FS_Subset
<1>5. Cardinality(Matching) \in Nat
  BY <1>4, FS_CardinalityType
<1> QED  BY <1>1, <1>2, <1>4, <1>5, ListingAssumption DEF ListingAssumption

(* The query asks for the same reviews in the same order. *)
SameQuestion ==
    /\ query'.ratings = query.ratings
    /\ query'.column = query.column
    /\ query'.ascending = query.ascending

(* While the table only grows and the question stays, a walk misses no      *)
(* review that it did not miss before, and none of them moves forward.      *)
LEMMA MissingMovesBack ==
    ASSUME TypeOK, SameQuestion, base' = base, seen \subseteq seen',
           stored \subseteq stored', stored' \subseteq Reviews
    PROVE  /\ Matching \subseteq Matching'
           /\ Cardinality(Matching) <= Cardinality(Matching')
           /\ Cardinality(stored) <= Cardinality(stored')
           /\ Missing' \subseteq Missing
           /\ \A r \in Missing' : /\ Cardinality(Ahead(r)) \in Nat
                                  /\ Cardinality(Ahead(r)') \in Nat
                                  /\ Cardinality(Ahead(r)) <= Cardinality(Ahead(r)')
<1>1. RatingFilter' = RatingFilter /\ Sort' = Sort
  BY DEF SameQuestion, RatingFilter, Sort
<1>2. Matching \subseteq Matching'
  BY <1>1 DEF Matching
<1>3. IsFiniteSet(stored') /\ IsFiniteSet(Matching')
  BY ListingAssumption, FS_Subset DEF ListingAssumption, Matching
<1>4. Cardinality(Matching) <= Cardinality(Matching')
  BY <1>2, <1>3, FS_Subset
<1>5. Cardinality(stored) <= Cardinality(stored')
  BY <1>3, FS_Subset
<1>6. \A r \in base : r \in Matching' => r \in Matching
  BY <1>1 DEF Matching, TypeOK
<1>7. \A r : Alone(r)' => Alone(r)
  BY <1>1, <1>2 DEF Alone
<1>8. Missing' \subseteq Missing
  BY <1>6, <1>7 DEF Missing
<1>9. ASSUME NEW r \in Missing'
      PROVE  /\ Cardinality(Ahead(r)) \in Nat
             /\ Cardinality(Ahead(r)') \in Nat
             /\ Cardinality(Ahead(r)) <= Cardinality(Ahead(r)')
  <2>1. Ahead(r) \subseteq Ahead(r)'
    BY <1>1, <1>2 DEF Ahead, Before
  <2>2. Ahead(r)' \subseteq Matching'
    BY DEF Ahead
  <2>3. IsFiniteSet(Ahead(r)')
    BY <1>3, <2>2, FS_Subset
  <2>4. IsFiniteSet(Ahead(r)) /\ Cardinality(Ahead(r)) <= Cardinality(Ahead(r)')
    BY <2>1, <2>3, FS_Subset
  <2> QED  BY <2>3, <2>4, FS_CardinalityType
<1> QED  BY <1>2, <1>4, <1>5, <1>8, <1>9
-----------------------------------------------------------------------------
(* Lemmas on the fetch: what OFFSET and LIMIT cut out of the rows. *)

(* The rows skipped and the rows selected, by their numbers. *)
LEMMA PageSizes ==
    ASSUME NEW M, IsFiniteSet(M), NEW S \in SUBSET M,
           NEW skipped \in SUBSET (M \ S),
           NEW o \in Nat, NEW L \in Nat \ {0},
           Cardinality(skipped) = AtMost(o, Cardinality(M)),
           Cardinality(S) = AtMost(L, Cardinality(M \ skipped))
    PROVE  /\ Cardinality(skipped) <= o
           /\ o + L <= Cardinality(M) => Cardinality(S) = L
           /\ o >= Cardinality(M) => S = {}
           /\ \A r \in M \ (skipped \union S) :
                 Cardinality(skipped \union S) = o + L
<1>1. IsFiniteSet(skipped) /\ IsFiniteSet(S) /\ IsFiniteSet(M \ skipped)
  BY FS_Subset
<1>2. /\ Cardinality(M) \in Nat /\ Cardinality(skipped) \in Nat
      /\ Cardinality(S) \in Nat /\ Cardinality(M \ skipped) \in Nat
  BY <1>1, FS_CardinalityType
<1>3. Cardinality(M \ skipped) = Cardinality(M) - Cardinality(skipped)
  <2>1. skipped \intersect M = skipped
    OBVIOUS
  <2>2. Cardinality(M \ skipped)
          = Cardinality(M) - Cardinality(M \intersect skipped)
    BY <1>1, FS_Difference
  <2>3. M \intersect skipped = skipped
    BY <2>1
  <2> QED  BY <2>2, <2>3
<1>4. Cardinality(skipped) <= o
  BY <1>2 DEF AtMost
<1>5. o + L <= Cardinality(M) => Cardinality(S) = L
  BY <1>2, <1>3 DEF AtMost
<1>6. ASSUME o >= Cardinality(M)
      PROVE  S = {}
  <2>1. Cardinality(S) = 0
    BY <1>2, <1>3, <1>6 DEF AtMost
  <2> QED  BY <1>1, <2>1, FS_EmptySet
<1>7. ASSUME NEW r \in M \ (skipped \union S)
      PROVE  Cardinality(skipped \union S) = o + L
  <2>1. /\ Cardinality(skipped \union S)
             = Cardinality(skipped) + Cardinality(S)
                 - Cardinality(skipped \intersect S)
        /\ IsFiniteSet(skipped \union S)
    BY <1>1, FS_Union
  <2>2. Cardinality(skipped \intersect S) = 0
    <3>1. skipped \intersect S = {}
      OBVIOUS
    <3> QED  BY <3>1, FS_EmptySet
  <2>3. Cardinality(skipped \union S) < Cardinality(M)
    <3>1. skipped \union S \in SUBSET M /\ skipped \union S # M
      OBVIOUS
    <3>2. /\ Cardinality(skipped \union S) <= Cardinality(M)
          /\ Cardinality(skipped \union S) # Cardinality(M)
      BY <3>1, FS_Subset
    <3>3. Cardinality(skipped \union S) \in Nat
      BY <2>1, FS_CardinalityType
    <3> QED  BY <1>2, <3>2, <3>3
  <2> QED  BY <1>2, <1>3, <2>1, <2>2, <2>3 DEF AtMost
<1> QED  BY <1>4, <1>5, <1>6, <1>7

(* A review in an initial segment has fewer before it than the segment     *)
(* holds; one outside that no other equals has at least as many.           *)
LEMMA SegmentRank ==
    ASSUME stored \subseteq Reviews, NEW S \in SUBSET Matching, Beginning(S),
           NEW r \in Matching
    PROVE  /\ Cardinality(Ahead(r)) \in Nat
           /\ r \in S => Cardinality(Ahead(r)) < Cardinality(S)
           /\ r \notin S /\ Alone(r) => Cardinality(Ahead(r)) >= Cardinality(S)
<1>1. IsFiniteSet(Matching) /\ IsFiniteSet(S) /\ Cardinality(S) \in Nat
  BY TableIsFinite, FS_Subset, FS_CardinalityType
<1>2. IsFiniteSet(Ahead(r)) /\ Cardinality(Ahead(r)) \in Nat
  <2>1. Ahead(r) \subseteq Matching
    BY DEF Ahead
  <2> QED  BY <1>1, <2>1, FS_Subset, FS_CardinalityType
<1>3. /\ Sort.column \in Columns
      /\ \A s \in Matching : Field[Sort.column][s] \in Int
  <2>1. Sort.column \in Columns
    BY DEF Sort, Columns
  <2>2. Matching \subseteq Reviews
    BY DEF Matching
  <2> QED  BY <2>1, <2>2, ListingAssumption DEF ListingAssumption
<1>4. ASSUME r \in S
      PROVE  Cardinality(Ahead(r)) < Cardinality(S)
  <2>1. Ahead(r) \subseteq S \ {r}
    BY <1>3, <1>4 DEF Ahead, Beginning, Before
  <2>2. /\ IsFiniteSet(S \ {r})
        /\ Cardinality(S \ {r}) = Cardinality(S) - 1
    BY <1>1, <1>4, FS_RemoveElement
  <2>3. Cardinality(Ahead(r)) <= Cardinality(S \ {r})
    BY <2>1, <2>2, FS_Subset
  <2> QED  BY <1>1, <1>2, <2>2, <2>3
<1>5. ASSUME r \notin S, Alone(r)
      PROVE  Cardinality(Ahead(r)) >= Cardinality(S)
  <2>1. ASSUME NEW s \in S
        PROVE  s \in Ahead(r)
    <3>1. ~Before(r, s) /\ s \in Matching \ {r}
      BY <1>5 DEF Beginning
    <3>2. Field[Sort.column][s] # Field[Sort.column][r]
      BY <1>5, <3>1 DEF Alone
    <3>3. Before(s, r)
      BY <1>3, <3>1, <3>2 DEF Before
    <3> QED  BY <3>1, <3>3 DEF Ahead
  <2>2. Cardinality(S) <= Cardinality(Ahead(r))
    BY <1>2, <2>1, FS_Subset
  <2> QED  BY <1>1, <1>2, <2>2
<1> QED  BY <1>2, <1>4, <1>5

(* A page the client is given: full if the count reaches behind it, empty  *)
(* if the rows end before it, and behind it only what has a page more      *)
(* before it.                                                              *)
LEMMA PageFetched ==
    ASSUME TypeOK, NEW S \in Selections, Offset = (Page - 1) * Limit
    PROVE  /\ Page * Limit <= Cardinality(Matching) => Cardinality(S) = Limit
           /\ (Page - 1) * Limit >= Cardinality(Matching) => S = {}
           /\ \A r \in Missing :
                 /\ Cardinality(Ahead(r)) >= (Page - 1) * Limit
                 /\ r \notin S
                 => Cardinality(Ahead(r)) >= Page * Limit
<1> PICK L \in Nat \ {0} : L = Limit
  BY PageAndLimit
<1> PICK o \in Nat : o = (Page - 1) * Limit
  BY PageAndLimit
<1>1. Page * Limit = o + L
  BY PageAndLimit
<1>2. S \in SUBSET Matching
  BY DEF Selections
<1>3. PICK skipped \in SUBSET (Matching \ S) :
          /\ Cardinality(skipped) =
                AtMost(AtLeast(Offset, 0), Cardinality(Matching))
          /\ Cardinality(S) =
                AtMost(Limit, Cardinality(Matching \ skipped))
          /\ Beginning(skipped)
          /\ Beginning(skipped \union S)
  BY DEF Selections
<1>4. AtLeast(Offset, 0) = o
  BY DEF AtLeast
<1>5. stored \subseteq Reviews /\ IsFiniteSet(Matching)
  BY TableIsFinite DEF TypeOK
<1>6. /\ Cardinality(skipped) <= o
      /\ o + L <= Cardinality(Matching) => Cardinality(S) = L
      /\ o >= Cardinality(Matching) => S = {}
      /\ \A r \in Matching \ (skipped \union S) :
            Cardinality(skipped \union S) = o + L
  BY <1>2, <1>3, <1>4, <1>5, PageSizes
<1>7. ASSUME NEW r \in Missing, Cardinality(Ahead(r)) >= o, r \notin S
      PROVE  Cardinality(Ahead(r)) >= o + L
  <2>1. r \in Matching /\ Alone(r)
    BY DEF Missing
  <2>2. Cardinality(Ahead(r)) \in Nat /\ Cardinality(skipped) \in Nat
    BY <1>2, <1>3, <1>5, <2>1, SegmentRank, FS_Subset, FS_CardinalityType
  <2>3. r \notin skipped
    <3>1. r \in skipped => Cardinality(Ahead(r)) < Cardinality(skipped)
      BY <1>3, <1>5, <2>1, SegmentRank
    <3> QED  BY <1>6, <1>7, <2>2, <3>1
  <2>4. Cardinality(Ahead(r)) >= Cardinality(skipped \union S)
    <3>1. skipped \union S \in SUBSET Matching
      BY <1>2
    <3> QED  BY <1>3, <1>5, <1>7, <2>1, <2>3, <3>1, SegmentRank
  <2>5. Cardinality(skipped \union S) = o + L
    BY <1>6, <1>7, <2>1, <2>3
  <2> QED  BY <2>4, <2>5
<1> QED  BY <1>1, <1>6, <1>7
-----------------------------------------------------------------------------
(* The invariant. *)

LEMMA InitInv == Init => Inv
<1> SUFFICES ASSUME Init
             PROVE  Inv
  OBVIOUS
<1>1. stored = {} /\ Cardinality(stored) = 0
  BY FS_EmptySet DEF Init
<1>2. query \in [ratings : RatingFilters, column : SortColumns,
                 ascending : BOOLEAN,
                 page : Pages \union 1..Cardinality(stored), limit : Limits]
  BY DEF Init, Queries
<1>3. TypeOK
  <2>1. total \in 0..Cardinality(stored)
    BY <1>1 DEF Init
  <2>2. walking \in BOOLEAN /\ grown \in BOOLEAN /\ erred \in BOOLEAN
    BY DEF Init
  <2>3. /\ at \in {"done", "asked", "counted", "answered"}
        /\ stored \subseteq Reviews /\ base \subseteq stored
        /\ seen \subseteq stored /\ answer \subseteq seen
    BY DEF Init
  <2> QED  BY <1>2, <2>1, <2>2, <2>3 DEF TypeOK
<1>4. CountedRight /\ PageAsAnnounced /\ WalkOnCourse /\ WalkMissesNothing
  BY DEF Init, CountedRight, PageAsAnnounced, WalkOnCourse, WalkMissesNothing
<1> QED  BY <1>3, <1>4 DEF Inv

LEMMA InsertInv ==
    ASSUME Inv, NEW r \in Reviews, Insert(r)
    PROVE  Inv'
<1> USE DEF Insert, clientVars
<1>1. TypeOK /\ stored \subseteq stored' /\ stored' \subseteq Reviews
  BY DEF Inv, TypeOK
<1>2. SameQuestion /\ Page' = Page /\ Limit' = Limit
  BY DEF SameQuestion, Page, Limit
<1>3. /\ Cardinality(Matching) <= Cardinality(Matching')
      /\ Cardinality(stored) <= Cardinality(stored')
      /\ Missing' \subseteq Missing
      /\ \A s \in Missing' : /\ Cardinality(Ahead(s)) \in Nat
                             /\ Cardinality(Ahead(s)') \in Nat
                             /\ Cardinality(Ahead(s)) <= Cardinality(Ahead(s)')
  BY <1>1, <1>2, MissingMovesBack
<1>4. /\ Cardinality(stored) \in Nat /\ Cardinality(stored)' \in Nat
      /\ Cardinality(Matching) \in Nat /\ Cardinality(Matching') \in Nat
  BY <1>1, FS_Subset, FS_CardinalityType, ListingAssumption
     DEF ListingAssumption, Matching
<1>5. TypeOK'
  <2>1. query' \in [ratings : RatingFilters, column : SortColumns,
                    ascending : BOOLEAN,
                    page : Pages \union 1..Cardinality(stored'),
                    limit : Limits]
    <3>1. 1..Cardinality(stored) \subseteq 1..Cardinality(stored')
      BY <1>3, <1>4
    <3> QED  BY <1>1, <3>1 DEF TypeOK
  <2>2. total' \in 0..Cardinality(stored')
    BY <1>1, <1>3, <1>4 DEF TypeOK
  <2> QED  BY <1>1, <2>1, <2>2 DEF TypeOK
<1>6. CountedRight'
  <2> SUFFICES ASSUME at = "counted"
               PROVE  total <= Cardinality(Matching') /\ grown'
    BY DEF CountedRight
  <2>1. total \in Nat /\ total <= Cardinality(Matching)
    BY <1>1, <1>4 DEF Inv, CountedRight, TypeOK
  <2>2. grown'
    OBVIOUS
  <2> QED  BY <1>3, <1>4, <2>1, <2>2
<1>7. PageAsAnnounced'
  BY <1>1, <1>2 DEF Inv, PageAsAnnounced, TotalPages, TypeOK
<1>8. WalkOnCourse'
  <2>1. Reached' = Reached /\ Reached \in Nat
    BY <1>1, <1>2, PageAndLimit DEF Reached
  <2> QED  BY <1>1, <1>3, <1>4, <2>1 DEF Inv, WalkOnCourse, TypeOK
<1>9. WalkMissesNothing'
  BY <1>1, <1>3 DEF Inv, WalkMissesNothing, Missing, TypeOK
<1> QED  BY <1>5, <1>6, <1>7, <1>8, <1>9 DEF Inv

LEMMA AskInv ==
    ASSUME Inv, NEW q \in Queries, NEW walk \in BOOLEAN, Ask(q, walk)
    PROVE  Inv'
<1> USE DEF Ask
<1>1. TypeOK /\ Cardinality(stored) \in Nat
  BY TableIsFinite DEF Inv, TypeOK
<1>2. TypeOK'
  <2>1. query' \in [ratings : RatingFilters, column : SortColumns,
                    ascending : BOOLEAN,
                    page : Pages \union 1..Cardinality(stored'),
                    limit : Limits]
    BY DEF Queries
  <2>2. total' \in 0..Cardinality(stored')
    BY <1>1
  <2>3. walking' \in BOOLEAN /\ grown' \in BOOLEAN /\ erred' \in BOOLEAN
    OBVIOUS
  <2>4. /\ at' \in {"done", "asked", "counted", "answered"}
        /\ stored' \subseteq Reviews /\ base' \subseteq stored'
        /\ seen' \subseteq stored' /\ answer' \subseteq seen'
    BY <1>1 DEF TypeOK
  <2> QED  BY <2>1, <2>2, <2>3, <2>4 DEF TypeOK
<1>3. CountedRight' /\ PageAsAnnounced' /\ WalkMissesNothing'
  BY DEF CountedRight, PageAsAnnounced, WalkMissesNothing
<1>4. WalkOnCourse'
  <2> SUFFICES ASSUME walk
               PROVE  WalkOnCourse'
    BY DEF WalkOnCourse
  <2>1. query'.page = 1 /\ Page' = 1
    BY DEF Page, AtLeast
  <2>2. Limit' \in Nat
    BY <1>2, ListingAssumption
       DEF TypeOK, ListingAssumption, Limit, AtLeast, AtMost
  <2>3. Reached' = 0
    <3>1. Reached' = (1 - 1) * Limit'
      BY <2>1 DEF Reached
    <3>2. \A L \in Nat : (1 - 1) * L = 0
      OBVIOUS
    <3> QED  BY <2>2, <3>1, <3>2
  <2>4. \A r \in Missing' : Cardinality(Ahead(r)') \in Nat
    <3> SUFFICES ASSUME NEW r \in Missing'
                 PROVE  Cardinality(Ahead(r)') \in Nat
      OBVIOUS
    <3>1. Ahead(r)' \subseteq Reviews
      BY <1>1 DEF Ahead, Matching, TypeOK
    <3> QED  BY <3>1, ListingAssumption, FS_Subset, FS_CardinalityType
             DEF ListingAssumption
  <2> QED  BY <1>1, <2>1, <2>3, <2>4 DEF WalkOnCourse
<1> QED  BY <1>2, <1>3, <1>4 DEF Inv

LEMMA CountInv ==
    ASSUME Inv, Count \/ CountFails
    PROVE  Inv'
<1>0. /\ at = "asked" /\ at' = "counted" /\ grown' = FALSE
      /\ UNCHANGED <<stored, clientVars, answer>>
  BY DEF Count, CountFails
<1> USE DEF clientVars
<1>1. TypeOK /\ stored' = stored /\ stored \subseteq Reviews
  BY <1>0 DEF Inv, TypeOK
<1>2. SameQuestion /\ Page' = Page /\ Limit' = Limit
  BY <1>0 DEF SameQuestion, Page, Limit
<1>3. /\ Cardinality(Matching) \in Nat /\ Cardinality(stored) \in Nat
      /\ Cardinality(Matching) <= Cardinality(stored)
  BY <1>1, TableIsFinite
<1>4. Matching' = Matching
  BY <1>0 DEF Matching, RatingFilter
<1>5. /\ total' \in 0..Cardinality(Matching)
      /\ ~erred' => total' = Cardinality(Matching)
      /\ erred' \in BOOLEAN
  <2>1. CASE Count
    <3>1. total' = Cardinality(Matching) /\ erred' = erred
      BY <2>1 DEF Count
    <3>2. erred \in BOOLEAN
      BY <1>1 DEF TypeOK
    <3> QED  BY <1>3, <3>1, <3>2
  <2>2. CASE CountFails
    <3>1. total' = 0 /\ erred' = TRUE
      BY <2>2 DEF CountFails
    <3> QED  BY <1>3, <3>1
  <2> QED  BY <2>1, <2>2
<1>6. TypeOK'
  <2>1. total' \in 0..Cardinality(stored')
    BY <1>1, <1>3, <1>5
  <2> QED  BY <1>0, <1>1, <1>5, <2>1 DEF TypeOK
<1>7. CountedRight'
  BY <1>3, <1>4, <1>5 DEF CountedRight
<1>8. PageAsAnnounced' /\ WalkMissesNothing'
  BY <1>0 DEF PageAsAnnounced, WalkMissesNothing
<1>9. WalkOnCourse'
  <2>1. Reached' = Reached /\ Reached \in Nat
    BY <1>0, <1>1, <1>2, PageAndLimit DEF Reached
  <2>2. /\ Missing' \subseteq Missing
        /\ \A s \in Missing' : /\ Cardinality(Ahead(s)) \in Nat
                               /\ Cardinality(Ahead(s)') \in Nat
                               /\ Cardinality(Ahead(s)) <= Cardinality(Ahead(s)')
    BY <1>0, <1>1, <1>2, MissingMovesBack
  <2> QED  BY <1>0, <1>1, <1>3, <2>1, <2>2 DEF Inv, WalkOnCourse
<1> QED  BY <1>6, <1>7, <1>8, <1>9 DEF Inv

LEMMA FindFailsInv ==
    ASSUME Inv, FindFails
    PROVE  Inv'
<1>1. TypeOK'
  BY DEF Inv, TypeOK, FindFails, clientVars
<1>2. CountedRight' /\ PageAsAnnounced' /\ WalkOnCourse' /\ WalkMissesNothing'
  BY DEF FindFails, CountedRight, PageAsAnnounced, WalkOnCourse, WalkMissesNothing
<1> QED  BY <1>1, <1>2 DEF Inv

LEMMA NextPageInv ==
    ASSUME Inv, NextPage
    PROVE  Inv'
<1> USE DEF NextPage
<1>1. TypeOK /\ stored' = stored /\ stored \subseteq Reviews
  BY DEF Inv, TypeOK
<1>2. Cardinality(stored) \in Nat
  BY <1>1, TableIsFinite
<1>3. PICK p \in Nat \ {0} : p = query.page
  BY <1>1, PageAndLimit DEF Inv, WalkOnCourse
<1>4. PICK L \in Nat \ {0} : L = Limit
  BY <1>1, PageAndLimit
<1>5. Page = p
  BY <1>1, <1>3, PageAndLimit
<1>6. total \in Nat /\ total <= Cardinality(stored)
  BY <1>1, <1>2 DEF TypeOK
<1>7. p < TotalPages /\ TotalPages <= total /\ p * L < total
  BY <1>4, <1>5, <1>6, PageCount
<1>8. query' = [query EXCEPT !.page = p + 1]
  BY <1>3
<1>9. /\ query.ratings \in RatingFilters /\ query.column \in SortColumns
      /\ query.ascending \in BOOLEAN /\ query.limit \in Limits
      /\ query = [ratings |-> query.ratings, column |-> query.column,
                  ascending |-> query.ascending, page |-> query.page,
                  limit |-> query.limit]
  BY <1>1 DEF TypeOK
<1>10. query' = [ratings |-> query.ratings, column |-> query.column,
                 ascending |-> query.ascending, page |-> p + 1,
                 limit |-> query.limit]
  BY <1>8, <1>9
<1>11. TypeOK'
  <2>1. p + 1 \in 1..Cardinality(stored')
    BY <1>1, <1>2, <1>6, <1>7, PageCount, <1>4
  <2>2. query' \in [ratings : RatingFilters, column : SortColumns,
                    ascending : BOOLEAN,
                    page : Pages \union 1..Cardinality(stored'),
                    limit : Limits]
    BY <1>9, <1>10, <2>1
  <2>3. total' \in 0..Cardinality(stored')
    BY <1>1, <1>2
  <2> QED  BY <1>1, <2>2, <2>3 DEF TypeOK
<1>12. CountedRight' /\ PageAsAnnounced' /\ WalkMissesNothing'
  BY DEF CountedRight, PageAsAnnounced, WalkMissesNothing
<1>13. WalkOnCourse'
  <2>1. SameQuestion /\ Limit' = L
    BY <1>4, <1>9, <1>10 DEF SameQuestion, Limit
  <2>2. query'.page = p + 1 /\ Page' = p + 1
    BY <1>10 DEF Page, AtLeast
  <2>3. Reached' = p * L /\ Reached = p * L /\ p * L \in Nat
    <3>1. (p + 1) - 1 = p
      OBVIOUS
    <3> QED  BY <1>4, <1>5, <2>1, <2>2, <3>1 DEF Reached
  <2>4. /\ Missing' \subseteq Missing
        /\ \A s \in Missing' : /\ Cardinality(Ahead(s)) \in Nat
                               /\ Cardinality(Ahead(s)') \in Nat
                               /\ Cardinality(Ahead(s)) <= Cardinality(Ahead(s)')
    BY <1>1, <2>1, MissingMovesBack
  <2>5. \A s \in Missing' : Cardinality(Ahead(s)') >= Reached'
    BY <2>3, <2>4 DEF Inv, WalkOnCourse
  <2>6. Reached' <= Cardinality(stored')
    BY <1>1, <1>2, <1>6, <1>7, <2>3
  <2> QED  BY <2>2, <2>5, <2>6 DEF WalkOnCourse
<1> QED  BY <1>11, <1>12, <1>13 DEF Inv

LEMMA StopInv ==
    ASSUME Inv, Stop
    PROVE  Inv'
<1> USE DEF Stop, clientVars
<1>1. TypeOK /\ stored' = stored /\ stored \subseteq Reviews
  BY DEF Inv, TypeOK
<1>2. TypeOK'
  BY <1>1 DEF TypeOK
<1>3. CountedRight' /\ PageAsAnnounced' /\ WalkOnCourse'
  BY DEF CountedRight, PageAsAnnounced, WalkOnCourse
<1>4. WalkMissesNothing'
  <2> SUFFICES ASSUME walking, ~grown, ~erred
               PROVE  Missing' = {}
    BY DEF WalkMissesNothing, Missing
  <2>1. SameQuestion
    BY DEF SameQuestion
  <2>2. Missing' \subseteq Missing
    BY <1>1, <2>1, MissingMovesBack
  <2>3. total \in Nat
    BY <1>1, TableIsFinite DEF TypeOK
  <2>4. PICK L \in Nat \ {0} : L = Limit
    BY <1>1, PageAndLimit
  <2>5. PICK p \in Nat \ {0} : p = Page
    BY <1>1, PageAndLimit
  <2>6. p * L >= total /\ p * L \in Nat
    BY <2>3, <2>4, <2>5, PageCount
  <2>7. Reached = p * L
    BY <2>4, <2>5 DEF Reached
  <2>8. Missing = {}
    BY <2>3, <2>6, <2>7 DEF Inv, WalkOnCourse
  <2> QED  BY <2>2, <2>8
<1> QED  BY <1>2, <1>3, <1>4 DEF Inv
LEMMA FindInv ==
    ASSUME Inv, Find
    PROVE  Inv'
<1>1. PICK S \in Selections : answer' = S /\ seen' = seen \union S
  BY DEF Find
<1>2. /\ at = "counted" /\ at' = "answered"
      /\ UNCHANGED <<stored, query, walking, base, total, grown, erred>>
  BY DEF Find
<1>3. TypeOK /\ stored \subseteq Reviews
  BY DEF Inv, TypeOK
<1>4. S \subseteq Matching /\ Matching \subseteq stored
  BY DEF Selections, Matching
<1>5. TypeOK'
  <2>1. /\ seen' \subseteq stored' /\ answer' \subseteq seen'
        /\ base' \subseteq stored' /\ stored' \subseteq Reviews
    BY <1>1, <1>2, <1>3, <1>4 DEF TypeOK
  <2>2. total' \in 0..Cardinality(stored')
    BY <1>2, <1>3 DEF TypeOK
  <2>3. walking' \in BOOLEAN /\ grown' \in BOOLEAN /\ erred' \in BOOLEAN
    BY <1>2, <1>3 DEF TypeOK
  <2>4. query' \in [ratings : RatingFilters, column : SortColumns,
                    ascending : BOOLEAN,
                    page : Pages \union 1..Cardinality(stored'),
                    limit : Limits]
    BY <1>2, <1>3 DEF TypeOK
  <2> QED  BY <1>2, <2>1, <2>2, <2>3, <2>4 DEF TypeOK
<1>6. CountedRight' /\ WalkMissesNothing'
  BY <1>2 DEF CountedRight, WalkMissesNothing
<1>7. SameQuestion /\ Page' = Page /\ Limit' = Limit
  BY <1>2 DEF SameQuestion, Page, Limit
<1>8. PICK p \in Nat \ {0} : p = Page
  BY <1>3, PageAndLimit
<1>9. PICK L \in Nat \ {0} : L = Limit
  BY <1>3, PageAndLimit
<1>10. PICK o \in Nat : o = (p - 1) * L
  BY <1>3, <1>8, <1>9, PageAndLimit
<1>11. p * L = o + L
  BY <1>3, <1>8, <1>9, <1>10, PageAndLimit
<1>12. /\ total \in Nat /\ Cardinality(Matching) \in Nat
       /\ Cardinality(stored) \in Nat /\ Cardinality(stored) < Half
       /\ total <= Cardinality(Matching)
       /\ ~grown /\ ~erred => total = Cardinality(Matching)
  BY <1>2, <1>3, TableIsFinite DEF Inv, CountedRight, TypeOK
<1>13. ASSUME Offset = o
       PROVE  /\ o + L <= Cardinality(Matching) => Cardinality(S) = L
              /\ o >= Cardinality(Matching) => S = {}
              /\ \A r \in Missing :
                    /\ Cardinality(Ahead(r)) >= o
                    /\ r \notin S
                    => Cardinality(Ahead(r)) >= o + L
  BY <1>3, <1>8, <1>9, <1>10, <1>11, <1>13, PageFetched
<1>14. PageAsAnnounced'
  <2>1. Offset' = Offset /\ TotalPages' = TotalPages
    BY <1>2, <1>7 DEF Offset, TotalPages
  <2>2. /\ \A k \in Nat : k < TotalPages => k * L < total
        /\ \A k \in Nat : k >= TotalPages => k * L >= total
        /\ TotalPages \in Nat
    BY <1>9, <1>12, PageCount
  <2>3. ASSUME Offset = o, p < TotalPages
        PROVE  Cardinality(S) = L
    <3>1. p * L < total
      BY <2>2, <2>3
    <3> QED  BY <1>11, <1>12, <1>13, <2>3, <3>1
  <2>4. ASSUME Offset = o, p > TotalPages, ~grown, ~erred
        PROVE  S = {}
    <3>1. p - 1 \in Nat /\ p - 1 >= TotalPages
      BY <2>2, <2>4
    <3>2. o >= total
      BY <1>10, <2>2, <3>1
    <3> QED  BY <1>12, <1>13, <2>4, <3>2
  <2>5. Wrap((Page' - 1) * Limit') = (Page' - 1) * Limit' => Offset = o
    BY <1>7, <1>8, <1>9, <1>10 DEF Offset
  <2> QED  BY <1>1, <1>2, <1>7, <1>8, <1>9, <2>1, <2>3, <2>4, <2>5
           DEF PageAsAnnounced
<1>15. WalkOnCourse'
  <2> SUFFICES ASSUME walking
               PROVE  WalkOnCourse'
    BY <1>2 DEF WalkOnCourse
  <2>1. Reached = o /\ Reached' = o + L
    BY <1>2, <1>7, <1>8, <1>9, <1>10, <1>11 DEF Reached
  <2>2. /\ query.page >= 1 /\ o <= Cardinality(stored)
        /\ \A r \in Missing : Cardinality(Ahead(r)) >= o
    BY <1>2, <2>1 DEF Inv, WalkOnCourse
  <2>3. Offset = o
    <3>1. o < Half
      BY <1>12, <2>2, ListingAssumption DEF ListingAssumption
    <3>2. Wrap(o) = o
      BY <3>1, WrapKeeps
    <3> QED  BY <1>8, <1>9, <1>10, <3>2 DEF Offset
  <2>4. /\ Missing' \subseteq Missing
        /\ \A s \in Missing' : /\ Cardinality(Ahead(s)) \in Nat
                               /\ Cardinality(Ahead(s)') \in Nat
                               /\ Cardinality(Ahead(s)) <= Cardinality(Ahead(s)')
    BY <1>1, <1>2, <1>3, <1>7, MissingMovesBack
  <2>5. ASSUME NEW r \in Missing'
        PROVE  /\ Cardinality(Ahead(r)') >= o + L
               /\ ~grown /\ ~erred => o + L < total
    <3>1. r \in Missing /\ r \notin S
      BY <1>1, <2>4 DEF Missing
    <3>2. Cardinality(Ahead(r)) >= o + L
      BY <1>13, <2>2, <2>3, <3>1
    <3>3. Cardinality(Ahead(r)) < Cardinality(Matching)
      <4>1. r \in Matching /\ Matching \in SUBSET Matching
            /\ Beginning(Matching)
        BY <3>1 DEF Missing, Beginning
      <4> QED  BY <1>3, <4>1, SegmentRank
    <3>4. Cardinality(Ahead(r)) \in Nat /\ Cardinality(Ahead(r)') \in Nat
          /\ Cardinality(Ahead(r)) <= Cardinality(Ahead(r)')
      BY <2>4
    <3> QED  BY <1>12, <3>2, <3>3, <3>4
  <2> QED  BY <1>2, <2>1, <2>2, <2>5 DEF WalkOnCourse
<1> QED  BY <1>5, <1>6, <1>14, <1>15 DEF Inv

LEMMA StutterInv ==
    ASSUME Inv, UNCHANGED vars
    PROVE  Inv'
<1> USE DEF vars, clientVars
<1>1. Page' = Page /\ Limit' = Limit /\ TotalPages' = TotalPages
  BY DEF Page, Limit, TotalPages
<1>2. Matching' = Matching /\ Sort' = Sort
  BY DEF Matching, RatingFilter, Sort
<1>3. TypeOK' /\ CountedRight' /\ PageAsAnnounced'
  BY <1>1, <1>2 DEF Inv, TypeOK, CountedRight, PageAsAnnounced
<1>4. TypeOK /\ SameQuestion /\ stored' \subseteq Reviews
  BY DEF Inv, TypeOK, SameQuestion
<1>5. Missing' = Missing /\ \A r : Ahead(r)' = Ahead(r)
  BY <1>2 DEF Missing, Alone, Ahead, Before
<1>6. Reached' = Reached
  BY <1>1 DEF Reached
<1>7. WalkOnCourse'
  BY <1>5, <1>6 DEF Inv, WalkOnCourse
<1>8. WalkMissesNothing'
  BY <1>2 DEF Inv, WalkMissesNothing, Alone
<1> QED  BY <1>3, <1>7, <1>8 DEF Inv

LEMMA Invariance == Spec => []Inv
<1>1. Init => Inv
  BY InitInv
<1>2. Inv /\ [Next]_vars => Inv'
  <2> SUFFICES ASSUME Inv, [Next]_vars
               PROVE  Inv'
    OBVIOUS
  <2>1. CASE \E r \in Reviews : Insert(r)
    BY <2>1, InsertInv
  <2>2. CASE \E q \in Queries, walk \in BOOLEAN : Ask(q, walk)
    BY <2>2, AskInv
  <2>3. CASE Count \/ CountFails
    BY <2>3, CountInv
  <2>4. CASE Find
    BY <2>4, FindInv
  <2>5. CASE NextPage
    BY <2>5, NextPageInv
  <2>6. CASE Stop
    BY <2>6, StopInv
  <2>7. CASE FindFails
    BY <2>7, FindFailsInv
  <2>8. CASE UNCHANGED vars
    BY <2>8, StutterInv
  <2> QED  BY <2>1, <2>2, <2>3, <2>4, <2>5, <2>6, <2>7, <2>8 DEF Next
<1> QED  BY <1>1, <1>2, PTL DEF Spec

-----------------------------------------------------------------------------
(* The variables keep their types; a walk never asks for a page number      *)
(* larger than the table has reviews.                                       *)
THEOREM TypeCorrect == Spec => []TypeOK
<1>1. Inv => TypeOK
  BY DEF Inv
<1> QED  BY <1>1, Invariance, PTL

(* Every answer whose offset did not leave int is what its page number and  *)
(* total say: full before the last page, empty behind it unless reviews     *)
(* came in between count and fetch or the count failed.                     *)
THEOREM AnswersAgree == Spec => []PageAsAnnounced
<1>1. Inv => PageAsAnnounced
  BY DEF Inv
<1> QED  BY <1>1, Invariance, PTL

(* A client that reads all pages while scrapes insert reviews has seen, at  *)
(* the end, every matching review that was there from the beginning and     *)
(* that the sort column tells from all others, unless reviews came in       *)
(* between the count and the fetch of the last page, or a statement failed  *)
(* (review.go:82 drops the error of the count).                             *)
THEOREM WalkIsComplete == Spec => []WalkMissesNothing
<1>1. Inv => WalkMissesNothing
  BY DEF Inv
<1> QED  BY <1>1, Invariance, PTL
=============================================================================
