---------------------------- MODULE ReviewsProofs ----------------------------
(***************************************************************************)
(* Proofs about Reviews, for any site, any number of pages, any page size  *)
(* and any finite set of scrape workers: every review read is stored, every*)
(* row is counted once, and a scrape nothing disturbs reads all.           *)
(***************************************************************************)
EXTENDS Reviews, FiniteSetTheorems, WellFoundedInduction, TLAPS

USE ReviewsAssumption

-----------------------------------------------------------------------------
(* Sums over a finite set.  The library proves that a set of finite sets   *)
(* has a smallest member; what holds of a set when it holds of all that    *)
(* lack one of its elements holds of W.                                    *)
LEMMA SmallestMember ==
    ASSUME NEW W, NEW Bad \in SUBSET FiniteSubsetsOf(W), Bad # {}
    PROVE  \E T \in Bad : \A U \in Bad : ~ (<<U, T>> \in StrictSubsetOrdering(W))
<1>1. IsWellFoundedOn(StrictSubsetOrdering(W), FiniteSubsetsOf(W))
    BY FS_StrictSubsetOrderingWellFounded
<1>2. \A Q, A : IsWellFoundedOn(Q, A) =>
        \A B : B \subseteq A /\ B # {} => \E x \in B : \A y \in B : ~ (<<y, x>> \in Q)
    BY WFMin
<1>. QED
    BY <1>1, <1>2

LEMMA SubsetInduction ==
    ASSUME NEW W, IsFiniteSet(W), NEW Good,
           \A T \in SUBSET W : (\A x \in T : T \ {x} \in Good) => T \in Good
    PROVE  \A T \in SUBSET W : T \in Good
<1>. DEFINE Bad == (SUBSET W) \ Good
<1>. SUFFICES ASSUME Bad # {} PROVE FALSE
    OBVIOUS
<1>1. Bad \in SUBSET FiniteSubsetsOf(W)
    BY FS_Subset DEF FiniteSubsetsOf
<1>2. PICK T \in Bad : \A U \in Bad : ~ (<<U, T>> \in StrictSubsetOrdering(W))
  <2>. HIDE DEF Bad
  <2>. QED
      BY <1>1, SmallestMember
<1>3. PICK x \in T : T \ {x} \notin Good
    BY <1>2
<1>4. <<T \ {x}, T>> \in StrictSubsetOrdering(W)
    BY <1>3 DEF StrictSubsetOrdering
<1>. QED
    BY <1>2, <1>3, <1>4

Pick(s) == CHOOSE x \in s : TRUE

SumOver(f) ==
    CHOOSE sum : sum = [s \in SUBSET DOMAIN f |->
        IF s = {} THEN 0 ELSE f[Pick(s)] + sum[s \ {Pick(s)}]]

Sum(f) == FoldFunction(+, 0, f)

LEMMA FoldIsSum ==
    ASSUME NEW f PROVE Sum(f) = SumOver(f)[DOMAIN f]
BY DEF Sum, FoldFunction, FoldFunctionOnSet, MapThenFoldSet, SumOver, Pick

LEMMA PickFrom == ASSUME NEW s, s # {} PROVE Pick(s) \in s
BY DEF Pick

SumsUp(g, f) ==
    \A s \in SUBSET DOMAIN f :
        g[s] = IF s = {} THEN 0 ELSE f[Pick(s)] + g[s \ {Pick(s)}]

(* A function that satisfies the equation of SumOver exists: one for the   *)
(* sets with at most n elements gives one for those with at most n + 1.    *)
LEMMA SumExists ==
    ASSUME NEW W, IsFiniteSet(W), NEW f \in [W -> Int]
    PROVE  \E g \in [SUBSET W -> Int] : SumsUp(g, f)
<1>. DEFINE Step(g, s) == IF s = {} THEN 0 ELSE f[Pick(s)] + g[s \ {Pick(s)}]
            Good == {T \in SUBSET W : \E g \in [SUBSET W -> Int] : \A s \in SUBSET W :
                        Cardinality(s) <= Cardinality(T) => g[s] = Step(g, s)}
<1>1. \A s \in SUBSET W : IsFiniteSet(s) /\ Cardinality(s) \in Nat
    BY FS_Subset, FS_CardinalityType
<1>2. ASSUME NEW T \in SUBSET W, \A x \in T : T \ {x} \in Good PROVE T \in Good
  <2>1. CASE T = {}
    <3>1. Cardinality(T) = 0
        BY <2>1, FS_EmptySet
    <3>2. \A s \in SUBSET W : Cardinality(s) <= 0 => s = {}
        BY <1>1, FS_EmptySet
    <3>3. PICK g : g = [s \in SUBSET W |-> 0]
        OBVIOUS
    <3>. QED
        BY <3>1, <3>2, <3>3
  <2>2. CASE T # {}
    <3>1. PICK x \in T : T \ {x} \in Good
        BY <1>2, <2>2
    <3>2. PICK g \in [SUBSET W -> Int] : \A s \in SUBSET W :
             Cardinality(s) <= Cardinality(T \ {x}) => g[s] = Step(g, s)
        BY <3>1
    <3>3. PICK h : h = [s \in SUBSET W |-> Step(g, s)]
        OBVIOUS
    <3>4. \A s \in SUBSET W : s # {} => Pick(s) \in W
        BY PickFrom
    <3>5. h \in [SUBSET W -> Int]
        BY <3>3, <3>4
    <3>6. ASSUME NEW s \in SUBSET W, Cardinality(s) <= Cardinality(T), s # {}
          PROVE  h[s] = f[Pick(s)] + h[s \ {Pick(s)}]
      <4>1. PICK U \in SUBSET W : U = s \ {Pick(s)}
          OBVIOUS
      <4>2. Cardinality(U) = Cardinality(s) - 1
          BY <1>1, <3>6, <4>1, PickFrom, FS_RemoveElement
      <4>3. Cardinality(T \ {x}) = Cardinality(T) - 1
          BY <1>1, FS_RemoveElement
      <4>4. Cardinality(U) <= Cardinality(T \ {x})
          BY <1>1, <3>6, <4>2, <4>3
      <4>5. g[U] = h[U]
          BY <3>2, <3>3, <4>4
      <4>6. h[s] = f[Pick(s)] + g[U]
          BY <3>3, <3>6, <4>1
      <4>. QED
          BY <4>1, <4>5, <4>6
    <3>7. h[{}] = 0
        BY <3>3
    <3>8. \A s \in SUBSET W : Cardinality(s) <= Cardinality(T) => h[s] = Step(h, s)
        BY <3>6, <3>7
    <3>. QED
        BY <3>5, <3>8
  <2>. QED
      BY <2>1, <2>2
<1>3. W \in Good
  <2>1. \A T \in SUBSET W : T \in Good
    <3>. HIDE DEF Good
    <3>. QED
        BY <1>2, SubsetInduction, Zenon
  <2>. QED
      BY <2>1
<1>4. \A s \in SUBSET W : Cardinality(s) <= Cardinality(W)
    BY FS_Subset
<1>5. PICK g \in [SUBSET W -> Int] : \A s \in SUBSET W : g[s] = Step(g, s)
    BY <1>3, <1>4
<1>6. DOMAIN f = W
    OBVIOUS
<1>7. SumsUp(g, f)
    BY <1>5, <1>6 DEF SumsUp
<1>. QED
    BY <1>7

LEMMA SumEquation ==
    ASSUME NEW W, IsFiniteSet(W), NEW f \in [W -> Int]
    PROVE  SumsUp(SumOver(f), f)
<1>1. PICK g \in [SUBSET W -> Int] : SumsUp(g, f)
    BY SumExists
<1>2. g = [s \in SUBSET W |-> IF s = {} THEN 0 ELSE f[Pick(s)] + g[s \ {Pick(s)}]]
    BY <1>1 DEF SumsUp
<1>3. DOMAIN f = W
    OBVIOUS
<1>4. SumOver(f) = [s \in SUBSET W |->
         IF s = {} THEN 0 ELSE f[Pick(s)] + SumOver(f)[s \ {Pick(s)}]]
    BY <1>2, <1>3 DEF SumOver
<1>. QED
    BY <1>3, <1>4 DEF SumsUp

LEMMA SumStep ==
    ASSUME NEW W, IsFiniteSet(W), NEW f \in [W -> Int], NEW T \in SUBSET W
    PROVE  /\ T = {} => SumOver(f)[T] = 0
           /\ T # {} => SumOver(f)[T] = f[Pick(T)] + SumOver(f)[T \ {Pick(T)}]
<1>1. SumsUp(SumOver(f), f)
    BY SumEquation
<1>2. DOMAIN f = W
    OBVIOUS
<1>. QED
    BY <1>1, <1>2 DEF SumsUp

(* The same for every set at once, for steps with much in their context. *)
LEMMA SumParts ==
    ASSUME NEW W, IsFiniteSet(W), NEW f \in [W -> Int]
    PROVE  \A T \in SUBSET W : T # {} =>
              SumOver(f)[T] = f[Pick(T)] + SumOver(f)[T \ {Pick(T)}]
BY SumStep

LEMMA SumTyped ==
    ASSUME NEW W, IsFiniteSet(W), NEW f \in [W -> Int]
    PROVE  \A s \in SUBSET W : SumOver(f)[s] \in Int
<1>. DEFINE Good == {s \in SUBSET W : SumOver(f)[s] \in Int}
<1>1. ASSUME NEW T \in SUBSET W, \A x \in T : T \ {x} \in Good PROVE T \in Good
  <2>1. CASE T = {}
    <3>1. SumOver(f)[T] = 0
        BY <2>1, SumStep
    <3>. QED
        BY <3>1
  <2>2. CASE T # {}
    <3>1. Pick(T) \in T /\ SumOver(f)[T \ {Pick(T)}] \in Int
        BY <1>1, <2>2, PickFrom
    <3>2. SumOver(f)[T] = f[Pick(T)] + SumOver(f)[T \ {Pick(T)}]
        BY <2>2, SumParts
    <3>3. f[Pick(T)] \in Int
        BY <3>1
    <3>. QED
        BY <3>1, <3>2, <3>3
  <2>. QED
      BY <2>1, <2>2
<1>2. \A T \in SUBSET W : T \in Good
  <2>. HIDE DEF Good
  <2>. QED
      BY <1>1, SubsetInduction, Zenon
<1>. QED
    BY <1>2

LEMMA SumNatural ==
    ASSUME NEW W, IsFiniteSet(W), NEW f \in [W -> Nat]
    PROVE  Sum(f) \in Nat
<1>. DEFINE Good == {s \in SUBSET W : SumOver(f)[s] \in Nat}
<1>0. f \in [W -> Int]
    OBVIOUS
<1>1. ASSUME NEW T \in SUBSET W, \A x \in T : T \ {x} \in Good PROVE T \in Good
  <2>1. CASE T = {}
    <3>1. SumOver(f)[T] = 0
        BY <1>0, <2>1, SumStep
    <3>. QED
        BY <3>1
  <2>2. CASE T # {}
    <3>1. Pick(T) \in T /\ SumOver(f)[T \ {Pick(T)}] \in Nat
        BY <1>1, <2>2, PickFrom
    <3>2. SumOver(f)[T] = f[Pick(T)] + SumOver(f)[T \ {Pick(T)}]
        BY <1>0, <2>2, SumParts
    <3>3. f[Pick(T)] \in Nat
        BY <3>1
    <3>. QED
        BY <3>1, <3>2, <3>3
  <2>. QED
      BY <2>1, <2>2
<1>2. W \in Good
  <2>1. \A T \in SUBSET W : T \in Good
    <3>. HIDE DEF Good
    <3>. QED
        BY <1>1, SubsetInduction, Zenon
  <2>. QED
      BY <2>1
<1>3. DOMAIN f = W
    OBVIOUS
<1>. QED
    BY <1>2, <1>3, FoldIsSum

(* Functions that differ in w only have sums that differ as much. *)
LEMMA SumChanges ==
    ASSUME NEW W, IsFiniteSet(W), NEW f \in [W -> Int], NEW g \in [W -> Int],
           NEW w \in W, \A v \in W \ {w} : f[v] = g[v]
    PROVE  Sum(g) = Sum(f) + (g[w] - f[w])
<1>. DEFINE Diff(s) == IF w \in s THEN g[w] - f[w] ELSE 0
            Good == {s \in SUBSET W : SumOver(g)[s] = SumOver(f)[s] + Diff(s)}
<1>f. \A T \in SUBSET W : T # {} =>
         SumOver(f)[T] = f[Pick(T)] + SumOver(f)[T \ {Pick(T)}]
    BY SumParts
<1>g. \A T \in SUBSET W : T # {} =>
         SumOver(g)[T] = g[Pick(T)] + SumOver(g)[T \ {Pick(T)}]
    BY SumParts
<1>1. ASSUME NEW T \in SUBSET W, \A x \in T : T \ {x} \in Good PROVE T \in Good
  <2>1. CASE T = {}
    <3>1. SumOver(f)[T] = 0 /\ SumOver(g)[T] = 0
        BY <2>1, SumStep
    <3>. QED
        BY <2>1, <3>1
  <2>2. CASE T # {}
    <3>1. PICK x \in T : x = Pick(T)
        BY <2>2, PickFrom
    <3>2. PICK U \in SUBSET W : U = T \ {x}
        OBVIOUS
    <3>3. /\ SumOver(f)[T] = f[x] + SumOver(f)[U]
          /\ SumOver(g)[T] = g[x] + SumOver(g)[U]
      <4>1. SumOver(f)[T] = f[Pick(T)] + SumOver(f)[T \ {Pick(T)}]
          BY <1>f, <2>2
      <4>2. SumOver(g)[T] = g[Pick(T)] + SumOver(g)[T \ {Pick(T)}]
          BY <1>g, <2>2
      <4>. QED
          BY <3>1, <3>2, <4>1, <4>2
    <3>4. SumOver(g)[U] = SumOver(f)[U] + Diff(U)
        BY <1>1, <3>2
    <3>5. SumOver(f)[U] \in Int /\ SumOver(g)[U] \in Int
        BY SumTyped
    <3>6. f[x] \in Int /\ g[x] \in Int /\ f[w] \in Int /\ g[w] \in Int
        OBVIOUS
    <3>7. CASE x = w
      <4>1. Diff(U) = 0 /\ Diff(T) = g[w] - f[w]
          BY <3>2, <3>7
      <4>2. SumOver(g)[T] = SumOver(f)[T] + (g[w] - f[w])
          BY <3>3, <3>4, <3>5, <3>6, <3>7, <4>1
      <4>. QED
          BY <4>1, <4>2
    <3>8. CASE x # w
      <4>1. f[x] = g[x] /\ Diff(U) = Diff(T) /\ Diff(U) \in Int
          BY <3>2, <3>6, <3>8
      <4>2. SumOver(g)[T] = SumOver(f)[T] + Diff(T)
          BY <3>3, <3>4, <3>5, <3>6, <4>1
      <4>. QED
          BY <4>2
    <3>. QED
        BY <3>7, <3>8
  <2>. QED
      BY <2>1, <2>2
<1>2. W \in Good
  <2>1. \A T \in SUBSET W : T \in Good
    <3>. HIDE DEF Good
    <3>. QED
        BY <1>1, SubsetInduction, Zenon
  <2>. QED
      BY <2>1
<1>3. DOMAIN f = W /\ DOMAIN g = W
    OBVIOUS
<1>. QED
    BY <1>2, <1>3, FoldIsSum

LEMMA SumOfZeros ==
    ASSUME NEW W, IsFiniteSet(W), NEW f \in [W -> Int], \A v \in W : f[v] = 0
    PROVE  Sum(f) = 0
<1>. DEFINE Good == {s \in SUBSET W : SumOver(f)[s] = 0}
<1>1. ASSUME NEW T \in SUBSET W, \A x \in T : T \ {x} \in Good PROVE T \in Good
  <2>1. CASE T = {}
    <3>1. SumOver(f)[T] = 0
        BY <2>1, SumStep
    <3>. QED
        BY <3>1
  <2>2. CASE T # {}
    <3>1. Pick(T) \in T /\ SumOver(f)[T \ {Pick(T)}] = 0
        BY <1>1, <2>2, PickFrom
    <3>2. SumOver(f)[T] = f[Pick(T)] + SumOver(f)[T \ {Pick(T)}]
        BY <2>2, SumParts
    <3>3. f[Pick(T)] = 0
        BY <3>1
    <3>. QED
        BY <3>1, <3>2, <3>3
  <2>. QED
      BY <2>1, <2>2
<1>2. W \in Good
  <2>1. \A T \in SUBSET W : T \in Good
    <3>. HIDE DEF Good
    <3>. QED
        BY <1>1, SubsetInduction, Zenon
  <2>. QED
      BY <2>1
<1>. QED
    BY <1>2, FoldIsSum

-----------------------------------------------------------------------------
(* The types.                                                              *)
LEMMA NoRunTyped == NoRun \in Runs
<1>1. <<>> \in Seq(Readings)
    OBVIOUS
<1>. QED
    BY <1>1 DEF NoRun, Runs, Readings

LEMMA InitTyped == Init => TypeOK
<1>. SUFFICES ASSUME Init PROVE TypeOK
    OBVIOUS
<1>1. site \in Seq(TrustpilotReviews) /\ found \in Nat /\ unrecorded \in Nat
    BY DEF Init
<1>2. reviews \in [Ids -> {"absent", "whole", "half"}]
    BY DEF Init
<1>3. run \in [ScrapeWorkers -> Runs]
    BY NoRunTyped DEF Init
<1>4. \A w \in ScrapeWorkers : run[w] = NoRun
    BY DEF Init
<1>. QED
    BY <1>1, <1>2, <1>3, <1>4 DEF TypeOK, NoRun

(* A step of worker w leaves the others' runs alone. *)
LEMMA RunFrame ==
    ASSUME TypeOK, NEW w \in ScrapeWorkers, RunStep(w)
    PROVE  /\ site' = site
           /\ \A v \in ScrapeWorkers \ {w} : run'[v] = run[v]
<1>1. CASE Begin(w)
    BY <1>1 DEF Begin, TypeOK
<1>2. CASE \E p \in Pages : ReadPage(w, p)
    BY <1>2 DEF ReadPage, TypeOK
<1>3. CASE \E p \in Pages : PageFails(w, p)
    BY <1>3 DEF PageFails, TypeOK
<1>4. CASE ScrapeFails(w)
    BY <1>4 DEF ScrapeFails, TypeOK
<1>5. CASE ScrapeSucceeds(w)
    BY <1>5 DEF ScrapeSucceeds, TypeOK
<1>6. CASE LookUp(w)
    BY <1>6 DEF LookUp, TypeOK
<1>7. CASE CreateReview(w)
    BY <1>7 DEF CreateReview, TypeOK
<1>8. CASE Complete(w)
    BY <1>8 DEF Complete, TypeOK
<1>. QED
    BY <1>1, <1>2, <1>3, <1>4, <1>5, <1>6, <1>7, <1>8 DEF RunStep

(* The typed part of a step: only the run of the worker changes.           *)
RunTyped(r) ==
    /\ r \in Runs
    /\ r.next <= Len(r.collected) + 1
    /\ r.at = "creating" => r.next <= Len(r.collected)
    /\ r.saved < r.next

LEMMA OneRunTyped ==
    ASSUME TypeOK, NEW w \in ScrapeWorkers, RunStep(w),
           run' \in [ScrapeWorkers -> Runs], RunTyped(run'[w]),
           reviews' \in [Ids -> {"absent", "whole", "half"}], found' \in Nat,
           unrecorded' \in Nat
    PROVE  TypeOK'
<1>1. UNCHANGED site /\ \A v \in ScrapeWorkers \ {w} : run'[v] = run[v]
    BY RunFrame
<1>2. site' \in Seq(TrustpilotReviews)
    BY <1>1 DEF TypeOK
<1>3. ASSUME NEW v \in ScrapeWorkers PROVE RunTyped(run'[v])
  <2>1. CASE v = w
      BY <2>1
  <2>2. CASE v # w
      BY <1>1, <2>2 DEF TypeOK, RunTyped
  <2>. QED
      BY <2>1, <2>2
<1>. QED
    BY <1>2, <1>3 DEF TypeOK, RunTyped

LEMMA RunIsTyped ==
    ASSUME TypeOK, NEW w \in ScrapeWorkers PROVE RunTyped(run[w])
    BY DEF TypeOK, RunTyped

(* What a goroutine appends is typed. *)
LEMMA PageContentTyped ==
    ASSUME site \in Seq(TrustpilotReviews), NEW p \in Pages
    PROVE  PageContent(p) \in Seq(TrustpilotReviews)
<1>1. p * PageSize \in Nat /\ (p - 1) * PageSize \in Nat
    BY DEF Pages
<1>2. PICK m \in Nat : m = (p - 1) * PageSize
    BY <1>1
<1>3. PICK n \in Nat : n = IF p * PageSize < Len(site) THEN p * PageSize ELSE Len(site)
    BY <1>1
<1>4. n <= Len(site)
    BY <1>1, <1>3
<1>5. \A i \in m + 1..n : site[i] \in TrustpilotReviews
    BY <1>4
<1>6. SubSeq(site, m + 1, n) \in Seq(TrustpilotReviews)
    BY <1>4, <1>5
<1>. QED
    BY <1>2, <1>3, <1>6 DEF PageContent

LEMMA ShownTyped ==
    ASSUME TypeOK, NEW p \in Pages, NEW shown \in Shown(p),
           NEW how \in [1..Len(shown) ->
               IF LookupMayFail THEN {"whole", "half", "blank"} ELSE {"whole"}]
    PROVE  [i \in 1..Len(shown) |-> Reading(shown[i], how[i])] \in Seq(Readings)
<1>1. shown \in Seq(TrustpilotReviews)
    BY PageContentTyped DEF Shown, TypeOK
<1>2. ASSUME NEW i \in 1..Len(shown) PROVE Reading(shown[i], how[i]) \in Readings
  <2>1. shown[i] \in TrustpilotReviews /\ how[i] \in {"whole", "half", "blank"}
      BY <1>1
  <2>. QED
      BY <2>1 DEF Reading, Readings, Ids
<1>3. Len(shown) \in Nat
    BY <1>1
<1>. QED
    BY <1>2, <1>3

LEMMA SiteBecomesTyped ==
    ASSUME TypeOK, NEW new \in Seq(TrustpilotReviews), SiteBecomes(new)
    PROVE  TypeOK'
<1>1. \A w \in ScrapeWorkers :
         RunTyped(IF run[w].at = "reading" THEN [run[w] EXCEPT !.calm = FALSE] ELSE run[w])
  <2>. SUFFICES ASSUME NEW w \in ScrapeWorkers
                PROVE RunTyped(IF run[w].at = "reading"
                                 THEN [run[w] EXCEPT !.calm = FALSE] ELSE run[w])
      OBVIOUS
  <2>1. RunTyped(run[w])
      BY RunIsTyped
  <2>. QED
      BY <2>1 DEF RunTyped, Runs
<1>2. \A w \in ScrapeWorkers : RunTyped(run'[w])
    BY <1>1 DEF SiteBecomes
<1>3. run' \in [ScrapeWorkers -> Runs]
    BY <1>2, <1>1 DEF SiteBecomes, RunTyped
<1>. QED
    BY <1>2, <1>3 DEF SiteBecomes, TypeOK, RunTyped

(* What a goroutine does to the run of its worker; new is what it appends. *)
Appends(w, p, new) ==
    /\ run'[w].at = "reading" /\ run'[w].calm = run[w].calm
    /\ run'[w].next = run[w].next /\ run'[w].saved = run[w].saved
    /\ run'[w].pages = [run[w].pages EXCEPT ![p] = "done"]
    /\ run'[w].collected = run[w].collected \o new
    /\ run'[w].sharp =>
          /\ run[w].sharp
          /\ Len(new) = Len(PageContent(p))
          /\ \A i \in 1..Len(new) : new[i].id = PageContent(p)[i]

LEMMA ReadPageEffect ==
    ASSUME TypeOK, NEW w \in ScrapeWorkers, NEW p \in Pages, ReadPage(w, p)
    PROVE  /\ run' \in [ScrapeWorkers -> Runs] /\ RunTyped(run'[w])
           /\ \E new \in Seq(Readings) : Appends(w, p, new)
<1>1. run \in [ScrapeWorkers -> Runs] /\ run[w] \in Runs /\ RunTyped(run[w])
    BY RunIsTyped DEF TypeOK
<1>2. PICK shown \in Shown(p) :
          \E how \in [1..Len(shown) ->
                 IF LookupMayFail THEN {"whole", "half", "blank"} ELSE {"whole"}] :
             run' = [run EXCEPT
              ![w].pages[p] = "done",
              ![w].collected = @ \o [i \in 1..Len(shown) |-> Reading(shown[i], how[i])],
              ![w].sharp = @ /\ shown = PageContent(p) /\ \A i \in DOMAIN how : how[i] = "whole"]
    BY DEF ReadPage
<1>3. PICK how \in [1..Len(shown) ->
                 IF LookupMayFail THEN {"whole", "half", "blank"} ELSE {"whole"}] :
          run' = [run EXCEPT
              ![w].pages[p] = "done",
              ![w].collected = @ \o [i \in 1..Len(shown) |-> Reading(shown[i], how[i])],
              ![w].sharp = @ /\ shown = PageContent(p) /\ \A i \in DOMAIN how : how[i] = "whole"]
    BY <1>2
<1>4. PICK new \in Seq(Readings) :
          new = [i \in 1..Len(shown) |-> Reading(shown[i], how[i])]
    BY ShownTyped
<1>5. PICK sharp \in BOOLEAN :
          sharp = (run[w].sharp /\ shown = PageContent(p) /\ \A i \in DOMAIN how : how[i] = "whole")
    OBVIOUS
<1>6. run' = [run EXCEPT
              ![w].pages[p] = "done", ![w].collected = @ \o new, ![w].sharp = sharp]
    BY <1>1, <1>3, <1>4, <1>5
<1>7. /\ run[w].collected \in Seq(Readings)
      /\ run[w].collected \o new \in Seq(Readings)
      /\ Len(run[w].collected \o new) = Len(run[w].collected) + Len(new)
      /\ Len(new) \in Nat /\ Len(run[w].collected) \in Nat
    BY <1>1, <1>4 DEF Runs
<1>8. /\ run[w].pages \in [Pages -> {"open", "done", "failed"}]
      /\ run[w].at = "reading"
    BY <1>1 DEF Runs, ReadPage
<1>9. PICK both \in Seq(Readings) : both = run[w].collected \o new
    BY <1>7
<1>10. run' = [run EXCEPT
              ![w].pages[p] = "done", ![w].collected = both, ![w].sharp = sharp]
    BY <1>1, <1>6, <1>9
<1>11. run' \in [ScrapeWorkers -> Runs]
    BY <1>1, <1>8, <1>10 DEF Runs
<1>12. /\ run'[w].at = "reading" /\ run'[w].collected = both
       /\ run'[w].next = run[w].next /\ run'[w].saved = run[w].saved
       /\ run'[w].calm = run[w].calm
    BY <1>1, <1>8, <1>10 DEF Runs
<1>13. run'[w].pages = [run[w].pages EXCEPT ![p] = "done"]
    BY <1>1, <1>8, <1>10 DEF Runs
<1>14. RunTyped(run'[w])
    BY <1>1, <1>7, <1>9, <1>11, <1>12 DEF RunTyped, Runs
<1>15. ASSUME run'[w].sharp
       PROVE  /\ run[w].sharp
              /\ Len(new) = Len(PageContent(p))
              /\ \A i \in 1..Len(new) : new[i].id = PageContent(p)[i]
  <2>1. sharp
      BY <1>1, <1>10, <1>15 DEF Runs
  <2>2. run[w].sharp /\ shown = PageContent(p) /\ \A i \in DOMAIN how : how[i] = "whole"
      BY <1>5, <2>1
  <2>3. Len(shown) \in Nat
      BY PageContentTyped, <2>2 DEF TypeOK
  <2>4. Len(new) = Len(shown)
      BY <1>4, <2>3
  <2>5. \A i \in 1..Len(shown) : new[i].id = shown[i]
      BY <1>4, <2>2 DEF Reading
  <2>. QED
      BY <2>2, <2>4, <2>5
<1>16. Appends(w, p, new)
    BY <1>9, <1>12, <1>13, <1>15 DEF Appends
<1>. QED
    BY <1>11, <1>14, <1>16

(* What saveResults' steps do to the run of the worker.                     *)
Passes(w) ==
    /\ run'[w].at = "saving"
    /\ run'[w].next = run[w].next + 1
    /\ run'[w].collected = run[w].collected

LEMMA LookUpEffect ==
    ASSUME TypeOK, NEW w \in ScrapeWorkers, LookUp(w)
    PROVE  /\ run' \in [ScrapeWorkers -> Runs]
           /\ run'[w].saved = run[w].saved /\ run'[w].refused = run[w].refused
           /\ \/ Passes(w) /\ Current(w).id \in Stored
              \/ /\ run'[w].at = "creating"
                 /\ run'[w].next = run[w].next
                 /\ run'[w].collected = run[w].collected
<1>1. run \in [ScrapeWorkers -> Runs] /\ run[w].at = "saving"
    BY DEF TypeOK, LookUp
<1>2. CASE Current(w).id \in Stored /\ run' = [run EXCEPT ![w].next = @ + 1]
  <2>1. run' = [run EXCEPT ![w].next = @ + 1]
      BY <1>2
  <2>2. run' \in [ScrapeWorkers -> Runs]
    <3>1. run[w].next + 1 \in Nat \ {0}
        BY <1>1 DEF Runs
    <3>. QED
        BY <1>1, <2>1, <3>1 DEF Runs
  <2>3. /\ run'[w].at = run[w].at /\ run'[w].collected = run[w].collected
        /\ run'[w].saved = run[w].saved /\ run'[w].refused = run[w].refused
        /\ run'[w].next = run[w].next + 1
      BY <1>1, <2>1 DEF Runs
  <2>. QED
      BY <1>1, <1>2, <2>2, <2>3 DEF Passes
<1>3. CASE run' = [run EXCEPT ![w].at = "creating"]
    BY <1>1, <1>3 DEF Runs
<1>. QED
    BY <1>2, <1>3 DEF LookUp

LEMMA CreateEffect ==
    ASSUME TypeOK, NEW w \in ScrapeWorkers, CreateReview(w)
    PROVE  /\ run' \in [ScrapeWorkers -> Runs] /\ Passes(w)
           /\ \/ /\ Current(w).id \notin Stored
                 /\ reviews' = [reviews EXCEPT ![Current(w).id] = Current(w).how]
                 /\ run'[w].saved = run[w].saved + 1
                 /\ run'[w].refused = run[w].refused
              \/ /\ Current(w).id \in Stored
                 /\ UNCHANGED reviews
                 /\ run'[w].saved = run[w].saved
                 /\ run'[w].refused = run[w].refused
              \/ /\ UNCHANGED reviews
                 /\ run'[w].saved = run[w].saved
                 /\ run'[w].refused
<1>1. run \in [ScrapeWorkers -> Runs]
    BY DEF TypeOK
<1>2. CASE /\ Current(w).id \notin Stored
           /\ reviews' = [reviews EXCEPT ![Current(w).id] = Current(w).how]
           /\ run' = [run EXCEPT
                 ![w].at = "saving", ![w].next = @ + 1, ![w].saved = @ + 1]
    BY <1>1, <1>2 DEF Runs, Passes
<1>3. CASE /\ Current(w).id \in Stored
           /\ run' = [run EXCEPT ![w].at = "saving", ![w].next = @ + 1]
           /\ UNCHANGED reviews
    BY <1>1, <1>3 DEF Runs, Passes
<1>4. CASE /\ run' = [run EXCEPT
                 ![w].at = "saving", ![w].next = @ + 1, ![w].refused = TRUE]
           /\ UNCHANGED reviews
    BY <1>1, <1>4 DEF Runs, Passes
<1>. QED
    BY <1>2, <1>3, <1>4 DEF CreateReview

LEMMA RunStepTyped ==
    ASSUME TypeOK, NEW w \in ScrapeWorkers, RunStep(w)
    PROVE  TypeOK'
<1>1. RunTyped(run[w]) /\ run \in [ScrapeWorkers -> Runs]
    BY RunIsTyped DEF TypeOK
<1>2. /\ reviews \in [Ids -> {"absent", "whole", "half"}]
      /\ found \in Nat /\ unrecorded \in Nat
    BY DEF TypeOK
<1>3. run[w].collected \in Seq(Readings) /\ Len(run[w].collected) \in Nat
    BY <1>1 DEF RunTyped, Runs, Readings
<1>. DEFINE Goal == run' \in [ScrapeWorkers -> Runs] /\ RunTyped(run'[w])
<1>4. CASE Begin(w)
  <2>1. RunTyped([NoRun EXCEPT !.at = "reading"])
    <3>1. [NoRun EXCEPT !.at = "reading"] \in Runs
        BY NoRunTyped DEF Runs
    <3>. QED
        BY <3>1, NoRunTyped DEF NoRun, RunTyped, Runs
  <2>2. Goal
      BY <1>1, <1>4, <2>1 DEF Begin, RunTyped
  <2>. QED
      BY <1>2, <1>4, <2>2, OneRunTyped DEF Begin
<1>5. ASSUME NEW p \in Pages, ReadPage(w, p) PROVE TypeOK'
  <2>1. Goal
      BY <1>5, ReadPageEffect
  <2>. QED
      BY <1>2, <1>5, <2>1, OneRunTyped DEF ReadPage
<1>6. ASSUME NEW p \in Pages, PageFails(w, p) PROVE TypeOK'
  <2>1. Goal
      BY <1>1, <1>6 DEF RunTyped, Runs, PageFails
  <2>. QED
      BY <1>2, <1>6, <2>1, OneRunTyped DEF PageFails
<1>7. RunTyped(NoRun)
    BY NoRunTyped DEF RunTyped, NoRun
<1>8. CASE ScrapeFails(w)
  <2>1. Goal
      BY <1>1, <1>7, <1>8 DEF ScrapeFails, RunTyped
  <2>. QED
      BY <1>2, <1>8, <2>1, OneRunTyped DEF ScrapeFails
<1>9. CASE ScrapeSucceeds(w)
  <2>1. Goal
      BY <1>1, <1>9 DEF RunTyped, Runs, ScrapeSucceeds
  <2>. QED
      BY <1>2, <1>9, <2>1, OneRunTyped DEF ScrapeSucceeds
<1>10. CASE LookUp(w)
  <2>1. run[w].next <= Len(run[w].collected)
      BY <1>10 DEF LookUp
  <2>2. RunTyped(run'[w])
      BY <1>1, <1>3, <1>10, <2>1, LookUpEffect DEF RunTyped, Runs, Passes
  <2>. QED
      BY <1>2, <1>10, <2>2, LookUpEffect, OneRunTyped DEF LookUp
<1>11. CASE CreateReview(w)
  <2>1. run[w].next <= Len(run[w].collected)
      BY <1>1, <1>11 DEF CreateReview, RunTyped
  <2>2. RunTyped(run'[w])
    <3>1. run[w].saved \in Nat /\ run[w].next \in Nat /\ run[w].saved < run[w].next
        BY <1>1 DEF RunTyped, Runs
    <3>2. /\ run'[w].at = "saving" /\ run'[w].collected = run[w].collected
          /\ run'[w].next = run[w].next + 1
          /\ run'[w].saved \in {run[w].saved, run[w].saved + 1}
          /\ run'[w] \in Runs
        BY <1>11, CreateEffect DEF Passes
    <3>. QED
        BY <1>3, <2>1, <3>1, <3>2 DEF RunTyped
  <2>3. Current(w) \in Readings
      BY <1>1, <1>3, <2>1 DEF Current, RunTyped, Runs
  <2>4. Current(w).how \in {"whole", "half"}
      BY <2>3 DEF Readings
  <2>5. reviews' \in [Ids -> {"absent", "whole", "half"}]
      BY <1>2, <1>11, <2>4 DEF CreateReview
  <2>6. found' = found /\ unrecorded' = unrecorded
      BY <1>11 DEF CreateReview
  <2>. QED
      BY <1>2, <1>11, <2>2, <2>5, <2>6, CreateEffect, OneRunTyped
<1>12. CASE Complete(w)
  <2>1. Goal
      BY <1>1, <1>7, <1>12 DEF Complete, RunTyped
  <2>2. found' \in Nat /\ unrecorded' \in Nat
    <3>1. run[w].saved \in Nat
        BY <1>1 DEF Runs
    <3>. QED
        BY <1>2, <1>12, <3>1 DEF Complete
  <2>. QED
      BY <1>2, <1>12, <2>1, <2>2, OneRunTyped DEF Complete
<1>. QED
    BY <1>4, <1>5, <1>6, <1>8, <1>9, <1>10, <1>11, <1>12 DEF RunStep

Saved == [w \in ScrapeWorkers |-> run[w].saved]

LEMMA SavedTyped ==
    ASSUME TypeOK
    PROVE  Saved \in [ScrapeWorkers -> Int] /\ SavedByRuns \in Nat
<1>1. Saved \in [ScrapeWorkers -> Nat]
    BY DEF TypeOK, Runs, Saved
<1>2. PICK f \in [ScrapeWorkers -> Nat] : f = Saved
    BY <1>1
<1>3. Sum(f) \in Nat
    BY SumNatural
<1>4. SavedByRuns = Sum(Saved)
    BY DEF Sum, Saved, SavedByRuns
<1>5. Sum(Saved) \in Nat
    BY <1>2, <1>3
<1>. QED
    BY <1>1, <1>4, <1>5

LEMMA NextTyped == ASSUME TypeOK, [Next]_vars PROVE TypeOK'
<1>1. ASSUME NEW r \in TrustpilotReviews, SiteGains(r) PROVE TypeOK'
  <2>1. <<r>> \o site \in Seq(TrustpilotReviews)
      BY DEF TypeOK
  <2>. QED
      BY <1>1, <2>1, SiteBecomesTyped DEF SiteGains
<1>2. ASSUME NEW i \in 1..Len(site), SiteLoses(i) PROVE TypeOK'
  <2>1. RemoveAt(site, i) \in Seq(TrustpilotReviews)
      BY DEF TypeOK, RemoveAt
  <2>. QED
      BY <1>2, <2>1, SiteBecomesTyped DEF SiteLoses
<1>3. CASE ProcessEnds
  <2>1. /\ run' = [w \in ScrapeWorkers |-> NoRun]
        /\ unrecorded' = unrecorded + SavedByRuns
        /\ UNCHANGED <<site, reviews, found>>
      BY <1>3 DEF ProcessEnds
  <2>2. unrecorded' \in Nat
      BY <2>1, SavedTyped DEF TypeOK
  <2>3. run' \in [ScrapeWorkers -> Runs]
      BY <2>1, NoRunTyped
  <2>4. \A w \in ScrapeWorkers : run'[w] = NoRun
      BY <2>1
  <2>5. RunTyped(NoRun)
      BY NoRunTyped DEF RunTyped, NoRun
  <2>6. \A w \in ScrapeWorkers : RunTyped(run'[w])
      BY <2>4, <2>5
  <2>7. /\ site' \in Seq(TrustpilotReviews)
        /\ reviews' \in [Ids -> {"absent", "whole", "half"}]
        /\ found' \in Nat
      BY <2>1 DEF TypeOK
  <2>. QED
      BY <2>2, <2>3, <2>6, <2>7 DEF TypeOK, RunTyped
<1>4. CASE UNCHANGED vars
    BY <1>4 DEF vars, TypeOK
<1>. QED
    BY <1>1, <1>2, <1>3, <1>4, RunStepTyped DEF Next

(* The table and the runs of every worker are well-typed in every state,   *)
(* and saveResults never reads behind the end of what was collected.       *)
THEOREM TypeCorrect == Spec => []TypeOK
<1>. QED
    BY InitTyped, NextTyped, PTL DEF Spec

-----------------------------------------------------------------------------
(* What was read is stored.  A run that still reads has passed nothing.    *)
NothingPassed ==
    \A w \in ScrapeWorkers :
        run[w].at \in {"idle", "reading"} => run[w].next = 1 /\ run[w].saved = 0

(* Rows that no run in progress answers for. *)
Counts == found + unrecorded

(* The steps outside of saveResults' loop, and the last one behind it.     *)
Outside(w) ==
    /\ run'[w].next = 1 /\ run'[w].saved = 0
    /\ Counts' = Counts + run[w].saved
    /\ UNCHANGED reviews

LEMMA StepKinds ==
    ASSUME TypeOK, NothingPassed, NEW w \in ScrapeWorkers, RunStep(w)
    PROVE  Outside(w) \/ LookUp(w) \/ CreateReview(w)
<1>1. /\ run \in [ScrapeWorkers -> Runs] /\ run[w] \in Runs
      /\ Counts \in Nat /\ run[w].saved \in Nat
    BY DEF TypeOK, Counts, Runs
<1>2. run[w].at \in {"idle", "reading"} => run[w].next = 1 /\ run[w].saved = 0
    BY DEF NothingPassed
<1>3. NoRun.next = 1 /\ NoRun.saved = 0
    BY DEF NoRun
<1>4. CASE Begin(w)
  <2>1. /\ [NoRun EXCEPT !.at = "reading"].next = 1
        /\ [NoRun EXCEPT !.at = "reading"].saved = 0
      BY DEF NoRun
  <2>. QED
      BY <1>1, <1>2, <1>4, <2>1 DEF Begin, Outside, Counts
<1>5. ASSUME NEW p \in Pages, ReadPage(w, p) PROVE Outside(w)
  <2>1. run'[w].next = run[w].next /\ run'[w].saved = run[w].saved
      BY <1>5, ReadPageEffect DEF Appends
  <2>2. run[w].at = "reading" /\ UNCHANGED <<reviews, found, unrecorded>>
      BY <1>5 DEF ReadPage
  <2>. QED
      BY <1>1, <1>2, <2>1, <2>2 DEF Outside, Counts
<1>6. ASSUME NEW p \in Pages, PageFails(w, p) PROVE Outside(w)
  <2>1. run'[w].next = run[w].next /\ run'[w].saved = run[w].saved
      BY <1>1, <1>6 DEF PageFails, Runs
  <2>. QED
      BY <1>1, <1>2, <1>6, <2>1 DEF PageFails, Outside, Counts
<1>7. CASE ScrapeFails(w)
    BY <1>1, <1>2, <1>3, <1>7 DEF ScrapeFails, Outside, Counts
<1>8. CASE ScrapeSucceeds(w)
  <2>1. run'[w].next = run[w].next /\ run'[w].saved = run[w].saved
      BY <1>1, <1>8 DEF ScrapeSucceeds, Runs
  <2>. QED
      BY <1>1, <1>2, <1>8, <2>1 DEF ScrapeSucceeds, Outside, Counts
<1>9. CASE Complete(w)
  <2>1. run'[w] = NoRun /\ UNCHANGED reviews
      BY <1>1, <1>9 DEF Complete
  <2>2. /\ found \in Nat /\ unrecorded \in Nat
        /\ \/ found' = found + run[w].saved /\ unrecorded' = unrecorded
           \/ found' = found /\ unrecorded' = unrecorded + run[w].saved
      BY <1>9 DEF Complete, TypeOK
  <2>3. Counts' = Counts + run[w].saved
      BY <1>1, <2>2 DEF Counts
  <2>. QED
      BY <1>3, <2>1, <2>3 DEF Outside
<1>. QED
    BY <1>4, <1>5, <1>6, <1>7, <1>8, <1>9 DEF RunStep

(* The site's changes concern nothing but the site and the histories. *)
SiteChanges == \E new \in Seq(TrustpilotReviews) : SiteBecomes(new)

LEMMA SiteStepKind ==
    ASSUME TypeOK, Next
    PROVE  SiteChanges \/ ProcessEnds \/ \E w \in ScrapeWorkers : RunStep(w)
<1>1. ASSUME NEW r \in TrustpilotReviews, SiteGains(r) PROVE SiteChanges
  <2>1. <<r>> \o site \in Seq(TrustpilotReviews)
      BY DEF TypeOK
  <2>. QED
      BY <1>1, <2>1 DEF SiteGains, SiteChanges
<1>2. ASSUME NEW i \in 1..Len(site), SiteLoses(i) PROVE SiteChanges
  <2>1. RemoveAt(site, i) \in Seq(TrustpilotReviews)
      BY DEF TypeOK, RemoveAt
  <2>. QED
      BY <1>2, <2>1 DEF SiteLoses, SiteChanges
<1>. QED
    BY <1>1, <1>2 DEF Next

LEMMA SiteFrame ==
    ASSUME TypeOK, SiteChanges, NEW w \in ScrapeWorkers
    PROVE  /\ run'[w].at = run[w].at /\ run'[w].collected = run[w].collected
           /\ run'[w].next = run[w].next /\ run'[w].saved = run[w].saved
           /\ run'[w].refused = run[w].refused
           /\ run'[w].at = "reading" => ~run'[w].calm
           /\ UNCHANGED <<reviews, found, unrecorded>>
<1>1. run[w] \in Runs
    BY DEF TypeOK
<1>2. run'[w] = IF run[w].at = "reading" THEN [run[w] EXCEPT !.calm = FALSE] ELSE run[w]
    BY DEF SiteChanges, SiteBecomes
<1>3. UNCHANGED <<reviews, found, unrecorded>>
    BY DEF SiteChanges, SiteBecomes
<1>. QED
    BY <1>1, <1>2, <1>3 DEF Runs

LEMMA NextNothingPassed ==
    ASSUME TypeOK, NothingPassed, [Next]_vars PROVE NothingPassed'
<1>1. CASE SiteChanges
    BY <1>1, SiteFrame DEF NothingPassed
<1>2. ASSUME NEW w \in ScrapeWorkers, RunStep(w) PROVE NothingPassed'
  <2>1. \A v \in ScrapeWorkers \ {w} : run'[v] = run[v]
      BY <1>2, RunFrame
  <2>2. run'[w].at \in {"idle", "reading"} => run'[w].next = 1 /\ run'[w].saved = 0
    <3>1. CASE Outside(w)
        BY <3>1 DEF Outside
    <3>2. CASE LookUp(w)
        BY <3>2, LookUpEffect DEF Passes
    <3>3. CASE CreateReview(w)
        BY <3>3, CreateEffect DEF Passes
    <3>. QED
        BY <1>2, <3>1, <3>2, <3>3, StepKinds
  <2>. QED
      BY <2>1, <2>2 DEF NothingPassed
<1>3. CASE ProcessEnds
    BY <1>3 DEF ProcessEnds, NothingPassed, NoRun
<1>4. CASE UNCHANGED vars
    BY <1>4 DEF vars, NothingPassed
<1>. QED
    BY <1>1, <1>2, <1>3, <1>4, SiteStepKind

LEMMA CurrentTyped ==
    ASSUME TypeOK, NEW w \in ScrapeWorkers, LookUp(w) \/ CreateReview(w)
    PROVE  Current(w).id \in Ids /\ Current(w).how \in {"whole", "half"}
<1>1. RunTyped(run[w])
    BY RunIsTyped
<1>2. run[w].next \in 1..Len(run[w].collected) /\ run[w].collected \in Seq(Readings)
    BY <1>1 DEF LookUp, CreateReview, RunTyped, Runs
<1>3. Current(w) \in Readings
    BY <1>2 DEF Current
<1>. QED
    BY <1>3 DEF Readings

(* No row is ever deleted, and one is added at most. *)
LEMMA StoredGrows ==
    ASSUME TypeOK, NothingPassed, NEW w \in ScrapeWorkers, RunStep(w)
    PROVE  \/ /\ CreateReview(w) /\ Current(w).id \notin Stored
              /\ Stored' = Stored \union {Current(w).id}
              /\ run'[w].saved = run[w].saved + 1 /\ UNCHANGED Counts
           \/ Stored' = Stored /\ UNCHANGED Counts /\ run'[w].saved = run[w].saved
           \/ Stored' = Stored /\ Counts' = Counts + run[w].saved /\ run'[w].saved = 0
<1>1. CASE Outside(w)
    BY <1>1 DEF Outside, Stored
<1>2. CASE LookUp(w)
    BY <1>2, LookUpEffect DEF LookUp, Stored, Passes, Counts
<1>3. CASE CreateReview(w)
  <2>1. Counts' = Counts
      BY <1>3 DEF CreateReview, Counts
  <2>2. CASE UNCHANGED reviews /\ run'[w].saved = run[w].saved
      BY <2>1, <2>2 DEF Stored
  <2>3. CASE /\ Current(w).id \notin Stored
             /\ reviews' = [reviews EXCEPT ![Current(w).id] = Current(w).how]
             /\ run'[w].saved = run[w].saved + 1
    <3>1. Current(w).id \in Ids /\ Current(w).how # "absent"
        BY <1>3, CurrentTyped
    <3>2. reviews \in [Ids -> {"absent", "whole", "half"}]
        BY DEF TypeOK
    <3>3. Stored' = Stored \union {Current(w).id}
        BY <2>3, <3>1, <3>2 DEF Stored
    <3>. QED
        BY <1>3, <2>1, <2>3, <3>3
  <2>. QED
      BY <1>3, <2>2, <2>3, CreateEffect
<1>. QED
    BY <1>1, <1>2, <1>3, StepKinds

LEMMA NextSeenIsStored ==
    ASSUME TypeOK, NothingPassed, SeenIsStored, [Next]_vars PROVE SeenIsStored'
<1>1. CASE SiteChanges
    BY <1>1, SiteFrame DEF SeenIsStored, Stored
<1>2. ASSUME NEW w \in ScrapeWorkers, RunStep(w) PROVE SeenIsStored'
  <2>. SUFFICES ASSUME NEW v \in ScrapeWorkers, NEW i \in 1..(run'[v].next - 1),
                       ~run'[v].refused, run'[v].collected[i].id # NoId
                PROVE  run'[v].collected[i].id \in Stored'
      BY DEF SeenIsStored
  <2>1. Stored \subseteq Stored'
      BY <1>2, StoredGrows
  <2>2. CASE v # w
    <3>1. run'[v] = run[v]
        BY <1>2, <2>2, RunFrame
    <3>. QED
        BY <2>1, <3>1 DEF SeenIsStored
  <2>3. CASE v = w
    <3>1. run[w].next \in Nat /\ run[w].next # 0
        BY DEF TypeOK, Runs
    <3>2. CASE Outside(w)
        BY <2>3, <3>2 DEF Outside
    <3>3. CASE LookUp(w)
      <4>1. /\ run'[w].collected = run[w].collected /\ ~run[w].refused
            /\ \/ run'[w].next = run[w].next
               \/ run'[w].next = run[w].next + 1 /\ Current(w).id \in Stored
          BY <2>3, <3>3, LookUpEffect DEF Passes
      <4>. QED
          BY <2>1, <2>3, <3>1, <4>1 DEF SeenIsStored, Current
    <3>4. CASE CreateReview(w)
      <4>1. /\ run'[w].collected = run[w].collected /\ ~run[w].refused
            /\ run'[w].next = run[w].next + 1
          BY <2>3, <3>4, CreateEffect DEF Passes
      <4>2. Current(w).id \in Stored'
        <5>1. CASE Current(w).id \in Stored
            BY <2>1, <5>1
        <5>2. CASE Current(w).id \notin Stored
          <6>1. reviews' = [reviews EXCEPT ![Current(w).id] = Current(w).how]
              BY <2>3, <3>4, <5>2, CreateEffect
          <6>2. Current(w).id \in Ids /\ Current(w).how # "absent"
              BY <3>4, CurrentTyped
          <6>. QED
              BY <6>1, <6>2 DEF Stored, TypeOK
        <5>. QED
            BY <5>1, <5>2
      <4>. QED
          BY <2>1, <2>3, <3>1, <4>1, <4>2 DEF SeenIsStored, Current
    <3>. QED
        BY <1>2, <3>2, <3>3, <3>4, StepKinds
  <2>. QED
      BY <2>2, <2>3
<1>3. CASE ProcessEnds
    BY <1>3 DEF ProcessEnds, SeenIsStored, NoRun
<1>4. CASE UNCHANGED vars
    BY <1>4 DEF vars, SeenIsStored, Stored
<1>. QED
    BY <1>1, <1>2, <1>3, <1>4, SiteStepKind

LEMMA InitRest == Init => NothingPassed /\ SeenIsStored
BY DEF Init, NoRun, NothingPassed, SeenIsStored

(* Every review that was read with its id and that saveResults has gone    *)
(* past is a row, put there by this worker or by another, unless an insert *)
(* was refused.                                                            *)
THEOREM NoReviewDropped == Spec => []SeenIsStored
<1>1. Init => TypeOK /\ NothingPassed /\ SeenIsStored
    BY InitTyped, InitRest
<1>2. TypeOK /\ NothingPassed /\ SeenIsStored /\ [Next]_vars
        => TypeOK' /\ NothingPassed' /\ SeenIsStored'
    BY NextTyped, NextNothingPassed, NextSeenIsStored
<1>. QED
    BY <1>1, <1>2, PTL DEF Spec

-----------------------------------------------------------------------------
(* Every row is counted once.                                              *)
Counted == IsFiniteSet(Stored) /\ Cardinality(Stored) = Counts + Sum(Saved)

LEMMA CountedSuffices == Counted => EveryRowCounted
BY DEF Counted, EveryRowCounted, Counts, Sum, Saved, SavedByRuns

LEMMA InitCounted == Init => Counted
<1>. SUFFICES ASSUME Init PROVE Counted
    OBVIOUS
<1>1. Stored = {}
    BY DEF Init, Stored
<1>2. PICK f \in [ScrapeWorkers -> Int] : f = Saved
    BY InitTyped, SavedTyped
<1>3. \A w \in ScrapeWorkers : f[w] = 0
    BY <1>2 DEF Init, NoRun, Saved
<1>4. Sum(f) = 0
    BY <1>3, SumOfZeros
<1>5. Counts = 0
    BY DEF Init, Counts
<1>6. Cardinality(Stored) = 0 /\ IsFiniteSet(Stored)
    BY <1>1, FS_EmptySet
<1>. QED
    BY <1>2, <1>4, <1>5, <1>6 DEF Counted

LEMMA NextCounted ==
    ASSUME TypeOK, TypeOK', NothingPassed, Counted, [Next]_vars PROVE Counted'
<1>1. PICK f \in [ScrapeWorkers -> Int] : f = Saved
    BY SavedTyped
<1>2. Saved' \in [ScrapeWorkers -> Int]
    BY DEF TypeOK, Runs, Saved
<1>3. PICK g \in [ScrapeWorkers -> Int] : g = Saved'
    BY <1>2
<1>4. IsFiniteSet(Stored) /\ Cardinality(Stored) = Counts + Sum(f)
    BY <1>1 DEF Counted
<1>. SUFFICES IsFiniteSet(Stored') /\ Cardinality(Stored') = Counts' + Sum(g)
    BY <1>3 DEF Counted
<1>5. CASE SiteChanges \/ UNCHANGED vars
  <2>1. f = g
      BY <1>1, <1>3, <1>5, SiteFrame DEF vars, Saved
  <2>2. Stored' = Stored /\ Counts' = Counts
      BY <1>5 DEF SiteChanges, SiteBecomes, vars, Stored, Counts
  <2>. QED
      BY <1>4, <2>1, <2>2
<1>6. ASSUME NEW w \in ScrapeWorkers, RunStep(w)
      PROVE  IsFiniteSet(Stored') /\ Cardinality(Stored') = Counts' + Sum(g)
  <2>1. \A v \in ScrapeWorkers \ {w} : f[v] = g[v]
      BY <1>1, <1>3, <1>6, RunFrame DEF Saved
  <2>2. Sum(g) = Sum(f) + (g[w] - f[w])
      BY <2>1, SumChanges
  <2>3. f[w] = run[w].saved /\ g[w] = run'[w].saved /\ f[w] \in Int /\ g[w] \in Int
      BY <1>1, <1>3 DEF Saved
  <2>4. Sum(f) \in Int
    <3>1. SumOver(f)[ScrapeWorkers] \in Int
        BY SumTyped
    <3>2. DOMAIN f = ScrapeWorkers
        OBVIOUS
    <3>. QED
        BY <3>1, <3>2, FoldIsSum
  <2>5. Counts \in Int /\ Cardinality(Stored) \in Nat
      BY <1>4, FS_CardinalityType DEF TypeOK, Counts
  <2>6. CASE /\ Current(w).id \notin Stored
             /\ Stored' = Stored \union {Current(w).id}
             /\ run'[w].saved = run[w].saved + 1 /\ UNCHANGED Counts
    <3>1. IsFiniteSet(Stored') /\ Cardinality(Stored') = Cardinality(Stored) + 1
        BY <1>4, <2>6, FS_AddElement
    <3>. QED
        BY <1>4, <2>2, <2>3, <2>4, <2>5, <2>6, <3>1
  <2>7. CASE Stored' = Stored /\ UNCHANGED Counts /\ run'[w].saved = run[w].saved
      BY <1>4, <2>2, <2>3, <2>4, <2>5, <2>7
  <2>8. CASE Stored' = Stored /\ Counts' = Counts + run[w].saved /\ run'[w].saved = 0
      BY <1>4, <2>2, <2>3, <2>4, <2>5, <2>8
  <2>. QED
      BY <1>6, <2>6, <2>7, <2>8, StoredGrows
<1>7. CASE ProcessEnds
  <2>1. \A w \in ScrapeWorkers : g[w] = 0
      BY <1>3, <1>7 DEF ProcessEnds, NoRun, Saved
  <2>2. Sum(g) = 0
      BY <2>1, SumOfZeros
  <2>3. Sum(f) = SavedByRuns /\ Sum(f) \in Nat
      BY <1>1, SavedTyped DEF Sum, Saved, SavedByRuns
  <2>4. found' = found /\ unrecorded' = unrecorded + Sum(f) /\ Stored' = Stored
      BY <1>7, <2>3 DEF ProcessEnds, Stored
  <2>5. found \in Nat /\ unrecorded \in Nat
      BY DEF TypeOK
  <2>6. Counts' = Counts + Sum(f)
      BY <2>3, <2>4, <2>5 DEF Counts
  <2>7. Counts' \in Nat
      BY <2>3, <2>4, <2>5 DEF Counts
  <2>. QED
      BY <1>4, <2>2, <2>4, <2>6, <2>7
<1>. QED
    BY <1>5, <1>6, <1>7, SiteStepKind

(* The rows of the table are exactly those the runs have counted, in       *)
(* reviews_found or before a last Save that failed or the end of the       *)
(* process: two workers that insert the same review count it once.         *)
THEOREM RowsAreCounted == Spec => []EveryRowCounted
<1>1. Init => TypeOK /\ NothingPassed /\ Counted
    BY InitTyped, InitRest, InitCounted
<1>2. TypeOK /\ NothingPassed /\ Counted /\ [Next]_vars
        => TypeOK' /\ NothingPassed' /\ Counted'
    BY NextTyped, NextNothingPassed, NextCounted
<1>. QED
    BY <1>1, <1>2, CountedSuffices, PTL DEF Spec

-----------------------------------------------------------------------------
(* An undisturbed scrape reads all.                                        *)
LEMMA LeastNatural ==
    ASSUME NEW S \in SUBSET Nat, S # {}
    PROVE  \E n \in S : \A m \in S : n <= m
<1>1. \A Q, A : IsWellFoundedOn(Q, A) =>
        \A B : B \subseteq A /\ B # {} => \E x \in B : \A y \in B : ~ (<<y, x>> \in Q)
    BY WFMin
<1>2. PICK R : R = OpToRel(<, Nat)
    OBVIOUS
<1>3. IsWellFoundedOn(R, Nat)
    BY <1>2, NatLessThanWellFounded
<1>4. PICK n \in S : \A m \in S : ~ (<<m, n>> \in R)
    BY <1>1, <1>3
<1>5. ASSUME NEW m \in S PROVE n <= m
  <2>1. m \in Nat /\ n \in Nat
      OBVIOUS
  <2>2. m < n => <<m, n>> \in R
      BY <1>2, <2>1 DEF OpToRel
  <2>. QED
      BY <1>4, <2>1, <2>2
<1>. QED
    BY <1>5

(* The page a review is on. *)
LEMMA OnSomePage ==
    ASSUME NEW i \in Nat, i >= 1, i <= MaxPages * PageSize
    PROVE  \E p \in Pages : (p - 1) * PageSize < i /\ i <= p * PageSize
<1>. DEFINE S == {p \in Pages : i <= p * PageSize}
<1>1. MaxPages \in S
    BY DEF Pages
<1>2. PICK p \in S : \A q \in S : p <= q
  <2>1. S \in SUBSET Nat
    <3>1. S \subseteq Pages /\ Pages \subseteq Nat
        BY DEF Pages
    <3>. QED
        BY <3>1
  <2>2. S # {}
      BY <1>1
  <2>. HIDE DEF S
  <2>. QED
      BY <2>1, <2>2, LeastNatural
<1>3. p \in Pages /\ p \in Nat /\ p >= 1 /\ i <= p * PageSize
    BY DEF Pages
<1>4. p - 1 \notin S
    BY <1>2, <1>3
<1>5. (p - 1) * PageSize < i
  <2>1. CASE p = 1
      BY <2>1
  <2>2. CASE p # 1
    <3>1. p - 1 \in Pages
        BY <1>3, <2>2 DEF Pages
    <3>2. PICK n \in Nat : n = (p - 1) * PageSize
        BY <1>3
    <3>3. ~ (i <= n)
        BY <1>4, <3>1, <3>2
    <3>. QED
        BY <3>2, <3>3
  <2>. QED
      BY <2>1, <2>2
<1>. QED
    BY <1>3, <1>5

LEMMA ShownOnPage ==
    ASSUME TypeOK, NEW i \in 1..Len(site), i <= MaxPages * PageSize
    PROVE  \E p \in Pages : \E j \in 1..Len(PageContent(p)) : PageContent(p)[j] = site[i]
<1>1. PICK p \in Pages : (p - 1) * PageSize < i /\ i <= p * PageSize
    BY OnSomePage DEF TypeOK
<1>2. PICK m \in Nat : m = (p - 1) * PageSize
    BY DEF Pages
<1>3. p * PageSize \in Nat /\ Len(site) \in Nat
    BY DEF Pages, TypeOK
<1>4. PICK n \in Nat : n = IF p * PageSize < Len(site) THEN p * PageSize ELSE Len(site)
    BY <1>3
<1>5. PageContent(p) = SubSeq(site, m + 1, n)
    BY <1>2, <1>4 DEF PageContent
<1>6. m < i /\ i <= n /\ n <= Len(site)
    BY <1>1, <1>2, <1>3, <1>4
<1>7. Len(SubSeq(site, m + 1, n)) = n - m
    BY <1>6 DEF TypeOK
<1>8. SubSeq(site, m + 1, n)[i - m] = site[i]
    BY <1>6 DEF TypeOK
<1>9. i - m \in 1..(n - m)
    BY <1>6
<1>. QED
    BY <1>5, <1>7, <1>8, <1>9

Holds(collected, content) ==
    \A i \in 1..Len(content) :
        \E k \in 1..Len(collected) : collected[k].id = content[i]

Has(w, p) == Holds(run[w].collected, PageContent(p))

LEMMA HoldsMore ==
    ASSUME NEW collected \in Seq(Readings), NEW new \in Seq(Readings), NEW content,
           Holds(collected, content)
    PROVE  Holds(collected \o new, content)
<1>1. ASSUME NEW k \in 1..Len(collected)
      PROVE  k \in 1..Len(collected \o new) /\ (collected \o new)[k] = collected[k]
    OBVIOUS
<1>. QED
    BY <1>1 DEF Holds

LEMMA HoldsNew ==
    ASSUME NEW collected \in Seq(Readings), NEW new \in Seq(Readings), NEW content,
           Len(new) = Len(content),
           \A i \in 1..Len(new) : new[i].id = content[i]
    PROVE  Holds(collected \o new, content)
<1>1. ASSUME NEW i \in 1..Len(new)
      PROVE  /\ Len(collected) + i \in 1..Len(collected \o new)
             /\ (collected \o new)[Len(collected) + i] = new[i]
    OBVIOUS
<1>. QED
    BY <1>1 DEF Holds

(* While nothing disturbs a run, it holds what the pages it has done show  *)
(* at present.                                                             *)
ReadSoFar ==
    \A w \in ScrapeWorkers : \A p \in Pages :
        /\ run[w].at = "reading" /\ run[w].calm /\ run[w].sharp
        /\ run[w].pages[p] = "done"
        => Has(w, p)

LEMMA NextReadSoFar ==
    ASSUME TypeOK, TypeOK', NothingPassed, ReadSoFar, [Next]_vars PROVE ReadSoFar'
<1>1. CASE SiteChanges
    BY <1>1, SiteFrame DEF ReadSoFar
<1>2. ASSUME NEW w \in ScrapeWorkers, RunStep(w) PROVE ReadSoFar'
  <2>. SUFFICES ASSUME NEW v \in ScrapeWorkers, NEW q \in Pages,
                       run'[v].at = "reading", run'[v].calm, run'[v].sharp,
                       run'[v].pages[q] = "done"
                PROVE  Has(v, q)'
      BY DEF ReadSoFar
  <2>1. site' = site
      BY <1>2, RunFrame
  <2>2. PICK content \in Seq(TrustpilotReviews) :
            content = PageContent(q) /\ content = PageContent(q)'
      BY <2>1, PageContentTyped DEF TypeOK, PageContent
  <2>3. run \in [ScrapeWorkers -> Runs]
      BY DEF TypeOK
  <2>4. CASE v # w
    <3>1. run'[v] = run[v]
        BY <1>2, <2>4, RunFrame
    <3>. QED
        BY <2>2, <3>1 DEF ReadSoFar, Has
  <2>5. CASE v = w /\ \E p \in Pages : ReadPage(w, p)
    <3>1. PICK p \in Pages : ReadPage(w, p)
        BY <2>5
    <3>2. PICK new \in Seq(Readings) : Appends(w, p, new)
        BY <3>1, ReadPageEffect
    <3>3. run[w].collected \in Seq(Readings) /\ run[w].at = "reading"
        BY <2>3, <3>1 DEF Runs, ReadPage
    <3>4. run[w].pages \in [Pages -> {"open", "done", "failed"}]
        BY <2>3 DEF Runs
    <3>5. run'[w].collected = run[w].collected \o new
        BY <3>2 DEF Appends
    <3>6. CASE q = p
      <4>1. Len(new) = Len(content) /\ \A i \in 1..Len(new) : new[i].id = content[i]
          BY <2>2, <2>5, <3>2, <3>6 DEF Appends
      <4>2. Holds(run'[w].collected, content)
          BY <3>3, <3>5, <4>1, HoldsNew
      <4>. QED
          BY <2>2, <2>5, <4>2 DEF Has
    <3>7. CASE q # p
      <4>1. run[w].calm /\ run[w].sharp /\ run[w].pages[q] = "done"
          BY <2>5, <3>2, <3>4, <3>7 DEF Appends
      <4>2. Holds(run[w].collected, content)
          BY <2>2, <3>3, <4>1 DEF ReadSoFar, Has
      <4>3. Holds(run'[w].collected, content)
          BY <3>3, <3>5, <4>2, HoldsMore
      <4>. QED
          BY <2>2, <2>5, <4>3 DEF Has
    <3>. QED
        BY <3>6, <3>7
  <2>6. CASE v = w /\ \E p \in Pages : PageFails(w, p)
    <3>1. PICK p \in Pages : PageFails(w, p)
        BY <2>6
    <3>2. /\ run'[w].collected = run[w].collected /\ run[w].at = "reading"
          /\ run[w].calm = run'[w].calm /\ run[w].sharp = run'[w].sharp
          /\ run'[w].pages = [run[w].pages EXCEPT ![p] = "failed"]
        BY <2>3, <3>1 DEF PageFails, Runs
    <3>3. run[w].pages[q] = "done"
        BY <2>3, <2>6, <3>2 DEF Runs
    <3>4. Has(w, q)
        BY <2>6, <3>2, <3>3 DEF ReadSoFar
    <3>. QED
        BY <2>2, <2>6, <3>2, <3>4 DEF Has
  <2>7. CASE v = w /\ Begin(w)
    <3>1. run'[w] = [NoRun EXCEPT !.at = "reading"]
        BY <2>3, <2>7 DEF Begin
    <3>2. run'[w].pages = [p \in Pages |-> "open"]
        BY <3>1 DEF NoRun
    <3>. QED
        BY <2>7, <3>2
  <2>8. CASE v = w /\ (ScrapeFails(w) \/ Complete(w))
    <3>1. run'[w] = NoRun
        BY <2>3, <2>8 DEF ScrapeFails, Complete
    <3>. QED
        BY <2>8, <3>1 DEF NoRun
  <2>9. CASE v = w /\ ScrapeSucceeds(w)
    <3>1. run'[w].at = "saving"
        BY <2>3, <2>9 DEF ScrapeSucceeds, Runs
    <3>. QED
        BY <2>9, <3>1
  <2>10. CASE v = w /\ (LookUp(w) \/ CreateReview(w))
      BY <2>10, LookUpEffect, CreateEffect DEF Passes
  <2>. QED
      BY <1>2, <2>4, <2>5, <2>6, <2>7, <2>8, <2>9, <2>10 DEF RunStep
<1>3. CASE ProcessEnds
    BY <1>3 DEF ProcessEnds, ReadSoFar, NoRun
<1>4. CASE UNCHANGED vars
  <2>1. run' = run /\ site' = site
      BY <1>4 DEF vars
  <2>2. \A p \in Pages : PageContent(p)' = PageContent(p)
      BY <2>1 DEF PageContent
  <2>. QED
      BY <2>1, <2>2 DEF ReadSoFar, Has
<1>. QED
    BY <1>1, <1>2, <1>3, <1>4, SiteStepKind

(* What a scrape goes on to save: all that the pages show at that moment.   *)
LEMMA StepReadsAll ==
    ASSUME TypeOK, ReadSoFar, [Next]_vars, NEW w \in ScrapeWorkers,
           run[w].at = "reading", run'[w].at = "saving", run[w].calm, run[w].sharp,
           NEW i \in 1..Len(site), i <= MaxPages * PageSize
    PROVE  \E k \in 1..Len(run[w].collected) : run[w].collected[k].id = site[i]
<1>1. run \in [ScrapeWorkers -> Runs] /\ run[w].pages \in [Pages -> {"open", "done", "failed"}]
    BY DEF TypeOK, Runs
<1>2. PICK v \in ScrapeWorkers : RunStep(v)
  <2>1. ~SiteChanges
      BY SiteFrame
  <2>2. ~UNCHANGED vars /\ ~ProcessEnds
      BY DEF vars, ProcessEnds, NoRun
  <2>. QED
      BY <2>1, <2>2, SiteStepKind
<1>3. v = w
    BY <1>2, RunFrame
<1>4. ScrapeSucceeds(w)
  <2>1. ~Begin(w) /\ ~LookUp(w) /\ ~CreateReview(w) /\ ~Complete(w)
      BY DEF Begin, LookUp, CreateReview, Complete
  <2>2. ~ \E p \in Pages : ReadPage(w, p)
      BY ReadPageEffect DEF Appends
  <2>3. ~ \E p \in Pages : PageFails(w, p)
      BY <1>1 DEF PageFails, Runs
  <2>4. ~ScrapeFails(w)
      BY <1>1 DEF ScrapeFails, NoRun
  <2>. QED
      BY <1>2, <1>3, <2>1, <2>2, <2>3, <2>4 DEF RunStep
<1>5. \A p \in Pages : run[w].pages[p] = "done"
    BY <1>1, <1>4 DEF ScrapeSucceeds, AllReturned, AnyFailed
<1>6. PICK p \in Pages : \E j \in 1..Len(PageContent(p)) : PageContent(p)[j] = site[i]
    BY ShownOnPage
<1>7. Holds(run[w].collected, PageContent(p))
    BY <1>5 DEF ReadSoFar, Has
<1>. QED
    BY <1>6, <1>7 DEF Holds

(* A scrape that gets past g.Wait has all reviews of the first MaxPages    *)
(* pages, unless the site changed meanwhile or an element was not found.   *)
THEOREM UndisturbedReadsAll == Spec => CalmScrapeReadsAll
<1>1. Init => TypeOK /\ NothingPassed /\ ReadSoFar
  <2>1. Init => ReadSoFar
      BY DEF Init, NoRun, ReadSoFar
  <2>. QED
      BY <2>1, InitTyped, InitRest
<1>2. TypeOK /\ NothingPassed /\ ReadSoFar /\ [Next]_vars
        => TypeOK' /\ NothingPassed' /\ ReadSoFar'
    BY NextTyped, NextNothingPassed, NextReadSoFar
<1>3. TypeOK /\ ReadSoFar /\ [Next]_vars
        => [\A w \in ScrapeWorkers :
              /\ run[w].at = "reading" /\ run'[w].at = "saving"
              /\ run[w].calm /\ run[w].sharp
              => \A i \in 1..Len(site) : i <= MaxPages * PageSize =>
                    \E k \in 1..Len(run[w].collected) : run[w].collected[k].id = site[i]]_vars
    BY StepReadsAll
<1>. QED
    BY <1>1, <1>2, <1>3, PTL DEF Spec, CalmScrapeReadsAll
=============================================================================
