-------------------------- MODULE StorefrontProofs --------------------------
(***************************************************************************)
(* The read side, proved for every shop and every request.  First the walk    *)
(* over the catalog: its invariant says where, in a result that others        *)
(* change, the rows are that were shown and those that were not.  Then the    *)
(* torn reads of one product: the invariant says how far each query's answer  *)
(* is still true of the tables, and that `removed', `added' or `left'          *)
(* accounts for what is not.                                                  *)
(***************************************************************************)
EXTENDS Catalog, ProductDetail, FiniteSetTheorems, SequenceTheorems,
        WellFoundedInduction, TLAPS

\* How many rows are sorted before p's.
Position(p) == Cardinality({q \in Matching : Before(q, p)})

Products(rows) == {rows[i].product : i \in DOMAIN rows}

Distinct(rows) == \A i, j \in DOMAIN rows : i # j => rows[i].product # rows[j].product

Walking == step \in {"count", "page", "skus"}

PageRow == [product : Asked, sortedBy : Int]
Answer  == [product : Asked, sortedBy : Int, minPrice : Int, stale : BOOLEAN]

WalkTypes ==
  /\ price \in [SkuId -> Nat]
  /\ selected \subseteq ProductId \ unborn
  /\ query \in Queries
  /\ step \in {"count", "page", "skus", "done"}
  /\ offset \in Nat /\ total \in 0..Cardinality(Asked)
  /\ page \in Seq(PageRow) /\ answers \in Seq(Answer)
  /\ page = <<>> \/ Len(page) <= query.limit
  /\ constant \subseteq Matching
  /\ changes \subseteq {"arrival", "departure", "late"}
  /\ step \in {"page", "skus"} => ValidPagination

\* What was shown and still matches has not slid past the offset.
NoRepeat ==
  "arrival" \notin changes =>
    /\ Distinct(answers)
    /\ Walking => \A p \in Seen \intersect Matching : Position(p) < offset
    /\ step = "skus" =>
         /\ Distinct(page) /\ Products(page) \intersect Seen = {}
         /\ \A p \in Products(page) \intersect Matching : Position(p) < offset + query.limit

\* What always matched and was not shown has not slid before the offset, and the
\* count the walk stops by has missed nothing.
NoMiss ==
  changes \intersect {"departure", "late"} = {} =>
    /\ step \in {"count", "page"} => \A p \in constant \ Seen : Position(p) >= offset
    /\ step = "page" => total = Cardinality(Matching)
    /\ step = "skus" =>
         /\ \A p \in constant \ (Seen \union Products(page)) : Position(p) >= offset + query.limit
         /\ offset + query.limit >= total => constant \subseteq Seen \union Products(page)
    /\ step = "done" /\ ValidPagination => constant \subseteq Seen

\* An undisturbed walk has the first rows, in order.
InOrder ==
  changes = {} =>
    /\ \A i \in DOMAIN answers :
         answers[i].product \in Matching /\ Position(answers[i].product) = i - 1
    /\ Walking => Len(answers) = offset /\ offset <= Cardinality(Matching)
    /\ step \in {"page", "skus"} => total = Cardinality(Matching)
    /\ step = "skus" =>
         /\ \A i \in DOMAIN page :
              page[i].product \in Matching /\ Position(page[i].product) = offset + i - 1
         /\ Len(page) = Min({query.limit, total - offset})
    /\ step = "done" /\ ValidPagination => Len(answers) = Cardinality(Matching)

\* The page's annotations are true of the products that were not touched since.
Annotated ==
  step = "skus" /\ query.mode = "catalog" =>
    \A p \in Products(page) \ touched :
      /\ Sellable(p) # {}
      /\ \A i \in DOMAIN page : page[i].product = p => page[i].sortedBy = MinVisiblePrice(p)

CatalogInv ==
  WalkTypes /\ NoRepeat /\ NoMiss /\ InOrder /\ Annotated /\ ShownAsSorted
-----------------------------------------------------------------------------
\* The order of the rows.

LEMMA MinOfNats ==
  ASSUME NEW S \in SUBSET Nat, S # {}
  PROVE  Min(S) \in S
<1>1. \E x \in S : \A y \in S : x <= y
  <2>1. PICK x \in S : \A y \in S : ~ (<<y, x>> \in OpToRel(<, Nat))
    BY NatLessThanWellFounded, WFMin, Zenon
  <2>2. \A y \in S : ~ (y < x) BY <2>1, Zenon DEF OpToRel
  <2> QED BY <2>2
<1> QED BY <1>1 DEF Min

LEMMA CheapestType ==
  ASSUME price \in [SkuId -> Nat], NEW skus \in SUBSET SkuId
  PROVE  /\ Cheapest(skus) \in Int
         /\ skus # {} => Cheapest(skus) # NoPrice
<1> DEFINE prices == {price[s] : s \in skus}
<1>1. prices \in SUBSET Nat /\ (skus # {} <=> prices # {}) OBVIOUS
<1>2. Cheapest(skus) = IF skus = {} THEN NoPrice ELSE Min(prices) BY DEF Cheapest
<1>3. NoPrice \in Int /\ NoPrice \notin Nat BY DEF NoPrice
<1> HIDE DEF prices
<1>4. prices # {} => Min(prices) \in Nat BY <1>1, MinOfNats
<1> QED BY <1>1, <1>2, <1>3, <1>4

\* ORDER BY orders the products strictly, since created_at breaks every tie.
StrictOrder ==
  /\ \A p \in Asked : ~Before(p, p)
  /\ \A p, q \in Asked : p # q => Before(p, q) \/ Before(q, p)
  /\ \A p, q, r \in Asked : Before(p, q) /\ Before(q, r) => Before(p, r)

PricesOK == price \in [SkuId -> Nat]

LEMMA OrderIsStrict == PricesOK => StrictOrder
<1> SUFFICES ASSUME price \in [SkuId -> Nat] PROVE StrictOrder BY DEF PricesOK
<1>1. \A p \in Asked : MinVisiblePrice(p) \in Int
  BY CheapestType DEF MinVisiblePrice, Sellable, LiveSkus
<1>2. \A p \in Asked : CreatedAt[p] \in Nat BY CatalogAssumption
<1>3. \A p, q \in Asked : p # q => CreatedAt[p] # CreatedAt[q] BY CatalogAssumption
<1>4. CASE query.sort = "price_asc" BY <1>1, <1>2, <1>3, <1>4 DEF StrictOrder, Before
<1>5. CASE query.sort = "price_desc" BY <1>1, <1>2, <1>3, <1>5 DEF StrictOrder, Before
<1>6. CASE query.sort \notin {"price_asc", "price_desc"}
  BY <1>1, <1>2, <1>3, <1>6 DEF StrictOrder, Before
<1> QED BY <1>4, <1>5, <1>6

MatchingOK ==
  /\ Matching \subseteq Asked /\ IsFiniteSet(Matching)
  /\ Cardinality(Matching) \in Nat /\ Cardinality(Matching) <= Cardinality(Asked)

LEMMA MatchingFinite == MatchingOK
<1>1. IsFiniteSet(Asked) BY CatalogAssumption, FS_Subset
<1>2. Matching \in SUBSET Asked BY DEF Matching
<1> QED BY <1>1, <1>2, FS_Subset, FS_CardinalityType DEF MatchingOK

\* Positions number the matching rows from 0, in order.
LEMMA Positions ==
  ASSUME StrictOrder
  PROVE  /\ \A p \in Matching : Position(p) \in 0..(Cardinality(Matching) - 1)
         /\ \A p, q \in Matching : Before(p, q) => Position(p) < Position(q)
         /\ \A p, q \in Matching : Position(p) = Position(q) => p = q
         /\ \A k \in 0..(Cardinality(Matching) - 1) : \E p \in Matching : Position(p) = k
<1> DEFINE rowsBefore(p) == {q \in Matching : Before(q, p)}
<1>0. Matching \subseteq Asked /\ IsFiniteSet(Matching) /\ Cardinality(Matching) \in Nat
  BY MatchingFinite DEF MatchingOK
<1>1. \A p \in Matching : /\ IsFiniteSet(rowsBefore(p)) /\ rowsBefore(p) \in SUBSET Matching
                          /\ Cardinality(rowsBefore(p)) \in Nat
  BY <1>0, FS_Subset, FS_CardinalityType
<1>2. ASSUME NEW p \in Matching
      PROVE  Position(p) \in 0..(Cardinality(Matching) - 1)
  <2>1. p \notin rowsBefore(p) BY <1>0 DEF StrictOrder
  <2>2. rowsBefore(p) # Matching BY <2>1
  <2>3. Position(p) = Cardinality(rowsBefore(p)) BY DEF Position
  <2> HIDE DEF rowsBefore
  <2>4. Cardinality(rowsBefore(p)) <= Cardinality(Matching)
        /\ Cardinality(rowsBefore(p)) # Cardinality(Matching)
    BY <1>0, <1>1, <2>2, FS_Subset
  <2> QED BY <1>0, <1>1, <2>3, <2>4
<1>3. ASSUME NEW p \in Matching, NEW q \in Matching, Before(p, q)
      PROVE  Position(p) < Position(q)
  <2>1. rowsBefore(p) \in SUBSET rowsBefore(q) BY <1>0, <1>3 DEF StrictOrder
  <2>2. p \in rowsBefore(q) \ rowsBefore(p) BY <1>0, <1>3 DEF StrictOrder
  <2>3. Position(p) = Cardinality(rowsBefore(p)) /\ Position(q) = Cardinality(rowsBefore(q))
    BY DEF Position
  <2> HIDE DEF rowsBefore
  <2>4. /\ Cardinality(rowsBefore(p)) <= Cardinality(rowsBefore(q))
        /\ Cardinality(rowsBefore(p)) # Cardinality(rowsBefore(q))
    BY <1>1, <2>1, <2>2, FS_Subset
  <2> QED BY <1>1, <2>3, <2>4
<1>4. \A p, q \in Matching : Position(p) = Position(q) => p = q
  <2>1. \A p, q \in Matching : p # q => Position(p) < Position(q) \/ Position(q) < Position(p)
    BY <1>0, <1>3 DEF StrictOrder
  <2>2. \A p \in Matching : Position(p) \in Nat BY <1>2
  <2> QED BY <2>1, <2>2
<1>5. ASSUME NEW k \in 0..(Cardinality(Matching) - 1)
      PROVE  \E p \in Matching : Position(p) = k
  <2> DEFINE T == 0..(Cardinality(Matching) - 1)
             f == [p \in Matching |-> Position(p)]
  <2>1. IsFiniteSet(T) /\ Cardinality(T) = Cardinality(Matching)
    BY <1>0, FS_Interval
  <2>2. f \in Injection(Matching, T)
    BY <1>2, <1>4 DEF Injection, IsInjective
  <2>3. \A p \in Matching : f[p] = Position(p) OBVIOUS
  <2>4. k \in T OBVIOUS
  <2> HIDE DEF f, T
  <2>5. f \in Surjection(Matching, T) BY <2>1, <2>2, FS_Injection
  <2> QED BY <2>3, <2>4, <2>5 DEF Surjection
<1> QED BY <1>2, <1>3, <1>4, <1>5

LEMMA MinOfTwo ==
  ASSUME NEW a \in Int, NEW b \in Int
  PROVE  Min({a, b}) = IF a <= b THEN a ELSE b
<1> DEFINE least == IF a <= b THEN a ELSE b
<1>1. least \in {a, b} /\ \A y \in {a, b} : least <= y OBVIOUS
<1>2. \A x \in {a, b} : (\A y \in {a, b} : x <= y) => x = least OBVIOUS
<1> HIDE DEF least
<1>3. Min({a, b}) = least BY <1>1, <1>2 DEF Min
<1> QED BY <1>3 DEF least

LEMMA CountTo ==
  ASSUME NEW k \in Nat  PROVE IsFiniteSet(1..k) /\ Cardinality(1..k) = k
  BY FS_Interval

\* The result lists the matching products by their positions.
LEMMA ResultRows ==
  ASSUME StrictOrder
  PROVE  /\ Result \in [1..Cardinality(Matching) -> Matching]
         /\ \A i \in 1..Cardinality(Matching) : Position(Result[i]) = i - 1
<1> DEFINE n == Cardinality(Matching)
           sorted(rows) == \A i, j \in 1..n : i < j => Before(rows[i], rows[j])
<1>0. n \in Nat /\ Matching \subseteq Asked BY MatchingFinite DEF MatchingOK
<1>1. \E rows \in SetToSeqs(Matching) : sorted(rows)
  <2> DEFINE rows == [i \in 1..n |-> CHOOSE p \in Matching : Position(p) = i - 1]
  <2>1. ASSUME NEW i \in 1..n
        PROVE  rows[i] \in Matching /\ Position(rows[i]) = i - 1
    <3>1. i - 1 \in 0..(n - 1) BY <1>0
    <3>2. \E p \in Matching : Position(p) = i - 1 BY <3>1, Positions
    <3> QED BY <3>2
  <2>2. rows \in [1..n -> Matching] BY <2>1
  <2> HIDE DEF rows
  <2>3. rows \in SetToSeqs(Matching)
    <3>1. \A i, j \in 1..n : i # j => rows[i] # rows[j] BY <1>0, <2>1
    <3> QED BY <2>2, <3>1 DEF SetToSeqs
  <2>4. ASSUME NEW i \in 1..n, NEW j \in 1..n, i < j
        PROVE  Before(rows[i], rows[j])
    <3>1. rows[i] \in Matching /\ rows[j] \in Matching BY <2>2
    <3>2. Position(rows[i]) < Position(rows[j]) BY <1>0, <2>1, <2>4
    <3>3. ~Before(rows[j], rows[i])
      <4>1. Before(rows[j], rows[i]) => Position(rows[j]) < Position(rows[i])
        BY <3>1, Positions
      <4> QED BY <1>0, <2>1, <3>2, <4>1
    <3>4. rows[i] # rows[j] BY <1>0, <2>1, <2>4
    <3> QED BY <1>0, <3>1, <3>3, <3>4 DEF StrictOrder
  <2> QED BY <2>3, <2>4
<1>2. Result \in SetToSeqs(Matching) /\ sorted(Result)
  <2>1. Result = CHOOSE rows \in SetToSeqs(Matching) : sorted(rows) BY DEF Result
  <2> HIDE DEF sorted
  <2> QED BY <1>1, <2>1
<1>3. /\ Result \in [1..n -> Matching]
      /\ \A i, j \in 1..n : i # j => Result[i] # Result[j]
  BY <1>2 DEF SetToSeqs
<1>4. \A p \in Matching : \E i \in 1..n : Result[i] = p
  <2>1. Result \in Injection(1..n, Matching) BY <1>3 DEF Injection, IsInjective
  <2>2. IsFiniteSet(Matching) /\ Cardinality(1..n) = n BY <1>0, MatchingFinite, FS_Interval DEF MatchingOK
  <2>3. Result \in Surjection(1..n, Matching) BY <2>1, <2>2, FS_Injection
  <2> QED BY <2>3 DEF Surjection
<1>5. ASSUME NEW i \in 1..n
      PROVE  Position(Result[i]) = i - 1
  <2> DEFINE before == {q \in Matching : Before(q, Result[i])}
             first == 1..(i - 1)
             f == [j \in first |-> Result[j]]
  <2>1. \A j \in first : j \in 1..n /\ j < i BY <1>0
  <2>2. \A j \in first : f[j] = Result[j] /\ f[j] \in before BY <1>2, <1>3, <2>1
  <2>3. \A q \in before : \E j \in first : f[j] = q
    <3> SUFFICES ASSUME NEW q \in before PROVE \E j \in first : f[j] = q OBVIOUS
    <3>1. PICK j \in 1..n : Result[j] = q BY <1>4
    <3>2. j # i BY <1>0, <1>3, <3>1 DEF StrictOrder
    <3>3. ~(i < j)
      <4>1. i < j => Before(Result[i], q) BY <1>2, <3>1
      <4>2. Result[i] \in Asked /\ q \in Asked /\ Before(q, Result[i]) BY <1>0, <1>3
      <4> QED BY <4>1, <4>2 DEF StrictOrder
    <3>4. j \in first BY <1>0, <3>2, <3>3
    <3> QED BY <2>2, <3>1, <3>4
  <2>4. \A j, k \in first : f[j] = f[k] => j = k BY <1>3, <2>1, <2>2
  <2>5. f \in Bijection(first, before)
    <3>1. f \in [first -> before] BY <2>2
    <3> HIDE DEF f, first, before
    <3> QED BY <2>3, <2>4, <3>1 DEF Bijection, Injection, Surjection, IsInjective
  <2>6. IsFiniteSet(first) /\ Cardinality(first) = i - 1
    <3>1. i - 1 \in Nat BY <1>0
    <3> QED BY <3>1, CountTo
  <2>7. Position(Result[i]) = Cardinality(before) BY DEF Position
  <2> HIDE DEF f, first, before
  <2> QED BY <2>5, <2>6, <2>7, FS_Bijection DEF ExistsBijection
<1> QED BY <1>3, <1>5

\* A page is the rows at the next positions.
LEMMA PageHas ==
  ASSUME StrictOrder, offset \in Nat, query.limit \in Nat
  PROVE  /\ PageRows \in Seq(Matching)
         /\ \A i \in 1..Len(PageRows) :
              PageRows[i] \in Matching /\ Position(PageRows[i]) = offset + i - 1
         /\ \A p \in Matching : offset <= Position(p) /\ Position(p) < offset + query.limit =>
              \E i \in 1..Len(PageRows) : PageRows[i] = p
         /\ Len(PageRows) <= query.limit
         /\ offset <= Cardinality(Matching) =>
              Len(PageRows) = Min({query.limit, Cardinality(Matching) - offset})
<1> DEFINE n == Cardinality(Matching)
           last == Min({offset + query.limit, n})
<1>0. n \in Nat BY MatchingFinite DEF MatchingOK
<1>1. last = IF offset + query.limit <= n THEN offset + query.limit ELSE n BY <1>0, MinOfTwo
<1>2. Result \in [1..n -> Matching] /\ \A i \in 1..n : Position(Result[i]) = i - 1
  BY ResultRows
<1>3. Len(Result) = n BY <1>0, <1>2
<1>4. PageRows = SubSeq(Result, offset + 1, last) BY <1>3 DEF PageRows, Slice
<1> HIDE DEF last
<1>5. last \in Int /\ \A i \in (offset + 1)..last : i \in 1..n BY <1>0, <1>1
<1>6. /\ PageRows \in Seq(Matching)
      /\ Len(PageRows) = IF offset + 1 <= last THEN last - offset ELSE 0
      /\ \A i \in 1..(last - offset) : PageRows[i] = Result[offset + i]
  <2>1. \A i \in (offset + 1)..last : Result[i] \in Matching BY <1>2, <1>5
  <2>2. /\ PageRows \in Seq(Matching)
        /\ Len(PageRows) = IF offset + 1 <= last THEN last - (offset + 1) + 1 ELSE 0
        /\ \A i \in 1..(last - (offset + 1) + 1) : PageRows[i] = Result[offset + 1 + i - 1]
    BY <1>4, <1>5, <2>1, SubSeqProperties
  <2> QED BY <1>5, <2>2
<1>7. \A i \in 1..Len(PageRows) : i \in 1..(last - offset) /\ offset + i \in 1..n
  BY <1>5, <1>6
<1>8. \A i \in 1..Len(PageRows) :
        PageRows[i] \in Matching /\ Position(PageRows[i]) = offset + i - 1
  BY <1>2, <1>6, <1>7
<1>9. ASSUME NEW p \in Matching, offset <= Position(p), Position(p) < offset + query.limit
      PROVE  \E i \in 1..Len(PageRows) : PageRows[i] = p
  <2>1. Position(p) \in 0..(n - 1) BY Positions
  <2>2. Position(p) - offset + 1 \in 1..Len(PageRows) BY <1>0, <1>1, <1>6, <1>9, <2>1
  <2>3. PICK i \in 1..Len(PageRows) : Position(p) = offset + i - 1 BY <2>1, <2>2
  <2>4. PageRows[i] \in Matching /\ Position(PageRows[i]) = Position(p) BY <1>8, <2>3
  <2> QED BY <2>3, <2>4, Positions
<1>10. Len(PageRows) <= query.limit BY <1>0, <1>1, <1>6
<1>11. offset <= n => Len(PageRows) = Min({query.limit, n - offset})
  <2>1. Min({query.limit, n - offset}) = IF query.limit <= n - offset THEN query.limit ELSE n - offset
    BY <1>0, MinOfTwo
  <2> QED BY <1>0, <1>1, <1>6, <2>1
<1> QED BY <1>6, <1>8, <1>9, <1>10, <1>11

-----------------------------------------------------------------------------
\* The commits of others.

LEMMA PricesTyped ==
  ASSUME price \in [SkuId -> Nat], Commit
  PROVE  price' \in [SkuId -> Nat]
<1>1. ASSUME NEW s \in SkuId, NEW x \in Prices, PriceSku(s, x)
      PROVE  price' \in [SkuId -> Nat]
  <2>1. x \in Nat BY CatalogAssumption
  <2> QED BY <1>1, <2>1 DEF PriceSku
<1> QED BY <1>1 DEF Commit, CreateProduct, UpdateProduct

\* Only what exists is selected.
LEMMA SelectedTyped ==
  ASSUME selected \subseteq ProductId \ unborn, Commit
  PROVE  selected' \subseteq ProductId \ unborn'
<1>1. ASSUME NEW p \in ProductId, CreateProduct(p)
      PROVE  selected' \subseteq ProductId \ unborn'
  BY <1>1 DEF CreateProduct
<1>2. ASSUME NEW p \in ProductId, UpdateProduct(p)
      PROVE  selected' \subseteq ProductId \ unborn'
  BY <1>2 DEF UpdateProduct
<1>3. ASSUME UNCHANGED <<selected, unborn>>
      PROVE  selected' \subseteq ProductId \ unborn'
  BY <1>3
<1> QED BY <1>1, <1>2, <1>3 DEF Commit, PriceSku

LEMMA OrderStaysStrict == PricesOK' => StrictOrder'
  BY OrderIsStrict, PTL

LEMMA MatchingStaysFinite == MatchingOK'
  BY MatchingFinite, PTL

LEMMA PositionTyped ==
  /\ \A p : Position(p) \in Nat
  /\ \A p : Position(p)' \in Nat
<1>1. \A p : Position(p) \in Nat
  <2> TAKE p
  <2>1. {q \in Matching : Before(q, p)} \in SUBSET Matching OBVIOUS
  <2> QED BY <2>1, MatchingFinite, FS_Subset, FS_CardinalityType DEF MatchingOK, Position
<1>2. \A p : Position(p)' \in Nat
  <2> TAKE p
  <2>1. {q \in Matching' : Before(q, p)'} \in SUBSET Matching' OBVIOUS
  <2> QED BY <2>1, MatchingStaysFinite, FS_Subset, FS_CardinalityType DEF MatchingOK, Position
<1> QED BY <1>1, <1>2

\* Unless rows arrive, a row can only slide forward.
LEMMA SlideForward ==
  ASSUME StrictOrder, StrictOrder', CommitOfOthers, "arrival" \notin changes'
  PROVE  /\ Matching' \subseteq Matching
         /\ \A p \in Matching' : Position(p)' <= Position(p)
<1>1. "arrival" \notin Changes BY DEF CommitOfOthers
<1>2. Matching' \subseteq Matching /\ ~Reordered BY <1>1 DEF Changes
<1>3. ASSUME NEW p \in Matching'
      PROVE  Position(p)' <= Position(p)
  <2> DEFINE old == {q \in Matching : Before(q, p)}
             new == {q \in Matching' : Before(q, p)'}
  <2>1. p \in Asked /\ \A q \in Matching' : q \in Asked /\ q \in Matching
    BY <1>2, MatchingFinite DEF MatchingOK
  <2>2. \A q \in Matching' : Before(q, p)' => Before(q, p)
    <3> SUFFICES ASSUME NEW q \in Matching', Before(q, p)', ~Before(q, p)
                 PROVE  FALSE
      OBVIOUS
    <3>1. q # p BY <2>1 DEF StrictOrder
    <3>2. Before(p, q) BY <2>1, <3>1 DEF StrictOrder
    <3>3. Before(p, q)' BY <1>2, <2>1, <3>2 DEF Reordered
    <3> QED BY <2>1, <3>3 DEF StrictOrder
  <2>3. new \in SUBSET old BY <2>1, <2>2
  <2>4. IsFiniteSet(old) BY MatchingFinite, FS_Subset DEF MatchingOK
  <2>5. Position(p) = Cardinality(old) /\ Position(p)' = Cardinality(new) BY DEF Position
  <2> HIDE DEF old, new
  <2> QED BY <2>3, <2>4, <2>5, FS_Subset
<1> QED BY <1>2, <1>3

\* Unless rows leave, a row can only slide back.
LEMMA SlideBack ==
  ASSUME StrictOrder, StrictOrder', CommitOfOthers, "departure" \notin changes'
  PROVE  /\ Matching \subseteq Matching'
         /\ \A p \in Matching : Position(p) <= Position(p)'
<1>1. "departure" \notin Changes BY DEF CommitOfOthers
<1>2. Matching \subseteq Matching' /\ ~Reordered BY <1>1 DEF Changes
<1>3. ASSUME NEW p \in Matching
      PROVE  Position(p) <= Position(p)'
  <2> DEFINE old == {q \in Matching : Before(q, p)}
             new == {q \in Matching' : Before(q, p)'}
  <2>1. old \in SUBSET new BY <1>2 DEF Reordered
  <2>2. IsFiniteSet(new) BY MatchingStaysFinite, FS_Subset DEF MatchingOK
  <2>3. Position(p) = Cardinality(old) /\ Position(p)' = Cardinality(new) BY DEF Position
  <2> HIDE DEF old, new
  <2> QED BY <2>1, <2>2, <2>3, FS_Subset
<1> QED BY <1>2, <1>3

\* What others do not touch is sold as before.
LEMMA UntouchedShown ==
  ASSUME NEW p \in ProductId, ~Disturbed(p)
  PROVE  Sellable(p)' = Sellable(p) /\ MinVisiblePrice(p)' = MinVisiblePrice(p)
<1>1. \A s \in SkuId : ProductOf[s] = p => sku'[s] = sku[s] /\ price'[s] = price[s]
  BY DEF Disturbed
<1>2. Sellable(p)' = Sellable(p) BY <1>1 DEF Sellable, LiveSkus, OnShelf
<1>3. {price'[s] : s \in Sellable(p)} = {price[s] : s \in Sellable(p)}
  BY <1>1 DEF Sellable, LiveSkus
<1> QED BY <1>2, <1>3 DEF MinVisiblePrice, Cheapest

-----------------------------------------------------------------------------
\* The steps of a walk.

\* The walk's own steps leave the shop alone.
LEMMA SameRows ==
  ASSUME UNCHANGED <<data, query>>
  PROVE  /\ Matching' = Matching
         /\ \A p : Position(p)' = Position(p)
         /\ \A p : Sellable(p)' = Sellable(p) /\ MinVisiblePrice(p)' = MinVisiblePrice(p)
<1>1. sku' = sku /\ product' = product /\ price' = price /\ query' = query
      /\ selected' = selected
  BY DEF data, shop
<1>2. \A p : Sellable(p)' = Sellable(p) BY <1>1 DEF Sellable, LiveSkus, OnShelf
<1>3. \A p : MinVisiblePrice(p)' = MinVisiblePrice(p)
  <2> TAKE p
  <2>1. {price'[s] : s \in Sellable(p)} = {price[s] : s \in Sellable(p)} BY <1>1
  <2> QED BY <1>2, <2>1 DEF MinVisiblePrice, Cheapest
<1>4. Matching' = Matching BY <1>1, <1>2 DEF Matching, VisibleInCatalog, Listed
<1>5. \A p, q : Before(p, q)' = Before(p, q)
  <2> TAKE p, q
  <2>1. MinVisiblePrice(p)' = MinVisiblePrice(p) /\ MinVisiblePrice(q)' = MinVisiblePrice(q)
    BY <1>3
  <2> QED BY <1>1, <2>1 DEF Before
<1>6. \A p : Position(p)' = Position(p)
  <2> TAKE p
  <2>1. {q \in Matching' : Before(q, p)'} = {q \in Matching : Before(q, p)} BY <1>4, <1>5
  <2> QED BY <2>1 DEF Position
<1> QED BY <1>2, <1>3, <1>4, <1>6

LEMMA CatalogStarts == CatalogInit => CatalogInv
<1> SUFFICES ASSUME CatalogInit PROVE CatalogInv OBVIOUS
<1> USE DEF CatalogInit
<1>1. price \in [SkuId -> Nat] BY CatalogAssumption
<1>2. IsFiniteSet(Asked) /\ Cardinality(Asked) \in Nat
  BY CatalogAssumption, FS_Subset, FS_CardinalityType
<1>3. WalkTypes BY <1>1, <1>2, CatalogAssumption DEF WalkTypes
<1>4. NoRepeat BY DEF NoRepeat, Distinct, Seen
<1>5. NoMiss BY PositionTyped DEF NoMiss
<1>6. InOrder BY MatchingFinite DEF MatchingOK, InOrder, Walking
<1>7. Annotated /\ ShownAsSorted BY DEF Annotated, ShownAsSorted
<1> QED BY <1>3, <1>4, <1>5, <1>6, <1>7 DEF CatalogInv

LEMMA StutterKeeps ==
  ASSUME CatalogInv, UNCHANGED walk  PROVE CatalogInv'
<1>1. UNCHANGED <<data, query>> /\ UNCHANGED walker /\ UNCHANGED history
  BY DEF walk, walker
<1> USE SameRows, <1>1 DEF data, walker, history
<1>2. WalkTypes' BY DEF CatalogInv, WalkTypes, ValidPagination
<1>3. NoRepeat' BY DEF CatalogInv, NoRepeat, Distinct, Seen, Walking, Products
<1>4. NoMiss' BY DEF CatalogInv, NoMiss, Seen, Products, ValidPagination
<1>5. InOrder' BY DEF CatalogInv, InOrder, Walking, ValidPagination
<1>6. Annotated' /\ ShownAsSorted' BY DEF CatalogInv, Annotated, ShownAsSorted, Products
<1> QED BY <1>2, <1>3, <1>4, <1>5, <1>6 DEF CatalogInv

LEMMA CountKeeps ==
  ASSUME CatalogInv, CountRows  PROVE CatalogInv'
<1>1. /\ UNCHANGED <<data, query>> /\ UNCHANGED <<offset, page, answers>>
      /\ UNCHANGED history /\ step = "count"
      /\ \/ ValidPagination /\ step' = "page" /\ total' = Cardinality(Matching)
         \/ ~ValidPagination /\ step' = "done" /\ total' = total
  BY DEF CountRows
<1> USE SameRows, <1>1 DEF data, history
<1>2. WalkTypes'
  <2>1. Cardinality(Matching) \in 0..Cardinality(Asked)
    <3>1. Cardinality(Asked) \in Nat BY CatalogAssumption, FS_Subset, FS_CardinalityType
    <3> QED BY <3>1, MatchingFinite DEF MatchingOK
  <2> QED BY <2>1 DEF CatalogInv, WalkTypes, ValidPagination
<1>3. NoRepeat' BY DEF CatalogInv, NoRepeat, Distinct, Seen, Walking, Products
<1>4. NoMiss' BY DEF CatalogInv, NoMiss, Seen, Products, ValidPagination
<1>5. InOrder' BY DEF CatalogInv, InOrder, Walking, ValidPagination
<1>6. Annotated' /\ ShownAsSorted' BY DEF CatalogInv, Annotated, ShownAsSorted, Products
<1> QED BY <1>2, <1>3, <1>4, <1>5, <1>6 DEF CatalogInv

LEMMA Numbers ==
  ASSUME WalkTypes, ValidPagination
  PROVE  query.limit \in Nat /\ query.limit >= 1 /\ offset \in Nat /\ total \in Nat
<1>1. query.limit \in 1..100 BY DEF ValidPagination
<1>2. Cardinality(Asked) \in Nat BY CatalogAssumption, FS_Subset, FS_CardinalityType
<1>3. offset \in Nat /\ total \in 0..Cardinality(Asked) BY DEF WalkTypes
<1> QED BY <1>1, <1>2, <1>3

LEMMA PageKeeps ==
  ASSUME CatalogInv, FetchPage  PROVE CatalogInv'
<1> DEFINE n == Cardinality(Matching)
<1>1. /\ UNCHANGED <<data, query>> /\ UNCHANGED <<offset, total, answers>>
      /\ UNCHANGED <<constant, changes, writes>>
      /\ step = "page" /\ step' = "skus" /\ touched' = {}
      /\ page' = [i \in DOMAIN PageRows |->
                    [product |-> PageRows[i], sortedBy |-> MinVisiblePrice(PageRows[i])]]
  BY DEF FetchPage
<1>2. /\ WalkTypes /\ PricesOK /\ ValidPagination /\ query.limit \in Nat
      /\ offset \in Nat /\ total \in Nat
  <2>1. WalkTypes /\ PricesOK /\ ValidPagination BY <1>1 DEF CatalogInv, WalkTypes, PricesOK
  <2> QED BY <2>1, Numbers
<1>3. /\ PageRows \in Seq(Matching)
      /\ \A i \in 1..Len(PageRows) :
           PageRows[i] \in Matching /\ Position(PageRows[i]) = offset + i - 1
      /\ \A p \in Matching : offset <= Position(p) /\ Position(p) < offset + query.limit =>
           \E i \in 1..Len(PageRows) : PageRows[i] = p
      /\ Len(PageRows) <= query.limit
      /\ offset <= n => Len(PageRows) = Min({query.limit, n - offset})
  BY <1>2, OrderIsStrict, PageHas
<1>4. /\ n \in Nat /\ Matching \subseteq Asked
      /\ \A p \in Matching : Position(p) \in Nat /\ Position(p) < n
  BY <1>2, OrderIsStrict, Positions, MatchingFinite DEF MatchingOK
<1>5. /\ DOMAIN page' = 1..Len(PageRows) /\ Len(page') = Len(PageRows)
      /\ Len(PageRows) \in Nat
      /\ \A i \in 1..Len(PageRows) :
           /\ page'[i].product = PageRows[i]
           /\ page'[i].sortedBy = MinVisiblePrice(PageRows[i])
  BY <1>1, <1>3
<1>6. Products(page') = {PageRows[i] : i \in 1..Len(PageRows)} BY <1>5 DEF Products
<1>7. WalkTypes'
  <2>1. \A i \in 1..Len(PageRows) : MinVisiblePrice(PageRows[i]) \in Int
    BY <1>2, CheapestType DEF PricesOK, MinVisiblePrice, Sellable, LiveSkus
  <2>2. \A i \in 1..Len(PageRows) :
          [product |-> PageRows[i], sortedBy |-> MinVisiblePrice(PageRows[i])] \in PageRow
    BY <1>3, <1>4, <2>1 DEF PageRow
  <2>3. page' \in Seq(PageRow) BY <1>1, <1>3, <1>5, <2>2
  <2> QED BY <1>1, <1>2, <1>3, <1>5, <2>3, SameRows DEF WalkTypes, ValidPagination, data
<1>8. NoRepeat'
  <2> SUFFICES ASSUME "arrival" \notin changes PROVE NoRepeat'
    BY <1>1 DEF NoRepeat
  <2>1. Distinct(answers) /\ \A p \in Seen \intersect Matching : Position(p) < offset
    BY <1>1 DEF CatalogInv, NoRepeat, Walking
  <2>2. Distinct(page') BY <1>2, <1>3, <1>5 DEF Distinct
  <2>3. Products(page') \intersect Seen = {}
    <3>1. \A i \in 1..Len(PageRows) : Position(PageRows[i]) >= offset BY <1>2, <1>3
    <3> QED BY <1>2, <1>3, <1>4, <1>6, <2>1, <3>1
  <2>4. \A p \in Products(page') : Position(p) < offset + query.limit
    BY <1>2, <1>3, <1>5, <1>6
  <2> QED BY <1>1, <2>1, <2>2, <2>3, <2>4, SameRows DEF NoRepeat, Distinct, Seen, Products
<1>9. NoMiss'
  <2> SUFFICES ASSUME changes \intersect {"departure", "late"} = {} PROVE NoMiss'
    BY <1>1 DEF NoMiss
  <2>1. /\ \A p \in constant \ Seen : Position(p) >= offset
        /\ total = n /\ constant \subseteq Matching
    BY <1>1, <1>2 DEF CatalogInv, NoMiss, WalkTypes
  <2>2. \A p \in constant \ (Seen \union Products(page')) : Position(p) >= offset + query.limit
    <3> SUFFICES ASSUME NEW p \in constant \ (Seen \union Products(page'))
                 PROVE  Position(p) >= offset + query.limit
      OBVIOUS
    <3>1. p \in Matching /\ Position(p) >= offset /\ Position(p) \in Nat BY <1>4, <2>1
    <3>2. ~ \E i \in 1..Len(PageRows) : PageRows[i] = p BY <1>6
    <3>3. ~ (Position(p) < offset + query.limit) BY <1>2, <1>3, <3>1, <3>2
    <3> QED BY <1>2, <3>1, <3>3
  <2>3. offset + query.limit >= total => constant \subseteq Seen \union Products(page')
    BY <1>2, <1>4, <2>1, <2>2
  <2> QED BY <1>1, <2>2, <2>3, SameRows DEF NoMiss, Seen, Products
<1>10. InOrder'
  <2> SUFFICES ASSUME changes = {} PROVE InOrder'
    BY <1>1 DEF InOrder
  <2>1. /\ \A i \in DOMAIN answers :
             answers[i].product \in Matching /\ Position(answers[i].product) = i - 1
        /\ Len(answers) = offset /\ offset <= n /\ total = n
    BY <1>1 DEF CatalogInv, InOrder, Walking
  <2>2. \A i \in DOMAIN page' :
          page'[i].product \in Matching /\ Position(page'[i].product) = offset + i - 1
    BY <1>3, <1>5
  <2>3. Len(page') = Min({query.limit, total - offset}) BY <1>3, <1>5, <2>1
  <2> QED BY <1>1, <2>1, <2>2, <2>3, SameRows DEF InOrder, Walking
<1>11. Annotated'
  <2> SUFFICES ASSUME query.mode = "catalog",
                      NEW i \in 1..Len(PageRows)
               PROVE  /\ Sellable(PageRows[i]) # {}
                      /\ page'[i].sortedBy = MinVisiblePrice(PageRows[i])
    BY <1>1, <1>5, <1>6, SameRows DEF Annotated
  <2>1. VisibleInCatalog(PageRows[i]) BY <1>3 DEF Matching
  <2> QED BY <1>5, <2>1 DEF VisibleInCatalog
<1>12. ShownAsSorted' BY <1>1 DEF CatalogInv, ShownAsSorted
<1> QED BY <1>7, <1>8, <1>9, <1>10, <1>11, <1>12 DEF CatalogInv

LEMMA SkusKeep ==
  ASSUME CatalogInv, FetchSkus  PROVE CatalogInv'
<1> DEFINE n == Cardinality(Matching)
           items == [i \in DOMAIN page |->
             [product |-> page[i].product, minPrice |-> ShownPrice(page[i].product),
              sortedBy |-> page[i].sortedBy, stale |-> page[i].product \in touched]]
<1>1. /\ UNCHANGED <<data, query>> /\ UNCHANGED <<total, page>> /\ UNCHANGED history
      /\ step = "skus" /\ answers' = answers \o items
      /\ \/ /\ offset + query.limit < total
            /\ step' = "count" /\ offset' = offset + query.limit
         \/ /\ ~(offset + query.limit < total)
            /\ step' = "done" /\ offset' = offset
  BY DEF FetchSkus
<1>2. /\ WalkTypes /\ PricesOK /\ ValidPagination /\ query.limit \in Nat
      /\ offset \in Nat /\ total \in Nat /\ page \in Seq(PageRow) /\ answers \in Seq(Answer)
  <2>1. /\ WalkTypes /\ PricesOK /\ ValidPagination
        /\ page \in Seq(PageRow) /\ answers \in Seq(Answer)
    BY <1>1 DEF CatalogInv, WalkTypes, PricesOK
  <2> QED BY <2>1, Numbers
<1>3. /\ DOMAIN page = 1..Len(page) /\ Len(page) \in Nat
      /\ DOMAIN answers = 1..Len(answers) /\ Len(answers) \in Nat
  BY <1>2
<1>4. items \in Seq(Answer) /\ Len(items) = Len(page)
  <2>1. \A i \in DOMAIN page : page[i] \in PageRow BY <1>2
  <2>2. \A i \in DOMAIN page : ShownPrice(page[i].product) \in Int
    BY <1>2, CheapestType DEF PricesOK, ShownPrice, Sellable, LiveSkus
  <2>3. \A i \in DOMAIN page : items[i] \in Answer BY <2>1, <2>2 DEF PageRow, Answer
  <2>4. items \in [1..Len(page) -> Answer] BY <1>3, <2>3
  <2> QED BY <1>3, <2>4
<1>5. \A i \in DOMAIN page :
        /\ items[i].product = page[i].product /\ items[i].sortedBy = page[i].sortedBy
        /\ items[i].minPrice = ShownPrice(page[i].product)
        /\ items[i].stale <=> page[i].product \in touched
  OBVIOUS
<1> HIDE DEF items
<1>6. /\ answers' \in Seq(Answer) /\ DOMAIN answers' = 1..Len(answers')
      /\ Len(answers') = Len(answers) + Len(page)
      /\ \A i \in 1..(Len(answers) + Len(page)) :
           answers'[i] = IF i <= Len(answers) THEN answers[i] ELSE items[i - Len(answers)]
  <2>1. /\ answers \o items \in Seq(Answer)
        /\ Len(answers \o items) = Len(answers) + Len(items)
        /\ \A i \in 1..(Len(answers) + Len(items)) : (answers \o items)[i] =
             IF i <= Len(answers) THEN answers[i] ELSE items[i - Len(answers)]
    BY <1>2, <1>4, ConcatProperties
  <2>2. answers' = answers \o items BY <1>1
  <2>3. /\ answers' \in Seq(Answer) /\ Len(answers') = Len(answers) + Len(page)
        /\ \A i \in 1..(Len(answers) + Len(page)) :
             answers'[i] = IF i <= Len(answers) THEN answers[i] ELSE items[i - Len(answers)]
    BY <1>4, <2>1, <2>2
  <2>4. DOMAIN answers' = 1..Len(answers') BY <2>3
  <2> QED BY <2>3, <2>4
<1>7. \A i \in DOMAIN answers' :
        \/ i \in DOMAIN answers /\ answers'[i] = answers[i]
        \/ /\ i > Len(answers) /\ i - Len(answers) \in DOMAIN page
           /\ answers'[i] = items[i - Len(answers)]
  BY <1>3, <1>6
<1>8. Seen' = Seen \union Products(page)
  <2>1. \A i \in DOMAIN answers : i \in DOMAIN answers' /\ answers'[i] = answers[i]
    BY <1>3, <1>6
  <2>2. \A i \in DOMAIN page : /\ i + Len(answers) \in DOMAIN answers'
                               /\ answers'[i + Len(answers)] = items[i]
    BY <1>3, <1>6
  <2>3. \A i \in DOMAIN page : \E j \in DOMAIN answers' : answers'[j] = items[i] BY <2>2
  <2>4. Seen \union Products(page) \subseteq Seen' BY <1>5, <2>1, <2>3 DEF Seen, Products
  <2>5. Seen' \subseteq Seen \union Products(page) BY <1>5, <1>7 DEF Seen, Products
  <2> QED BY <2>4, <2>5
<1>9. WalkTypes'
  BY <1>1, <1>2, <1>6, SameRows DEF WalkTypes, ValidPagination, history, data
<1>10. NoRepeat'
  <2> SUFFICES ASSUME "arrival" \notin changes PROVE NoRepeat'
    BY <1>1 DEF NoRepeat, history
  <2>1. /\ Distinct(answers) /\ Distinct(page) /\ Products(page) \intersect Seen = {}
        /\ \A p \in Seen \intersect Matching : Position(p) < offset
        /\ \A p \in Products(page) \intersect Matching : Position(p) < offset + query.limit
    BY <1>1 DEF CatalogInv, NoRepeat, Walking
  <2>2. Distinct(answers')
    <3> SUFFICES ASSUME NEW i \in DOMAIN answers', NEW j \in DOMAIN answers', i # j
                 PROVE  answers'[i].product # answers'[j].product
      BY DEF Distinct
    <3>1. \A k \in DOMAIN answers : answers[k].product \in Seen BY DEF Seen
    <3>2. \A k \in DOMAIN page : items[k].product \in Products(page) BY <1>5 DEF Products
    <3>3. CASE i \in DOMAIN answers /\ answers'[i] = answers[i]
      BY <1>7, <2>1, <3>1, <3>2, <3>3 DEF Distinct
    <3>4. CASE /\ i > Len(answers) /\ i - Len(answers) \in DOMAIN page
               /\ answers'[i] = items[i - Len(answers)]
      <4>1. CASE j \in DOMAIN answers /\ answers'[j] = answers[j]
        BY <2>1, <3>1, <3>2, <3>4, <4>1
      <4>2. CASE /\ j > Len(answers) /\ j - Len(answers) \in DOMAIN page
                 /\ answers'[j] = items[j - Len(answers)]
        <5>1. i - Len(answers) # j - Len(answers) BY <1>3, <1>6
        <5> QED BY <1>5, <2>1, <3>4, <4>2, <5>1 DEF Distinct
      <4> QED BY <1>7, <4>1, <4>2
    <3> QED BY <1>7, <3>3, <3>4
  <2>3. step' = "count" =>
          \A p \in (Seen \union Products(page)) \intersect Matching : Position(p) < offset'
    BY <1>1, <1>2, <2>1, PositionTyped
  <2> QED BY <1>1, <1>8, <2>2, <2>3, SameRows DEF NoRepeat, Walking
<1>11. NoMiss'
  <2> SUFFICES ASSUME changes \intersect {"departure", "late"} = {} PROVE NoMiss'
    BY <1>1 DEF NoMiss, history
  <2>1. /\ \A p \in constant \ (Seen \union Products(page)) : Position(p) >= offset + query.limit
        /\ offset + query.limit >= total => constant \subseteq Seen \union Products(page)
    BY <1>1 DEF CatalogInv, NoMiss
  <2> QED BY <1>1, <1>2, <1>8, <2>1, SameRows DEF NoMiss, history
<1>12. InOrder'
  <2> SUFFICES ASSUME changes = {} PROVE InOrder'
    BY <1>1 DEF InOrder, history
  <2>1. /\ \A i \in DOMAIN answers :
             answers[i].product \in Matching /\ Position(answers[i].product) = i - 1
        /\ Len(answers) = offset /\ offset <= n /\ total = n
        /\ \A i \in DOMAIN page :
             page[i].product \in Matching /\ Position(page[i].product) = offset + i - 1
        /\ Len(page) = Min({query.limit, total - offset})
    BY <1>1 DEF CatalogInv, InOrder, Walking
  <2>2. Len(page) = IF query.limit <= total - offset THEN query.limit ELSE total - offset
    BY <1>2, <2>1, MinOfTwo
  <2>3. \A i \in DOMAIN answers' :
          answers'[i].product \in Matching /\ Position(answers'[i].product) = i - 1
    <3> SUFFICES ASSUME NEW i \in DOMAIN answers'
                 PROVE  /\ answers'[i].product \in Matching
                        /\ Position(answers'[i].product) = i - 1
      OBVIOUS
    <3>1. CASE i \in DOMAIN answers /\ answers'[i] = answers[i] BY <2>1, <3>1
    <3>2. CASE /\ i > Len(answers) /\ i - Len(answers) \in DOMAIN page
               /\ answers'[i] = items[i - Len(answers)]
      <4>1. PICK k \in DOMAIN page : k = i - Len(answers) BY <3>2
      <4>2. answers'[i].product = page[k].product BY <1>5, <3>2, <4>1
      <4>3. page[k].product \in Matching /\ Position(page[k].product) = offset + k - 1 BY <2>1
      <4>4. offset + k - 1 = i - 1 BY <1>2, <1>3, <1>6, <2>1, <4>1
      <4> QED BY <4>2, <4>3, <4>4
    <3> QED BY <1>7, <3>1, <3>2
  <2>4. /\ step' = "count" => Len(answers') = offset' /\ offset' <= n
        /\ step' = "done" => Len(answers') = n
    <3>1. n \in Nat BY MatchingFinite DEF MatchingOK
    <3>2. Len(answers') = offset + Len(page) BY <1>6, <2>1
    <3>3. /\ n \in Nat /\ offset \in Nat /\ query.limit \in Nat
          /\ offset <= n /\ total = n
      BY <1>2, <2>1, <3>1
    <3>4. offset + query.limit < n => Len(answers') = offset + query.limit
      BY <2>2, <3>2, <3>3
    <3>5. ~(offset + query.limit < n) => Len(answers') = n
      BY <2>2, <3>2, <3>3
    <3>6. \/ offset + query.limit < n /\ step' = "count" /\ offset' = offset + query.limit
          \/ ~(offset + query.limit < n) /\ step' = "done"
      BY <1>1, <2>1
    <3> QED BY <1>2, <3>1, <3>4, <3>5, <3>6
  <2> QED BY <1>1, <2>1, <2>3, <2>4, SameRows DEF InOrder, Walking
<1>13. Annotated' BY <1>1 DEF Annotated
<1>14. ShownAsSorted'
  <2> SUFFICES ASSUME query.mode = "catalog", NEW i \in DOMAIN answers', ~answers'[i].stale
               PROVE  /\ answers'[i].minPrice = answers'[i].sortedBy
                      /\ answers'[i].minPrice # NoPrice
    BY <1>1 DEF ShownAsSorted
  <2>1. CASE i \in DOMAIN answers /\ answers'[i] = answers[i]
    BY <2>1 DEF CatalogInv, ShownAsSorted
  <2>2. CASE /\ i > Len(answers) /\ i - Len(answers) \in DOMAIN page
             /\ answers'[i] = items[i - Len(answers)]
    <3>1. PICK k \in DOMAIN page : answers'[i] = items[k] BY <2>2
    <3>2. page[k].product \in Products(page) \ touched BY <1>5, <3>1 DEF Products
    <3>3. /\ Sellable(page[k].product) # {}
          /\ page[k].sortedBy = MinVisiblePrice(page[k].product)
      BY <1>1, <3>2 DEF CatalogInv, Annotated
    <3>4. Sellable(page[k].product) \in SUBSET SkuId BY DEF Sellable, LiveSkus
    <3>5. MinVisiblePrice(page[k].product) # NoPrice
      BY <1>2, <3>3, <3>4, CheapestType DEF PricesOK, MinVisiblePrice
    <3> QED BY <1>5, <3>1, <3>3, <3>5 DEF ShownPrice, MinVisiblePrice
  <2> QED BY <1>7, <2>1, <2>2
<1> QED BY <1>9, <1>10, <1>11, <1>12, <1>13, <1>14 DEF CatalogInv

LEMMA CommitsKeep ==
  ASSUME CatalogInv, CommitOfOthers  PROVE CatalogInv'
<1>1. /\ UNCHANGED <<query, step, offset, total, page, answers>> /\ step # "done" /\ Commit
      /\ constant' = constant \intersect Matching' /\ changes' = changes \union Changes
      /\ touched' = touched \union {p \in ProductId : Disturbed(p)}
  BY DEF CommitOfOthers, walker
<1>2. WalkTypes /\ PricesOK /\ PricesOK' /\ StrictOrder /\ StrictOrder'
  <2>1. WalkTypes /\ PricesOK BY DEF CatalogInv, WalkTypes, PricesOK
  <2>2. PricesOK' BY <1>1, <2>1, PricesTyped DEF PricesOK
  <2> QED BY <2>1, <2>2, OrderIsStrict, OrderStaysStrict
<1>3. WalkTypes'
  <2>1. Changes \subseteq {"arrival", "departure", "late"} BY DEF Changes
  <2>2. selected' \subseteq ProductId \ unborn'
    BY <1>1, <1>2, SelectedTyped DEF WalkTypes
  <2> QED BY <1>1, <1>2, <2>1, <2>2 DEF WalkTypes, PricesOK, ValidPagination
<1>4. NoRepeat'
  <2> SUFFICES ASSUME "arrival" \notin changes' PROVE NoRepeat'
    BY DEF NoRepeat
  <2>1. Matching' \subseteq Matching /\ \A p \in Matching' : Position(p)' <= Position(p)
    BY <1>2, SlideForward
  <2>2. "arrival" \notin changes BY <1>1
  <2>3. Seen' = Seen /\ Products(page') = Products(page) /\ Walking
    BY <1>1, <1>2 DEF Seen, Products, Walking, WalkTypes
  <2>4. \A p \in Seen \intersect Matching' : Position(p)' < offset
    BY <1>2, <2>1, <2>2, <2>3, PositionTyped DEF CatalogInv, NoRepeat, WalkTypes
  <2>5. step = "skus" =>
          \A p \in Products(page) \intersect Matching' : Position(p)' < offset + query.limit
    <3>1. step = "skus" => query.limit \in Nat /\ offset \in Nat
      BY <1>2, Numbers DEF WalkTypes
    <3> QED BY <2>1, <2>2, <3>1, PositionTyped DEF CatalogInv, NoRepeat
  <2> QED BY <1>1, <2>2, <2>3, <2>4, <2>5 DEF CatalogInv, NoRepeat, Distinct
<1>5. NoMiss'
  <2> SUFFICES ASSUME changes' \intersect {"departure", "late"} = {} PROVE NoMiss'
    BY DEF NoMiss
  <2>1. Matching \subseteq Matching' /\ \A p \in Matching : Position(p) <= Position(p)'
    BY <1>2, SlideBack
  <2>2. changes \intersect {"departure", "late"} = {} /\ "late" \notin Changes BY <1>1
  <2>3. Seen' = Seen /\ Products(page') = Products(page) BY <1>1 DEF Seen, Products
  <2>4. constant' = constant /\ constant \subseteq Matching
    BY <1>1, <1>2, <2>1 DEF WalkTypes
  <2>5. step \in {"count", "page"} => \A p \in constant \ Seen : Position(p)' >= offset
    BY <1>2, <2>1, <2>2, <2>4, PositionTyped DEF CatalogInv, NoMiss, WalkTypes
  <2>6. step = "skus" =>
          \A p \in constant \ (Seen \union Products(page)) :
            Position(p)' >= offset + query.limit
    <3>1. step = "skus" => query.limit \in Nat /\ offset \in Nat
      BY <1>2, Numbers DEF WalkTypes
    <3> QED BY <2>1, <2>2, <2>4, <3>1, PositionTyped DEF CatalogInv, NoMiss
  <2>7. step = "page" => total = Cardinality(Matching')
    <3>1. step = "page" => Matching' = Matching BY <2>1, <2>2 DEF Changes
    <3> QED BY <2>2, <3>1 DEF CatalogInv, NoMiss
  <2> QED BY <1>1, <2>2, <2>3, <2>4, <2>5, <2>6, <2>7 DEF CatalogInv, NoMiss
<1>6. InOrder'
  <2> SUFFICES ASSUME changes' = {} PROVE InOrder'
    BY DEF InOrder
  <2>1. changes = {} BY <1>1
  <2>2. Matching' = Matching /\ \A p \in Matching : Position(p)' = Position(p)
    BY <1>2, SlideForward, SlideBack, PositionTyped
  <2> QED BY <1>1, <2>1, <2>2 DEF CatalogInv, InOrder, Walking
<1>7. Annotated'
  <2> SUFFICES ASSUME step = "skus", query.mode = "catalog", NEW p \in Products(page) \ touched'
               PROVE  /\ Sellable(p)' # {}
                      /\ \A i \in DOMAIN page : page[i].product = p =>
                           page[i].sortedBy = MinVisiblePrice(p)'
    BY <1>1 DEF Annotated, Products
  <2>1. p \in ProductId
    <3>1. \A i \in DOMAIN page : page[i] \in PageRow BY <1>2 DEF WalkTypes
    <3> QED BY <3>1, CatalogAssumption DEF Products, PageRow
  <2>2. ~Disturbed(p) /\ p \notin touched BY <1>1, <2>1
  <2>3. Sellable(p)' = Sellable(p) /\ MinVisiblePrice(p)' = MinVisiblePrice(p)
    BY <2>1, <2>2, UntouchedShown
  <2> QED BY <2>2, <2>3 DEF CatalogInv, Annotated
<1>8. ShownAsSorted' BY <1>1 DEF CatalogInv, ShownAsSorted
<1> QED BY <1>3, <1>4, <1>5, <1>6, <1>7, <1>8 DEF CatalogInv

-----------------------------------------------------------------------------
\* Between its queries a walk sees nothing but steps of the products' life.
THEOREM WalksSeeLifecycle == CatalogSpec => Spec
<1>1. CatalogInit => Init BY DEF CatalogInit
<1>2. [CatalogNext]_walk => [Next]_shop
  <2>1. CASE CountRows \/ FetchPage \/ FetchSkus
    BY <2>1 DEF CountRows, FetchPage, FetchSkus, data, shop
  <2>2. ASSUME NEW p \in ProductId, NEW verdict \in Verdict, Judge(p, verdict, {})
        PROVE  Change
    <3>1. {} \in SUBSET (LiveSkus(p) \union {WholeProduct}) OBVIOUS
    <3> QED BY <2>2, <3>1 DEF Change
  <2>3. ASSUME \/ \E s \in SkuId, x \in Prices : PriceSku(s, x)
               \/ \E p \in ProductId : CreateProduct(p) \/ UpdateProduct(p)
        PROVE  Change \/ UNCHANGED shop
    <3>1. \A s \in SkuId : ProductOf[s] \in ProductId BY LifecycleAssumption
    <3> QED BY <2>3, <3>1 DEF PriceSku, CreateProduct, UpdateProduct, Edited, Change
  <2>4. CASE CommitOfOthers
    BY <2>2, <2>3, <2>4 DEF CommitOfOthers, Commit, MoveUnits, Change, Next
  <2>5. CASE UNCHANGED walk BY <2>5 DEF walk, data
  <2> QED BY <2>1, <2>4, <2>5 DEF CatalogNext
<1> QED BY <1>1, <1>2, PTL DEF CatalogSpec, Spec

\* An offset numbers the rows of a result that changes: what a walk has shown or not
\* shown slides past it only when others arrive, leave or move.
THEOREM WalkInvariance == CatalogSpec => []CatalogInv
<1>1. CatalogInv /\ [CatalogNext]_walk => CatalogInv'
  BY StutterKeeps, CountKeeps, PageKeeps, SkusKeep, CommitsKeep DEF CatalogNext
<1> QED BY CatalogStarts, <1>1, PTL DEF CatalogSpec

\* Every variable of a walk keeps its type, and no page is longer than the limit.
THEOREM CatalogTypes == CatalogSpec => []CatalogTypeOK
<1>1. CatalogInv => CatalogTypeOK
  BY MatchingFinite DEF MatchingOK, CatalogInv, WalkTypes, CatalogTypeOK
<1> QED BY <1>1, WalkInvariance, PTL

\* A walk misses a product that always matched only if others left or moved, or one
\* arrived between the count and its page.
THEOREM OnlyDisturbedWalksMiss == CatalogSpec => []MissesExplained
<1>1. CatalogInv => MissesExplained BY DEF CatalogInv, NoMiss, MissesExplained
<1> QED BY <1>1, WalkInvariance, PTL

\* A walk shows a product twice only if others arrived or moved.
THEOREM OnlyDisturbedWalksRepeat == CatalogSpec => []RepeatsExplained
<1>1. CatalogInv => RepeatsExplained
  <2> SUFFICES ASSUME CatalogInv, "arrival" \notin changes
               PROVE  ~(Cardinality(Seen) < Len(answers))
    BY DEF RepeatsExplained
  <2> DEFINE f == [i \in DOMAIN answers |-> answers[i].product]
  <2>1. DOMAIN answers = 1..Len(answers) /\ Len(answers) \in Nat
    BY DEF CatalogInv, WalkTypes
  <2>2. f \in Bijection(DOMAIN answers, Seen)
    <3>1. f \in [DOMAIN answers -> Seen] BY DEF Seen
    <3>2. \A i, j \in DOMAIN answers : f[i] = f[j] => i = j
      BY DEF CatalogInv, NoRepeat, Distinct
    <3>3. \A p \in Seen : \E i \in DOMAIN answers : f[i] = p BY DEF Seen
    <3> HIDE DEF f
    <3> QED BY <3>1, <3>2, <3>3 DEF Bijection, Injection, Surjection, IsInjective
  <2>3. IsFiniteSet(DOMAIN answers) /\ Cardinality(DOMAIN answers) = Len(answers)
    BY <2>1, CountTo
  <2>4. Cardinality(Seen) = Len(answers)
    BY <2>2, <2>3, FS_Bijection DEF ExistsBijection
  <2> QED BY <2>1, <2>4
<1> QED BY <1>1, WalkInvariance, PTL

\* An item of the catalog shows the price it is sorted by, unless its SKUs changed
\* between the two queries.
THEOREM SortedByWhatIsShown == CatalogSpec => []ShownAsSorted
<1>1. CatalogInv => ShownAsSorted BY DEF CatalogInv
<1> QED BY <1>1, WalkInvariance, PTL

\* The pages of an undisturbed walk are together the result, in order.
THEOREM UndisturbedWalksShowAll == CatalogSpec => []UndisturbedWalkComplete
<1>1. CatalogInv => UndisturbedWalkComplete
  <2> SUFFICES ASSUME CatalogInv, step = "done", ValidPagination, changes = {}
               PROVE  [i \in DOMAIN answers |-> answers[i].product] = Result
    BY DEF UndisturbedWalkComplete
  <2> DEFINE n == Cardinality(Matching)
  <2>1. /\ Len(answers) = n /\ DOMAIN answers = 1..n
        /\ \A i \in DOMAIN answers :
             answers[i].product \in Matching /\ Position(answers[i].product) = i - 1
    BY DEF CatalogInv, InOrder, WalkTypes
  <2>2. StrictOrder BY OrderIsStrict DEF PricesOK, CatalogInv, WalkTypes
  <2>3. /\ Result \in [1..n -> Matching]
        /\ \A i \in 1..n : Position(Result[i]) = i - 1
    BY <2>2, ResultRows
  <2>4. \A i \in 1..n : answers[i].product = Result[i] BY <2>1, <2>2, <2>3, Positions
  <2> QED BY <2>1, <2>3, <2>4
<1> QED BY <1>1, WalkInvariance, PTL

-----------------------------------------------------------------------------
\* One product.

Public == principal = "catalog_service"

\* A report is about the product or one of its SKUs that exist.
TablesOK ==
  /\ sku \in [SkuId -> SkuRow]
  /\ product \in [ProductId -> ProductRow]
  /\ reports \in [ProductId -> SUBSET (SkuId \union {WholeProduct})]
  /\ \A p \in ProductId : reports[p] \subseteq LiveSkus(p) \union {WholeProduct}

AskedOK ==
  /\ asked \in SkuId \union ProductId
  /\ stage \in {"product", "skus", "reports", "report_skus"} => asked \in ProductId
  /\ stage \in {"commit", "reread"} => asked \in SkuId

\* The SKUs that were returned, and those added since.
ShownStillThere ==
  stage = "reports" /\ ~Public => LiveSkus(asked) \subseteq shown \union added

ListedStillThere ==
  stage = "report_skus" =>
    /\ listed \subseteq LiveSkus(asked) \union removed \union {WholeProduct}
    /\ ~Public => listed \ {WholeProduct} \subseteq shown \union added

UpdatedStillThere ==
  stage = "reread" => sku[asked].state = "live" \/ asked \in removed

PublicRead ==
  stage \in {"skus", "reports", "report_skus"} /\ Public =>
    /\ row.status = "MODERATED" /\ ~row.deleted
    /\ IF stage = "skus" THEN VisibleInCatalog(asked) \/ left ELSE shown # {} \/ left

DetailInv ==
  /\ TablesOK /\ AskedOK /\ DetailTypeOK
  /\ ShownStillThere /\ ListedStillThere /\ UpdatedStillThere /\ PublicRead
  /\ ErrorsExplained /\ ReportsNameShownSkus /\ PublicDetailOnSale

-----------------------------------------------------------------------------
Status == Verdict \union {"CREATED", "ON_MODERATION"}

LEMMA StatusTyped ==
  ASSUME product \in [ProductId -> ProductRow], NEW p \in ProductId, NEW status \in Status,
         SetStatus(p, status)
  PROVE  product' \in [ProductId -> ProductRow]
<1>1. [product[p] EXCEPT !.status = status] \in ProductRow
  BY DEF ProductRow, Status
<1> QED
  BY <1>1 DEF SetStatus

LEMMA EditKeepsTables ==
  ASSUME TablesOK, NEW p \in ProductId, Edit(p)
  PROVE  TablesOK' /\ sku' = sku
<1>1. product' \in [ProductId -> ProductRow]
  <2>1. "ON_MODERATION" \in Status
    BY DEF Status
  <2> QED
    BY <2>1, StatusTyped DEF Edit, TablesOK
<1> QED
  BY <1>1 DEF Edit, TablesOK, LiveSkus

\* Every commit keeps the tables, and a SKU comes to live only by being created.
LEMMA CommitsKeepTables ==
  ASSUME TablesOK,
         Change \/ \E s \in SkuId, n, m \in Quantity : MoveUnits(s, n, m)
  PROVE  /\ TablesOK'
         /\ \A s \in SkuId : sku'[s].state = "live" => sku[s].state \in {"unborn", "live"}
<1> USE LifecycleAssumption
<1>1. ASSUME NEW s \in SkuId, AddSku(s)
      PROVE  /\ TablesOK'
             /\ \A t \in SkuId : sku'[t].state = "live" => sku[t].state \in {"unborn", "live"}
  <2>1. /\ sku' \in [SkuId -> SkuRow] /\ reports' = reports
        /\ \A t \in SkuId : t # s => sku'[t] = sku[t]
        /\ sku[s].state = "unborn" /\ sku'[s].state = "live"
    BY <1>1 DEF AddSku, TablesOK, SkuRow
  <2>2. product' \in [ProductId -> ProductRow]
    <3>1. "ON_MODERATION" \in Status /\ ProductOf[s] \in ProductId
      BY DEF Status
    <3> QED
      BY <1>1, <3>1, StatusTyped DEF AddSku, TablesOK
  <2> QED
    BY <2>1, <2>2 DEF TablesOK, LiveSkus
<1>2. ASSUME NEW s \in SkuId, RemoveSku(s)
      PROVE  /\ TablesOK'
             /\ \A t \in SkuId : sku'[t].state = "live" => sku[t].state \in {"unborn", "live"}
  <2>1. /\ sku' \in [SkuId -> SkuRow]
        /\ \A t \in SkuId : t # s => sku'[t] = sku[t]
        /\ sku[s].state = "live" /\ sku'[s].state = "deleted"
    BY <1>2 DEF RemoveSku, TablesOK, SkuRow
  <2>2. product' \in [ProductId -> ProductRow]
    <3>1. ProductOf[s] \in ProductId /\ product[ProductOf[s]].status \in Status
      BY DEF TablesOK, ProductRow, Status
    <3>2. (IF LiveSkus(ProductOf[s]) = {s} /\ product[ProductOf[s]].status = "ON_MODERATION"
           THEN "CREATED" ELSE product[ProductOf[s]].status)
            \in Status
      BY <3>1 DEF Status
    <3> QED
      BY <1>2, <3>1, <3>2, StatusTyped DEF RemoveSku, TablesOK
  <2>3. \A p \in ProductId : reports'[p] = IF p = ProductOf[s] THEN reports[p] \ {s} ELSE reports[p]
    BY <1>2 DEF RemoveSku, TablesOK
  <2>4. reports' \in [ProductId -> SUBSET (SkuId \union {WholeProduct})]
    BY <1>2 DEF RemoveSku, TablesOK
  <2>5. \A p \in ProductId : LiveSkus(p)' = LiveSkus(p) \ {s}
    BY <2>1 DEF LiveSkus
  <2>6. \A p \in ProductId : p # ProductOf[s] => s \notin LiveSkus(p)
    BY DEF LiveSkus
  <2>7. ASSUME NEW p \in ProductId
        PROVE  reports'[p] \subseteq LiveSkus(p)' \union {WholeProduct}
    BY <2>3, <2>5, <2>6 DEF TablesOK
  <2> QED
    BY <2>1, <2>2, <2>4, <2>7 DEF TablesOK
<1>3. ASSUME NEW p \in ProductId, Edit(p) \/ Delete(p)
      PROVE  TablesOK' /\ sku' = sku
  <2>1. ASSUME Delete(p)  PROVE product' \in [ProductId -> ProductRow]
    <3>1. product[p] \in ProductRow
      BY DEF TablesOK
    <3>2. [product[p] EXCEPT !.deleted = TRUE] \in ProductRow
      BY <3>1 DEF ProductRow
    <3> QED
      BY <2>1, <3>2 DEF Delete, TablesOK
  <2>2. ASSUME Delete(p)  PROVE TablesOK' /\ sku' = sku
    BY <2>1, <2>2 DEF Delete, TablesOK, LiveSkus
  <2> QED
    BY <1>3, <2>2, EditKeepsTables
<1>4. ASSUME NEW p \in ProductId, NEW verdict \in Verdict,
             NEW about \in SUBSET (LiveSkus(p) \union {WholeProduct}),
             Judge(p, verdict, about)
      PROVE  TablesOK' /\ sku' = sku
  <2>1. product' \in [ProductId -> ProductRow]
    <3> DEFINE blocked == verdict # "MODERATED"
    <3>1. product[p] \in ProductRow /\ blocked \in BOOLEAN
      BY DEF TablesOK
    <3>2. product' = [product EXCEPT ![p] = [@ EXCEPT !.status = verdict, !.reason = blocked]]
      BY <1>4 DEF Judge
    <3> HIDE DEF blocked
    <3>3. [product[p] EXCEPT !.status = verdict, !.reason = blocked] \in ProductRow
      BY <3>1 DEF ProductRow
    <3> QED
      BY <3>2, <3>3 DEF TablesOK
  <2>2. /\ reports' = [reports EXCEPT ![p] = about] /\ sku' = sku
        /\ about \subseteq LiveSkus(p) \union {WholeProduct}
    BY <1>4 DEF Judge
  <2> QED
    BY <2>1, <2>2 DEF TablesOK, LiveSkus
<1>5. ASSUME NEW s \in SkuId, NEW n \in Quantity, NEW m \in Quantity, MoveUnits(s, n, m)
      PROVE  TablesOK' /\ \A t \in SkuId : sku'[t].state = sku[t].state
  BY <1>5 DEF MoveUnits, MoveStock, TablesOK, LiveSkus
<1>6. sku' = sku => \A s \in SkuId : sku'[s].state = "live" => sku[s].state \in {"unborn", "live"}
  OBVIOUS
<1> QED
  BY <1>1, <1>2, <1>3, <1>4, <1>5, <1>6 DEF Change

LEMMA InitDetail == DetailInit => DetailInv
  BY LifecycleAssumption DEF DetailInit, Init, DetailInv, TablesOK, AskedOK, DetailTypeOK,
     ShownStillThere, ListedStillThere, UpdatedStillThere, PublicRead, ErrorsExplained,
     ReportsNameShownSkus, PublicDetailOnSale, ProductRow, LiveSkus

\* Other requests commit between two queries.
LEMMA WriteKeeps ==
  ASSUME DetailInv, Write  PROVE DetailInv'
<1>1. /\ UNCHANGED reader /\ stage # "done" /\ answer = "none"
      /\ TablesOK'
      /\ \A s \in SkuId : sku'[s].state = "live" => sku[s].state \in {"unborn", "live"}
  BY CommitsKeepTables DEF Write, DetailInv, DetailTypeOK
<1>2. /\ \A s \in SkuId : sku'[s].state = "live" => sku[s].state = "live" \/ s \in added'
      /\ \A s \in SkuId : sku[s].state = "live" => sku'[s].state = "live" \/ s \in removed'
      /\ added \subseteq added' /\ removed \subseteq removed' /\ (left => left')
  BY <1>1 DEF Write
<1>3. AskedOK' /\ DetailTypeOK' /\ ErrorsExplained' /\ ReportsNameShownSkus' /\ PublicDetailOnSale'
  BY <1>1 DEF reader, DetailInv, AskedOK, DetailTypeOK, ErrorsExplained,
     ReportsNameShownSkus, PublicDetailOnSale
<1>4. ShownStillThere' /\ ListedStillThere' /\ UpdatedStillThere'
  BY <1>1, <1>2 DEF reader, Public, DetailInv, AskedOK, LiveSkus,
     ShownStillThere, ListedStillThere, UpdatedStillThere
<1>5. PublicRead'
  <2>1. asked \in ProductId /\ VisibleInCatalog(asked) => VisibleInCatalog(asked)' \/ left'
    BY DEF Write
  <2> QED
    BY <1>1, <1>2, <2>1 DEF reader, Public, PublicRead, DetailInv, AskedOK
<1> QED
  BY <1>1, <1>3, <1>4, <1>5 DEF DetailInv

-----------------------------------------------------------------------------
\* The queries of a detail.
LEMMA ReadKeeps ==
  ASSUME DetailInv, Read  PROVE DetailInv'
<1> USE LifecycleAssumption
<1>0. TablesOK' /\ LiveSkus(asked)' = LiveSkus(asked) /\ asked' = asked /\ principal' = principal
  BY DEF Read, ReadRow, ReadSkus, ReadReports, ReadReportSkus, shop, DetailInv, TablesOK, LiveSkus
<1>1. CASE ReadRow
  BY <1>0, <1>1 DEF ReadRow, Found, Service, VisibleInCatalog, Sellable, LiveSkus, OnShelf, shop, Public,
     DetailInv, AskedOK, DetailTypeOK, ShownStillThere, ListedStillThere, UpdatedStillThere,
     PublicRead, ErrorsExplained, ReportsNameShownSkus, PublicDetailOnSale
<1>2. CASE ReadSkus
  BY <1>0, <1>2 DEF ReadSkus, VisibleInCatalog, Sellable, LiveSkus, shop, Public,
     DetailInv, AskedOK, DetailTypeOK, ShownStillThere, ListedStillThere, UpdatedStillThere,
     PublicRead, ErrorsExplained, ReportsNameShownSkus, PublicDetailOnSale
<1>3. CASE ReadReports
  BY <1>0, <1>3 DEF ReadReports, shop, Public, TablesOK,
     DetailInv, AskedOK, DetailTypeOK, ShownStillThere, ListedStillThere, UpdatedStillThere,
     PublicRead, ErrorsExplained, ReportsNameShownSkus, PublicDetailOnSale
<1>4. CASE ReadReportSkus
  BY <1>0, <1>4 DEF ReadReportSkus, shop, ghost, Public, ShownReports, ShowsReports,
     DetailInv, AskedOK, DetailTypeOK, ShownStillThere, ListedStillThere, UpdatedStillThere,
     PublicRead, ErrorsExplained, ReportsNameShownSkus, PublicDetailOnSale
<1> QED
  BY <1>1, <1>2, <1>3, <1>4 DEF Read

\* A SKU's update and its answer.
LEMMA UpdateKeeps ==
  ASSUME DetailInv, UpdateSku  PROVE DetailInv'
<1> USE LifecycleAssumption
<1>1. CASE CommitSkuUpdate
  <2>1. ASSUME NEW p \in ProductId, Edit(p)  PROVE TablesOK' /\ sku' = sku
    BY <2>1, EditKeepsTables DEF DetailInv
  <2>2. (UNCHANGED shop) => TablesOK' /\ sku' = sku
    BY DEF shop, DetailInv, TablesOK, LiveSkus
  <2>3. asked \in SkuId /\ ProductOf[asked] \in ProductId
    BY <1>1 DEF CommitSkuUpdate, DetailInv, AskedOK
  <2>4. TablesOK' /\ sku' = sku
    BY <1>1, <2>1, <2>2, <2>3 DEF CommitSkuUpdate
  <2> QED
    BY <1>1, <2>3, <2>4 DEF CommitSkuUpdate, Public,
       DetailInv, AskedOK, DetailTypeOK, ShownStillThere, ListedStillThere, UpdatedStillThere,
       PublicRead, ErrorsExplained, ReportsNameShownSkus, PublicDetailOnSale
<1>2. CASE RereadSku
  <2>1. TablesOK' /\ asked \in SkuId
    BY <1>2 DEF RereadSku, shop, DetailInv, AskedOK, TablesOK, LiveSkus
  <2> QED
    BY <1>2, <2>1 DEF RereadSku, shop, ghost, Public,
       DetailInv, AskedOK, DetailTypeOK, ShownStillThere, ListedStillThere, UpdatedStillThere,
       PublicRead, ErrorsExplained, ReportsNameShownSkus, PublicDetailOnSale
<1> QED
  BY <1>1, <1>2 DEF UpdateSku

\* Between its queries, an answer stays true of the tables but for what was added,
\* removed or taken from the catalog in the meantime.
THEOREM DetailInvariance == DetailSpec => []DetailInv
<1>1. DetailInv /\ UNCHANGED detail => DetailInv'
  BY DEF detail, reader, ghost, shop, Public, DetailInv, TablesOK, AskedOK, DetailTypeOK,
     ShownStillThere, ListedStillThere, UpdatedStillThere, PublicRead, ErrorsExplained,
     ReportsNameShownSkus, PublicDetailOnSale, ShownReports, ShowsReports, LiveSkus,
     VisibleInCatalog, Sellable, OnShelf
<1>2. DetailInv /\ [DetailNext]_detail => DetailInv'
  BY <1>1, ReadKeeps, UpdateKeeps, WriteKeeps DEF DetailNext
<1> QED
  BY InitDetail, <1>2, PTL DEF DetailSpec

\* A detail, or the answer to a SKU's update, fails only because a SKU was removed
\* after the last query that returned it.
THEOREM ErrorsOnlyOnRemoval == DetailSpec => []ErrorsExplained
  BY DetailInvariance, PTL DEF DetailInv

\* The reports of an answer are about the SKUs of the same answer or newer ones.
THEOREM ReportsFitSkus == DetailSpec => []ReportsNameShownSkus
  BY DetailInvariance, PTL DEF DetailInv

\* B2C is shown what is on sale, or was until a moment ago.
THEOREM PublicOnSale == DetailSpec => []PublicDetailOnSale
  BY DetailInvariance, PTL DEF DetailInv

\* Between its queries a detail sees nothing but steps of the products' life.
THEOREM DetailsSeeLifecycle == DetailSpec => Spec
<1>1. DetailInit => Init BY DEF DetailInit
<1>2. DetailInv /\ [DetailNext]_detail => [Next]_shop
  <2>1. CASE Read BY <2>1 DEF Read, ReadRow, ReadSkus, ReadReports, ReadReportSkus, shop
  <2>2. ASSUME DetailInv, UpdateSku  PROVE [Next]_shop
    <3>1. CASE CommitSkuUpdate
      <4>1. ProductOf[asked] \in ProductId
        BY <2>2, <3>1, LifecycleAssumption DEF DetailInv, AskedOK, CommitSkuUpdate
      <4> QED BY <3>1, <4>1 DEF CommitSkuUpdate, Next, Change
    <3>2. CASE RereadSku BY <3>2 DEF RereadSku, shop
    <3> QED BY <2>2, <3>1, <3>2 DEF UpdateSku
  <2>3. CASE Write BY <2>3 DEF Write, MoveUnits, Next
  <2>4. CASE UNCHANGED detail BY <2>4 DEF detail
  <2> QED BY <2>1, <2>2, <2>3, <2>4 DEF DetailNext
<1> QED BY <1>1, <1>2, DetailInvariance, PTL DEF DetailSpec, Spec

\* Every variable of a read keeps its type, and a read is answered when it is done.
THEOREM DetailTypes == DetailSpec => []DetailTypeOK
  BY DetailInvariance, PTL DEF DetailInv
=============================================================================
