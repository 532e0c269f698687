---------------------------- MODULE ListingProofs ----------------------------
(***************************************************************************)
(* Proofs about the two kinds of stored listings: the precomputed ones of  *)
(* r2/lib/db/queries.py (CachedResults) and the cached queries of          *)
(* r2/models/query_cache.py (QueryCache).  Both keep the best entries of a *)
(* sorted listing, so they share the lemmas on places in a total order.    *)
(***************************************************************************)
EXTENDS CachedResults, QueryCache, FiniteSetTheorems, TLAPS

-----------------------------------------------------------------------------
(* Places in a total order                                                 *)

\* R orders D totally.
Orders(R, D) ==
    /\ \A a, b \in D : <<a, b>> \in R \/ <<b, a>> \in R
    /\ \A a, b \in D : <<a, b>> \in R /\ <<b, a>> \in R => a = b
    /\ \A a, b, c \in D : <<a, b>> \in R /\ <<b, c>> \in R => <<a, c>> \in R

\* How many elements of D are before d in the order R, d itself included.
Place(R, D, d) == Cardinality({e \in D : <<e, d>> \in R})

\* Elements of a finite set that is totally ordered have the places 1, 2, ...
LEMMA PlacesAreAll ==
  ASSUME NEW D, IsFiniteSet(D), NEW R, Orders(R, D)
  PROVE  [d \in D |-> Place(R, D, d)] \in Bijection(D, 1..Cardinality(D))
  <1> DEFINE Upto(d) == {e \in D : <<e, d>> \in R}
             r == [d \in D |-> Place(R, D, d)]
  <1>1. Cardinality(D) \in Nat
    BY FS_CardinalityType
  <1>2. ASSUME NEW d \in D
        PROVE  /\ IsFiniteSet(Upto(d)) /\ d \in Upto(d) /\ Cardinality(Upto(d)) \in Nat
               /\ Place(R, D, d) = Cardinality(Upto(d))
               /\ Place(R, D, d) \in 1..Cardinality(D)
    <2>1. Upto(d) \in SUBSET D /\ d \in Upto(d)
      BY DEF Orders
    <2>2. IsFiniteSet(Upto(d)) /\ Cardinality(Upto(d)) <= Cardinality(D)
      BY <2>1, FS_Subset
    <2>3. Cardinality(Upto(d)) \in Nat /\ Cardinality(Upto(d)) # 0
      BY <2>1, <2>2, FS_CardinalityType, FS_EmptySet
    <2>4. Place(R, D, d) = Cardinality(Upto(d))
      BY DEF Place
    <2>5. QED
      BY <1>1, <2>1, <2>2, <2>3, <2>4
  <1>3. ASSUME NEW a \in D, NEW b \in D, a # b, <<a, b>> \in R
        PROVE  Place(R, D, a) # Place(R, D, b)
    <2>1. Upto(a) \in SUBSET Upto(b)
      BY <1>3 DEF Orders
    <2>2. b \in Upto(b) /\ b \notin Upto(a)
      BY <1>2, <1>3 DEF Orders
    <2>3. IsFiniteSet(Upto(b))
      BY <1>2
    <2>4. Cardinality(Upto(b)) # Cardinality(Upto(a))
      BY <2>1, <2>2, <2>3, FS_Subset
    <2>5. QED
      BY <1>2, <2>4
  <1>4. r \in [D -> 1..Cardinality(D)]
    BY <1>2
  <1>5. ASSUME NEW a \in D, NEW b \in D, r[a] = r[b]
        PROVE  a = b
    <2>1. <<a, b>> \in R \/ <<b, a>> \in R
      BY DEF Orders
    <2>2. r[a] = Place(R, D, a) /\ r[b] = Place(R, D, b)
      OBVIOUS
    <2> HIDE DEF r
    <2>3. QED
      BY <1>3, <1>5, <2>1, <2>2
  <1> HIDE DEF r
  <1>6. r \in Injection(D, 1..Cardinality(D))
    <2>1. DOMAIN r = D
      BY <1>4
    <2>2. QED
      BY <1>4, <1>5, <2>1 DEF Injection, IsInjective
  <1>7. IsFiniteSet(1..Cardinality(D)) /\ Cardinality(1..Cardinality(D)) = Cardinality(D)
    BY <1>1, FS_Interval
  <1>8. r \in Surjection(D, 1..Cardinality(D))
    BY <1>6, <1>7, FS_Injection
  <1>9. r \in Bijection(D, 1..Cardinality(D))
    BY <1>6, <1>8 DEF Bijection
  <1>10. QED
    BY <1>9 DEF r

\* The first n places are those of n elements.
LEMMA FirstPlaces ==
  ASSUME NEW D, IsFiniteSet(D), NEW R, Orders(R, D), NEW n \in Nat, n <= Cardinality(D)
  PROVE  Cardinality({d \in D : Place(R, D, d) <= n}) = n
  <1> DEFINE T == {d \in D : Place(R, D, d) <= n}
             r == [d \in D |-> Place(R, D, d)]
             f == [d \in T |-> Place(R, D, d)]
  <1>1. Cardinality(D) \in Nat
    BY FS_CardinalityType
  <1>2. r \in Bijection(D, 1..Cardinality(D))
    BY PlacesAreAll
  <1>3. \A d \in D : Place(R, D, d) \in 1..Cardinality(D)
    BY <1>2 DEF Bijection, Injection, Surjection
  <1>4. \A a, b \in D : Place(R, D, a) = Place(R, D, b) => a = b
    BY <1>2 DEF Bijection, Injection, IsInjective
  <1>5. \A i \in 1..Cardinality(D) : \E d \in D : Place(R, D, d) = i
    BY <1>2 DEF Bijection, Surjection
  <1>6. f \in [T -> 1..n]
    BY <1>1, <1>3
  <1>7. \A a, b \in T : f[a] = f[b] => a = b
    BY <1>4
  <1>8. \A i \in 1..n : \E d \in T : f[d] = i
    <2>1. SUFFICES ASSUME NEW i \in 1..n PROVE \E d \in T : f[d] = i
      OBVIOUS
    <2>2. PICK d \in D : Place(R, D, d) = i
      BY <1>1, <1>5, <2>1
    <2>3. d \in T /\ f[d] = i
      BY <2>1, <2>2
    <2>4. QED
      BY <2>3
  <1> HIDE DEF f
  <1>9. f \in Bijection(T, 1..n)
    <2>1. DOMAIN f = T
      BY <1>6
    <2>2. f \in Injection(T, 1..n)
      BY <1>6, <1>7, <2>1 DEF Injection, IsInjective
    <2>3. f \in Surjection(T, 1..n)
      BY <1>6, <1>8 DEF Surjection
    <2>4. QED
      BY <2>2, <2>3 DEF Bijection
  <1>10. IsFiniteSet(T)
    <2>1. T \in SUBSET D
      OBVIOUS
    <2>2. QED
      BY <2>1, FS_Subset
  <1>11. Cardinality(1..n) = Cardinality(T)
    BY <1>9, <1>10, FS_Bijection DEF ExistsBijection
  <1>12. QED
    BY <1>11, FS_Interval

\* A finite set that is totally ordered has a last element.
LEMMA LastExists ==
  ASSUME NEW D, IsFiniteSet(D), D # {}, NEW R, Orders(R, D)
  PROVE  \E d \in D : \A e \in D : <<e, d>> \in R
  <1>1. Cardinality(D) \in Nat /\ Cardinality(D) # 0
    BY FS_CardinalityType, FS_EmptySet
  <1>2. [d \in D |-> Place(R, D, d)] \in Bijection(D, 1..Cardinality(D))
    BY PlacesAreAll
  <1>3. \A i \in 1..Cardinality(D) : \E d \in D : Place(R, D, d) = i
    BY <1>2 DEF Bijection, Surjection
  <1>4. PICK d \in D : Place(R, D, d) = Cardinality(D)
    BY <1>1, <1>3
  <1> DEFINE Upto == {e \in D : <<e, d>> \in R}
  <1>5. Upto \in SUBSET D /\ Cardinality(Upto) = Cardinality(D)
    BY <1>4 DEF Place
  <1>6. Upto = D
    BY <1>5, FS_Subset
  <1>7. QED
    BY <1>6

\* Min and Max of timestamps that have a bound are one of them, below and above
\* all.
LEMMA MinMaxExist ==
  ASSUME NEW T \in SUBSET Nat, T # {}, NEW n \in Nat, \A y \in T : y <= n
  PROVE  /\ Max(T) \in T /\ \A y \in T : y <= Max(T)
         /\ Min(T) \in T /\ \A y \in T : Min(T) <= y
  <1>1. IsFiniteSet(T)
    BY FS_BoundedSetOfNaturals
  <1> DEFINE Up == {ab \in Nat \X Nat : ab[1] <= ab[2]}
             Down == {ab \in Nat \X Nat : ab[1] >= ab[2]}
  <1>2. \A a, b \in T : /\ a \in Nat /\ b \in Nat
                        /\ <<a, b>> \in Up <=> a <= b
                        /\ <<a, b>> \in Down <=> a >= b
    OBVIOUS
  <1> HIDE DEF Up, Down
  <1>3. Orders(Up, T) /\ Orders(Down, T)
    BY <1>2 DEF Orders
  <1>4. \E d \in T : \A e \in T : d >= e
    BY <1>1, <1>2, <1>3, LastExists
  <1>5. \E d \in T : \A e \in T : d <= e
    BY <1>1, <1>2, <1>3, LastExists
  <1>6. Max(T) \in T /\ \A y \in T : Max(T) >= y
    BY <1>4 DEF Max
  <1>7. Min(T) \in T /\ \A y \in T : Min(T) <= y
    BY <1>5 DEF Min
  <1>8. QED
    BY <1>2, <1>6, <1>7

-----------------------------------------------------------------------------
(* Precomputed listings: sorting and truncating                            *)

\* Those of a listing that are as good as d.
Above(data, d) == {e \in data : AtLeast(e, d)}

\* The order of _sort_tuples.
BestFirst == {ab \in Tuples \X Tuples : AtLeast(ab[1], ab[2])}

\* AtLeast is a total order of the tuples: no two of them are the same thing
\* with the same value.
LEMMA TuplesOrdered ==
  /\ \A a, b \in Tuples : AtLeast(a, b) \/ AtLeast(b, a)
  /\ \A a, b \in Tuples : AtLeast(a, b) /\ AtLeast(b, a) => a = b
  /\ \A a, b, c \in Tuples : AtLeast(a, b) /\ AtLeast(b, c) => AtLeast(a, c)
  <1>1. \A a \in Tuples : a.x \in Nat /\ a.v \in Nat
    BY CachedResultsAssumption DEF Tuples
  <1>2. \A a, b \in Tuples : a.x = b.x /\ a.v = b.v => a = b
    BY DEF Tuples
  <1>3. \A a, b \in Tuples : AtLeast(a, b) \/ AtLeast(b, a)
    BY <1>1 DEF AtLeast
  <1>4. \A a, b \in Tuples : AtLeast(a, b) /\ AtLeast(b, a) => a = b
    BY <1>1, <1>2 DEF AtLeast
  <1>5. \A a, b, c \in Tuples : AtLeast(a, b) /\ AtLeast(b, c) => AtLeast(a, c)
    BY <1>1 DEF AtLeast
  <1>6. QED
    BY <1>3, <1>4, <1>5

\* Rank is the place in that order, the best first.
LEMMA RankIsPlace ==
  ASSUME NEW D \in SUBSET Tuples
  PROVE  /\ Orders(BestFirst, D)
         /\ \A d \in D : Rank(D, d) = Place(BestFirst, D, d)
  <1>1. \A a, b \in D : <<a, b>> \in BestFirst <=> AtLeast(a, b)
    BY DEF BestFirst
  <1>2. Orders(BestFirst, D)
    <2>1. \A a, b \in D : <<a, b>> \in BestFirst \/ <<b, a>> \in BestFirst
      BY <1>1, TuplesOrdered
    <2>2. \A a, b \in D : <<a, b>> \in BestFirst /\ <<b, a>> \in BestFirst => a = b
      BY <1>1, TuplesOrdered
    <2>3. \A a, b, c \in D : <<a, b>> \in BestFirst /\ <<b, c>> \in BestFirst =>
                               <<a, c>> \in BestFirst
      BY <1>1, TuplesOrdered
    <2>4. QED
      BY <2>1, <2>2, <2>3 DEF Orders
  <1>3. ASSUME NEW d \in D
        PROVE  Rank(D, d) = Place(BestFirst, D, d)
    <2>1. {e \in D : AtLeast(e, d)} = {e \in D : <<e, d>> \in BestFirst}
      BY <1>1
    <2>2. QED
      BY <2>1 DEF Rank, Place
  <1>4. QED
    BY <1>2, <1>3

\* Ranks are between 1 and the length of the listing.
LEMMA RankBounds ==
  ASSUME NEW D \in SUBSET Tuples, IsFiniteSet(D), NEW d \in Tuples
  PROVE  /\ IsFiniteSet(Above(D, d)) /\ Rank(D, d) = Cardinality(Above(D, d))
         /\ Rank(D, d) \in Nat /\ Cardinality(D) \in Nat /\ Rank(D, d) <= Cardinality(D)
  <1>1. Above(D, d) \in SUBSET D
    BY DEF Above
  <1>2. IsFiniteSet(Above(D, d)) /\ Cardinality(Above(D, d)) <= Cardinality(D)
    BY <1>1, FS_Subset
  <1>3. Rank(D, d) = Cardinality(Above(D, d))
    BY DEF Rank, Above
  <1>4. QED
    BY <1>2, <1>3, FS_CardinalityType

\* Truncating a listing that is not too long changes nothing.
LEMMA TopOfShort ==
  ASSUME NEW D \in SUBSET Tuples, IsFiniteSet(D), NEW n \in Nat, Cardinality(D) <= n
  PROVE  TopOf(D, n) = D
  <1>1. ASSUME NEW d \in D
        PROVE  Rank(D, d) <= n
    BY RankBounds
  <1>2. QED
    BY <1>1 DEF TopOf

\* Truncating one that is too long leaves n tuples.
LEMMA TopOfLong ==
  ASSUME NEW D \in SUBSET Tuples, IsFiniteSet(D), NEW n \in Nat, n <= Cardinality(D)
  PROVE  Cardinality(TopOf(D, n)) = n
  <1>1. TopOf(D, n) = {d \in D : Place(BestFirst, D, d) <= n}
    BY RankIsPlace DEF TopOf
  <1>2. QED
    BY <1>1, RankIsPlace, FirstPlaces

\* What is cut off is below everything that stays.
LEMMA TopOfIsTop ==
  ASSUME NEW D \in SUBSET Tuples, IsFiniteSet(D), NEW n \in Nat,
         NEW f \in D, f \notin TopOf(D, n), NEW e \in TopOf(D, n)
  PROVE  AtLeast(e, f)
  <1>1. e \in D /\ e \in Tuples /\ f \in Tuples /\ Rank(D, e) <= n /\ ~(Rank(D, f) <= n)
    BY DEF TopOf
  <1>2. SUFFICES ASSUME AtLeast(f, e) PROVE FALSE
    BY <1>1, TuplesOrdered
  <1>3. Above(D, f) \in SUBSET Above(D, e)
    BY <1>1, <1>2, TuplesOrdered DEF Above
  <1>4. Rank(D, f) <= Rank(D, e) /\ Rank(D, f) \in Nat /\ Rank(D, e) \in Nat
    BY <1>1, <1>3, RankBounds, FS_Subset
  <1>5. QED
    BY <1>1, <1>4

\* A tuple keeps m better ones through a truncation to n >= m.
LEMMA TopOfKeepsAbove ==
  ASSUME NEW D \in SUBSET Tuples, IsFiniteSet(D), NEW n \in Nat, NEW m \in Nat, m <= n,
         NEW d \in Tuples, Cardinality(Above(D, d)) >= m
  PROVE  Cardinality(Above(TopOf(D, n), d)) >= m
  <1>1. TopOf(D, n) \in SUBSET D /\ TopOf(D, n) \in SUBSET Tuples
    BY DEF TopOf
  <1>2. IsFiniteSet(TopOf(D, n)) /\ Cardinality(D) \in Nat
    BY <1>1, FS_Subset, FS_CardinalityType
  <1>3. CASE Above(D, d) \subseteq TopOf(D, n)
    <2>1. Above(TopOf(D, n), d) = Above(D, d)
      BY <1>1, <1>3 DEF Above
    <2>2. QED
      BY <2>1
  <1>4. CASE ~(Above(D, d) \subseteq TopOf(D, n))
    <2>1. PICK f \in D : AtLeast(f, d) /\ f \notin TopOf(D, n)
      BY <1>4 DEF Above
    <2>2. \A e \in TopOf(D, n) : AtLeast(e, f) /\ e \in Tuples
      BY <1>1, <2>1, TopOfIsTop
    <2>3. \A e \in TopOf(D, n) : AtLeast(e, d)
      BY <2>1, <2>2, TuplesOrdered
    <2>4. Above(TopOf(D, n), d) = TopOf(D, n)
      BY <2>3 DEF Above
    <2>5. n < Rank(D, f) /\ Rank(D, f) <= Cardinality(D) /\ Rank(D, f) \in Nat
      BY <2>1, RankBounds DEF TopOf
    <2>6. Cardinality(TopOf(D, n)) = n
      BY <1>2, <2>5, TopOfLong
    <2>7. QED
      BY <2>4, <2>6
  <1>5. QED
    BY <1>3, <1>4

-----------------------------------------------------------------------------
(* _insert_tuples                                                          *)

\* A listing has one tuple for each thing.
OneEach(data) == \A d, e \in data : d.x = e.x => d = e

\* d is in the listing, or there are limit - 1 tuples that are better.
Shown(data, d) == d \in data \/ Cardinality(Above(data, d)) >= limit - 1

\* A listing that is not empty has a smallest tuple.
LEMMA SmallestExists ==
  ASSUME NEW D \in SUBSET Tuples, IsFiniteSet(D), D # {}
  PROVE  Smallest(D) \in D /\ \A e \in D : AtLeast(e, Smallest(D))
  <1>1. \E d \in D : \A e \in D : <<e, d>> \in BestFirst
    BY RankIsPlace, LastExists
  <1>2. \E d \in D : \A e \in D : AtLeast(e, d)
    BY <1>1 DEF BestFirst
  <1>3. QED
    BY <1>2 DEF Smallest

\* There are no more names than tuples.
LEMMA NamesCount ==
  ASSUME NEW D \in SUBSET Tuples, IsFiniteSet(D)
  PROVE  IsFiniteSet(Names(D)) /\ Cardinality(Names(D)) <= Cardinality(D)
  <1> DEFINE f == [d \in D |-> d.x]
  <1>1. f \in Surjection(D, Names(D))
    BY DEF Surjection, Names
  <1>2. QED
    BY <1>1, FS_Surjection

\* A listing with one tuple for each thing is no longer than its names.
LEMMA OneEachCount ==
  ASSUME NEW D \in SUBSET Tuples, OneEach(D), NEW S, IsFiniteSet(S), Names(D) \subseteq S
  PROVE  IsFiniteSet(D) /\ Cardinality(D) <= Cardinality(S)
  <1> DEFINE f == [d \in D |-> d.x]
  <1>1. f \in [D -> S]
    BY DEF Names
  <1>2. \A a, b \in D : f[a] = f[b] => a = b
    BY DEF OneEach
  <1>3. DOMAIN f = D
    OBVIOUS
  <1> HIDE DEF f
  <1>4. f \in Injection(D, S)
    BY <1>1, <1>2, <1>3 DEF Injection, IsInjective
  <1>5. QED
    BY <1>4, FS_Injection

\* What an insertion leaves is what it was given, with the new tuple in the
\* place of an old one of the same thing, or less.
LEMMA InsertedWithin ==
  ASSUME NEW D \in SUBSET Tuples, IsFiniteSet(D), OneEach(D), NEW new \in Tuples
  PROVE  /\ Inserted(D, new) \subseteq Without(D, new.x) \cup {new}
         /\ Inserted(D, new) \in SUBSET Tuples /\ IsFiniteSet(Inserted(D, new))
         /\ OneEach(Inserted(D, new))
  <1> DEFINE W == Without(D, new.x) \cup {new}
  <1>1. W \in SUBSET Tuples /\ IsFiniteSet(W)
    <2>1. Without(D, new.x) \in SUBSET D
      BY DEF Without
    <2>2. IsFiniteSet(Without(D, new.x))
      BY <2>1, FS_Subset
    <2>3. QED
      BY <2>1, <2>2, FS_AddElement
  <1>2. Inserted(D, new) \in SUBSET W
    <2>1. CASE Refused(D, new)
      BY <2>1 DEF Inserted, Refused, Without, Names
    <2>2. CASE ~Refused(D, new)
      BY <2>2 DEF Inserted, TopOf
    <2>3. QED
      BY <2>1, <2>2
  <1>3. OneEach(W)
    BY DEF OneEach, Without
  <1>4. OneEach(Inserted(D, new))
    BY <1>2, <1>3 DEF OneEach
  <1>5. IsFiniteSet(Inserted(D, new))
    BY <1>1, <1>2, FS_Subset
  <1>6. QED
    BY <1>1, <1>2, <1>4, <1>5

\* While the names fit below the limit, an insertion leaves nothing out.
LEMMA InsertedShort ==
  ASSUME NEW D \in SUBSET Tuples, OneEach(D), NEW new \in Tuples, limit \in Nat,
         NEW S, IsFiniteSet(S), Names(D) \cup {new.x} \subseteq S, Cardinality(S) < limit
  PROVE  Inserted(D, new) = Without(D, new.x) \cup {new}
  <1> DEFINE W == Without(D, new.x) \cup {new}
  <1>1. Cardinality(S) \in Nat /\ Names(D) \cup {new.x} \in SUBSET S
    BY FS_CardinalityType
  <1>2. ~Refused(D, new)
    <2>1. /\ Cardinality(Names(D) \cup {new.x}) \in Nat
          /\ Cardinality(Names(D) \cup {new.x}) <= Cardinality(S)
      BY <1>1, FS_Subset, FS_CardinalityType
    <2>2. QED
      BY <1>1, <2>1 DEF Refused
  <1>3. W \in SUBSET Tuples /\ OneEach(W) /\ Names(W) \subseteq S
    BY DEF Without, OneEach, Names
  <1>4. IsFiniteSet(W) /\ Cardinality(W) <= Cardinality(S)
    BY <1>3, OneEachCount
  <1>5. Cardinality(W) <= limit
    BY <1>1, <1>4, FS_CardinalityType
  <1>6. TopOf(W, limit) = W
    BY <1>3, <1>4, <1>5, TopOfShort
  <1>7. QED
    BY <1>2, <1>6 DEF Inserted

\* While values only grow, an insertion shows the new tuple, and does not hide
\* another one, unless there are limit - 1 better ones.
LEMMA InsertedShows ==
  ASSUME NEW D \in SUBSET Tuples, IsFiniteSet(D), OneEach(D), NEW new \in Tuples,
         limit \in Nat \ {0, 1}, \A o \in D : o.x = new.x => AtLeast(new, o)
  PROVE  /\ Shown(Inserted(D, new), new)
         /\ \A d \in Tuples : d.x # new.x /\ Shown(D, d) => Shown(Inserted(D, new), d)
  <1> DEFINE W == Without(D, new.x) \cup {new}
  <1>0. /\ limit - 1 \in Nat /\ limit - 1 <= limit /\ limit \in Nat
        /\ Cardinality(D) \in Nat
    BY FS_CardinalityType
  <1>1. CASE Refused(D, new)
    <2>1. Inserted(D, new) = D
      BY <1>1 DEF Inserted
    <2>2. Smallest(D) \in D /\ \A e \in D : AtLeast(e, Smallest(D))
      BY <1>1, SmallestExists DEF Refused
    <2>3. AtLeast(Smallest(D), new)
      BY <1>1, <2>2, TuplesOrdered DEF Refused
    <2>4. \A e \in D : AtLeast(e, new)
      BY <2>2, <2>3, TuplesOrdered
    <2>5. Above(D, new) = D
      BY <2>4 DEF Above
    <2>6. /\ Cardinality(Names(D) \cup {new.x}) = Cardinality(Names(D)) + 1
          /\ Cardinality(Names(D)) <= Cardinality(D) /\ Cardinality(Names(D)) \in Nat
      BY <1>1, NamesCount, FS_AddElement, FS_CardinalityType DEF Refused
    <2>7. Cardinality(D) >= limit - 1
      BY <1>0, <1>1, <2>6 DEF Refused
    <2>8. QED
      BY <2>1, <2>5, <2>7 DEF Shown
  <1>2. CASE ~Refused(D, new)
    <2>1. Inserted(D, new) = TopOf(W, limit)
      BY <1>2 DEF Inserted
    <2>2. W \in SUBSET Tuples /\ IsFiniteSet(W) /\ IsFiniteSet(Without(D, new.x))
      <3>1. Without(D, new.x) \in SUBSET D
        BY DEF Without
      <3>2. IsFiniteSet(Without(D, new.x))
        BY <3>1, FS_Subset
      <3>3. QED
        BY <3>1, <3>2, FS_AddElement
    <2>3. ASSUME NEW d \in W
          PROVE  Shown(TopOf(W, limit), d)
      <3>1. CASE Rank(W, d) <= limit
        BY <3>1 DEF Shown, TopOf
      <3>2. CASE ~(Rank(W, d) <= limit)
        <4>1. d \in Tuples /\ Rank(W, d) = Cardinality(Above(W, d)) /\ Rank(W, d) \in Nat
          BY <2>2, RankBounds
        <4>2. Cardinality(Above(W, d)) >= limit - 1
          BY <1>0, <3>2, <4>1
        <4>3. Cardinality(Above(TopOf(W, limit), d)) >= limit - 1
          BY <1>0, <2>2, <4>1, <4>2, TopOfKeepsAbove
        <4>4. QED
          BY <4>3 DEF Shown
      <3>3. QED
        BY <3>1, <3>2
    <2>4. ASSUME NEW d \in Tuples, d.x # new.x, Shown(D, d)
          PROVE  Shown(TopOf(W, limit), d)
      <3>1. CASE d \in D
        <4>1. d \in W
          BY <2>4, <3>1 DEF Without
        <4>2. QED
          BY <2>3, <4>1
      <3>2. CASE d \notin D
        <4>1. Cardinality(Above(D, d)) >= limit - 1
          BY <2>4, <3>2 DEF Shown
        <4>2. Cardinality(Above(W, d)) >= Cardinality(Above(D, d))
          <5>1. IsFiniteSet(Above(W, d)) /\ IsFiniteSet(Above(D, d))
            BY <2>2, RankBounds
          <5>2. CASE \A o \in Above(D, d) : o.x # new.x
            <6>1. Above(D, d) \in SUBSET Above(W, d)
              BY <5>2 DEF Above, Without
            <6>2. QED
              BY <5>1, <6>1, FS_Subset
          <5>3. ASSUME NEW o \in Above(D, d), o.x = new.x
                PROVE  Cardinality(Above(W, d)) >= Cardinality(Above(D, d))
            <6>1. o \in D /\ AtLeast(o, d) /\ o \in Tuples
              BY DEF Above
            <6>2. AtLeast(new, o)
              BY <5>3, <6>1
            <6>3. AtLeast(new, d)
              BY <6>1, <6>2, TuplesOrdered
            <6>4. \A e \in D : e # o => e.x # new.x
              BY <5>3, <6>1 DEF OneEach
            <6>5. (Above(D, d) \ {o}) \cup {new} \in SUBSET Above(W, d)
              BY <6>3, <6>4 DEF Above, Without
            <6>6. new \notin Above(D, d) \ {o}
              BY <6>4 DEF Above
            <6>7. /\ IsFiniteSet(Above(D, d) \ {o})
                  /\ Cardinality(Above(D, d) \ {o}) = Cardinality(Above(D, d)) - 1
              BY <5>1, FS_RemoveElement
            <6>8. /\ IsFiniteSet((Above(D, d) \ {o}) \cup {new})
                  /\ Cardinality((Above(D, d) \ {o}) \cup {new})
                       = Cardinality(Above(D, d) \ {o}) + 1
              BY <6>6, <6>7, FS_AddElement
            <6>9. Cardinality((Above(D, d) \ {o}) \cup {new}) <= Cardinality(Above(W, d))
              BY <5>1, <6>5, FS_Subset
            <6>10. Cardinality(Above(D, d)) \in Nat /\ Cardinality(Above(W, d)) \in Nat
              BY <5>1, FS_CardinalityType
            <6>11. QED
              BY <6>7, <6>8, <6>9, <6>10
          <5>4. QED
            BY <5>2, <5>3
        <4>3. Cardinality(Above(D, d)) \in Nat /\ Cardinality(Above(W, d)) \in Nat
          BY <2>2, RankBounds, FS_CardinalityType
        <4>4. Cardinality(Above(W, d)) >= limit - 1
          BY <1>0, <4>1, <4>2, <4>3
        <4>5. Cardinality(Above(TopOf(W, limit), d)) >= limit - 1
          BY <1>0, <2>2, <4>4, TopOfKeepsAbove
        <4>6. QED
          BY <4>5 DEF Shown
      <3>3. QED
        BY <3>1, <3>2
    <2>5. Shown(TopOf(W, limit), new)
      BY <2>3
    <2>6. QED
      BY <2>1, <2>4, <2>5
  <1>3. QED
    BY <1>1, <1>2

-----------------------------------------------------------------------------
(* The inductive invariant                                                 *)

\* Calls that store a listing that was queried for.
Recomputations == {"replace", "update", "pessimistic"}

\* Where a process can be with each kind of call.
CallsPlaced ==
    \A p \in CRProcs :
        /\ crAt[p] \in {"idle", "backend", "fill"} => call[p] = NoItem
        /\ crAt[p] \in {"lock", "write", "cache"} =>
              call[p].kind \in {"insert", "delete", "replace"}
        /\ crAt[p] = "read" => call[p].kind \in {"insert", "delete"}
        /\ crAt[p] \in {"set", "setcache"} => call[p].kind \in {"update", "pessimistic"}

\* The block of mutate is one process's.
BlockIsAlone ==
    \A p \in CRProcs : crAt[p] \in {"read", "write", "cache"} => mutateLock = p

\* A call is about one thing, nobody else's, and has happened to it.
CallsApart ==
    \A p \in CRProcs :
        /\ call[p].kind = "insert" =>
              [x |-> call[p].x, v |-> call[p].v] \in current
        /\ call[p].kind = "delete" => call[p].x \notin Names(current) /\ dropped
        /\ call[p].kind \in {"insert", "delete"} =>
              \A r \in CRProcs : r # p /\ call[r].kind \in {"insert", "delete"} =>
                  call[r].x # call[p].x

\* That holds until two processes are about one thing; what is inserted is a
\* tuple in any case.
CallsHappened ==
    /\ \A p \in CRProcs : call[p].kind = "insert" => [x |-> call[p].x, v |-> call[p].v] \in Tuples
    /\ ~poisoned => CallsApart

\* There is one value of each thing.
ThingsFormed ==
    /\ IsFiniteSet(ever) /\ IsFiniteSet(current)
    /\ OneEach(current) /\ Names(current) \subseteq ever

\* The part about calls.
CRTyped == CRTypeOK /\ CallsPlaced /\ BlockIsAlone /\ CallsHappened /\ ThingsFormed

\* What a process has read, and what mutate makes of it, are tuples.
LEMMA MutationTyped ==
  ASSUME CRTyped, NEW p \in CRProcs
  PROVE  /\ Mutation(p) \in SUBSET Tuples
         /\ ListingOf(value[p]) \in SUBSET Tuples
         /\ call[p].kind = "insert" => [x |-> call[p].x, v |-> call[p].v] \in Tuples
  <1>1. ListingOf(value[p]) \in SUBSET Tuples
    BY DEF CRTyped, CRTypeOK, ListingOf
  <1>2. call[p].kind = "insert" => [x |-> call[p].x, v |-> call[p].v] \in Tuples
    BY DEF CRTyped, CRTypeOK, CallsHappened
  <1>3. CASE call[p].kind = "insert"
    <2>1. Mutation(p) = Inserted(ListingOf(value[p]), [x |-> call[p].x, v |-> call[p].v])
      BY <1>3 DEF Mutation
    <2>2. QED
      BY <1>1, <1>2, <1>3, <2>1 DEF Inserted, TopOf, Without
  <1>4. CASE call[p].kind # "insert"
    <2>1. Mutation(p) \in {Without(ListingOf(value[p]), call[p].x), ListingOf(value[p])}
      BY <1>4 DEF Mutation
    <2>2. QED
      BY <1>1, <1>4, <2>1 DEF Without
  <1>5. QED
    BY <1>1, <1>2, <1>3, <1>4

\* A step that calls for no change leaves what calls have changed.
LEMMA CallsStay ==
  ASSUME CRTyped, UNCHANGED <<current, dropped, ever>>, poisoned => poisoned',
         \A r \in CRProcs : call'[r] = call[r] \/ call'[r].kind \notin {"insert", "delete"}
  PROVE  CallsHappened' /\ ThingsFormed'
  <1>1. ThingsFormed'
    BY DEF CRTyped, ThingsFormed
  <1>2. ASSUME ~poisoned' PROVE CallsApart'
    <2>1. CallsApart
      BY <1>2 DEF CRTyped, CallsHappened
    <2>2. QED
      BY <2>1 DEF CallsApart
  <1>4. CallsHappened'
    BY <1>2 DEF CRTyped, CallsHappened
  <1>5. QED
    BY <1>1, <1>4

\* Every step keeps the types and the calls in order.
LEMMA CRTypedStep ==
  ASSUME CRTyped, [CRNext]_crVars
  PROVE  CRTyped'
  <1> USE DEF CRTyped, CRTypeOK, CallsPlaced, BlockIsAlone
  <1> USE CachedResultsAssumption
  <1>1. ASSUME NEW p \in CRProcs, NEW x \in CRThings, NEW v \in CRValues, CallInsert(p, x, v),
               limit' = limit
        PROVE  CRTyped'
    <2> DEFINE new == [x |-> x, v |-> v]
    <2>1. crAt[p] = "idle" /\ call[p] = NoItem
      BY <1>1 DEF CallInsert, Called
    <2>2. current' = Without(current, x) \cup {new} /\ new \in Tuples /\ new.x = x
      BY <1>1 DEF CallInsert, Tuples
    <2>3. CRTypeOK'
      <3>1. current' \subseteq Tuples
        BY <2>2 DEF Without
      <3>2. call' \in [CRProcs -> [kind : {"none", "insert", "delete", "replace", "update",
                                     "pessimistic"}, x : Nat, v : Nat]]
        BY <1>1 DEF CallInsert, Called
      <3>3. dropped' \in BOOLEAN /\ poisoned' \in BOOLEAN
        BY <1>1 DEF CallInsert
      <3>4. mutations' \in 0..MaxMutations
        BY <1>1 DEF CallInsert, Called
      <3>8. ever' \subseteq CRThings
        BY <1>1 DEF CallInsert
      <3>5. crAt' \in [CRProcs -> {"idle", "lock", "read", "write", "cache", "backend", "fill",
                             "set", "setcache"}]
        BY <1>1 DEF CallInsert, CRGoto
      <3>6. \A r \in CRProcs : crAt'[r] = "idle" => call'[r] = NoItem
        BY <1>1 DEF CallInsert, CRGoto, Called
      <3>7. QED
        BY <1>1, <3>1, <3>2, <3>3, <3>4, <3>5, <3>6, <3>8 DEF CallInsert, crCaches
    <2>4. CallsPlaced' /\ BlockIsAlone'
      BY <1>1 DEF CallInsert, CRGoto, Called
    <2>8. \A r \in CRProcs : call'[r].kind = "insert" =>
                                [x |-> call'[r].x, v |-> call'[r].v] \in Tuples
      BY <1>1, <2>2 DEF CallInsert, Called, CallsHappened
    <2>9. ASSUME ~poisoned' PROVE CallsApart'
      <3>0. CallsApart
        BY <1>1, <2>9 DEF CallInsert, CallsHappened
      <3>1. call' = [call EXCEPT ![p] = [kind |-> "insert", x |-> x, v |-> v]]
        BY <1>1 DEF CallInsert, Called
      <3>2. \A r \in CRProcs : r # p /\ call[r].kind # "none" => call[r].x # x
        BY <1>1, <2>9 DEF CallInsert, NoneAbout
      <3>3. \A y : y # x => (y \in Names(current') <=> y \in Names(current))
        BY <2>2 DEF Names, Without
      <3>4. \A d : d.x # x => (d \in current' <=> d \in current)
        BY <2>2 DEF Without
      <3>5. dropped => dropped'
        BY <1>1 DEF CallInsert
      <3>6. ASSUME NEW r \in CRProcs, r # p
            PROVE  /\ call'[r] = call[r]
                   /\ call[r].kind = "insert" => [x |-> call[r].x, v |-> call[r].v] \in current'
                   /\ call[r].kind = "delete" => call[r].x \notin Names(current') /\ dropped'
        BY <3>0, <3>1, <3>2, <3>3, <3>4, <3>5, <3>6 DEF CallsApart
      <3>7. /\ call'[p].kind = "insert" /\ call'[p].x = x /\ call'[p].v = v
            /\ [x |-> call'[p].x, v |-> call'[p].v] \in current'
        BY <2>2, <3>1
      <3>8. \A r, s \in CRProcs :
               (r # s /\ call'[r].kind \in {"insert", "delete"}
                      /\ call'[s].kind \in {"insert", "delete"}) => call'[s].x # call'[r].x
        BY <3>0, <3>1, <3>2, ZenonT(40) DEF CallsApart
      <3>9. QED
        BY <3>6, <3>7, <3>8 DEF CallsApart
    <2>5. CallsHappened'
      BY <2>8, <2>9 DEF CallsHappened
    <2>6. ThingsFormed'
      <3>1. IsFiniteSet(ever') /\ ever' = ever \cup {x}
        BY <1>1, FS_AddElement DEF CallInsert, ThingsFormed
      <3>2. Without(current, x) \in SUBSET current
        BY DEF Without
      <3>3. IsFiniteSet(current')
        BY <2>2, <3>2, FS_Subset, FS_AddElement DEF ThingsFormed
      <3>4. OneEach(current')
        BY <2>2 DEF OneEach, Without, ThingsFormed
      <3>5. Names(current') \subseteq ever'
        BY <2>2, <3>1 DEF Names, Without, ThingsFormed
      <3>6. QED
        BY <3>1, <3>3, <3>4, <3>5 DEF ThingsFormed
    <2>7. QED
      BY <2>3, <2>4, <2>5, <2>6
  <1>2. ASSUME NEW p \in CRProcs, NEW x \in CRThings, CallDelete(p, x), limit' = limit
        PROVE  CRTyped'
    <2>1. crAt[p] = "idle" /\ call[p] = NoItem
      BY <1>2 DEF CallDelete, Called
    <2>2. current' = Without(current, x) /\ Without(current, x) \in SUBSET current
      BY <1>2 DEF CallDelete, Without
    <2>3. CRTypeOK'
      <3>2. call' \in [CRProcs -> [kind : {"none", "insert", "delete", "replace", "update",
                                     "pessimistic"}, x : Nat, v : Nat]]
        BY <1>2 DEF CallDelete, Called
      <3>3. dropped' \in BOOLEAN /\ poisoned' \in BOOLEAN
        BY <1>2 DEF CallDelete
      <3>4. mutations' \in 0..MaxMutations
        BY <1>2 DEF CallDelete, Called
      <3>5. crAt' \in [CRProcs -> {"idle", "lock", "read", "write", "cache", "backend", "fill",
                             "set", "setcache"}]
        BY <1>2 DEF CallDelete, CRGoto
      <3>6. \A r \in CRProcs : crAt'[r] = "idle" => call'[r] = NoItem
        BY <1>2 DEF CallDelete, CRGoto, Called
      <3>7. QED
        BY <1>2, <2>2, <3>2, <3>3, <3>4, <3>5, <3>6 DEF CallDelete, crCaches
    <2>4. CallsPlaced' /\ BlockIsAlone'
      BY <1>2 DEF CallDelete, CRGoto, Called
    <2>8. \A r \in CRProcs : call'[r].kind = "insert" =>
                                [x |-> call'[r].x, v |-> call'[r].v] \in Tuples
      BY <1>2 DEF CallDelete, Called, CallsHappened
    <2>9. ASSUME ~poisoned' PROVE CallsApart'
      <3>0. CallsApart
        BY <1>2, <2>9 DEF CallDelete, CallsHappened
      <3>1. call' = [call EXCEPT ![p] = [kind |-> "delete", x |-> x, v |-> 0]]
        BY <1>2 DEF CallDelete, Called
      <3>2. \A r \in CRProcs : r # p /\ call[r].kind # "none" => call[r].x # x
        BY <1>2, <2>9 DEF CallDelete, NoneAbout
      <3>3. \A y : y \in Names(current') => y \in Names(current) /\ y # x
        BY <2>2 DEF Names, Without
      <3>4. \A d : d.x # x => (d \in current' <=> d \in current)
        BY <2>2 DEF Without
      <3>5. dropped'
        BY <1>2 DEF CallDelete
      <3>6. ASSUME NEW r \in CRProcs, r # p
            PROVE  /\ call'[r] = call[r]
                   /\ call[r].kind = "insert" => [x |-> call[r].x, v |-> call[r].v] \in current'
                   /\ call[r].kind = "delete" => call[r].x \notin Names(current') /\ dropped'
        BY <3>0, <3>1, <3>2, <3>3, <3>4, <3>5, <3>6 DEF CallsApart
      <3>7. QED
        BY <2>2, <3>0, <3>1, <3>2, <3>3, <3>5, <3>6 DEF CallsApart
    <2>5. CallsHappened'
      BY <2>8, <2>9 DEF CallsHappened
    <2>6. ThingsFormed'
      <3>1. ever' = ever
        BY <1>2 DEF CallDelete
      <3>3. IsFiniteSet(current')
        BY <2>2, FS_Subset DEF ThingsFormed
      <3>4. OneEach(current')
        BY <2>2 DEF OneEach, ThingsFormed
      <3>5. Names(current') \subseteq ever'
        BY <2>2, <3>1 DEF Names, ThingsFormed
      <3>6. QED
        BY <3>1, <3>3, <3>4, <3>5 DEF ThingsFormed
    <2>7. QED
      BY <2>3, <2>4, <2>5, <2>6
  <1>3. ASSUME NEW p \in CRProcs, NEW kind \in Recomputations, Recompute(p, kind), limit' = limit
        PROVE  CRTyped'
    <2>1. crAt[p] = "idle" /\ call[p] = NoItem
      BY <1>3 DEF Recompute, Called
    <2>2. call' = [call EXCEPT ![p] = [kind |-> kind, x |-> 0, v |-> 0]]
      BY <1>3 DEF Recompute, Called
    <2>3. CRTypeOK'
      <3>1. TopOf(current, limit) \in SUBSET Tuples
        BY DEF TopOf
      <3>2. value' \in [CRProcs -> (SUBSET Tuples) \cup {Missing}]
        BY <1>3, <3>1 DEF Recompute
      <3>3. call' \in [CRProcs -> [kind : {"none", "insert", "delete", "replace", "update",
                                     "pessimistic"}, x : Nat, v : Nat]]
        BY <2>2 DEF Recomputations
      <3>4. poisoned' \in BOOLEAN
        BY <1>3 DEF Recompute
      <3>5. mutations' \in 0..MaxMutations
        BY <1>3 DEF Recompute, Called
      <3>6. crAt' \in [CRProcs -> {"idle", "lock", "read", "write", "cache", "backend", "fill",
                             "set", "setcache"}]
        BY <1>3 DEF Recompute, CRGoto
      <3>7. \A r \in CRProcs : crAt'[r] = "idle" => call'[r] = NoItem
        BY <1>3 DEF Recompute, CRGoto, Called
      <3>8. QED
        BY <1>3, <3>2, <3>3, <3>4, <3>5, <3>6, <3>7 DEF Recompute, crCaches
    <2>4. CallsPlaced' /\ BlockIsAlone'
      BY <1>3 DEF Recompute, CRGoto, Called, Recomputations
    <2>5. CallsHappened' /\ ThingsFormed'
      BY <1>3, <2>2, CallsStay DEF Recompute, Recomputations
    <2>6. QED
      BY <2>3, <2>4, <2>5
  <1>4. ASSUME NEW p \in CRProcs, CRStep(p) \/ FetchListing(p) \/ CRCrash(p), limit' = limit
        PROVE  CRTyped'
    <2>a. /\ UNCHANGED <<current, dropped, ever, mutations>> /\ poisoned' \in BOOLEAN
          /\ poisoned => poisoned'
      BY <1>4 DEF CRStep, TakeMutateLock, MutateRead, MutateWrite, MutateCache, BackendSet,
                  SetOrDelete, BackendGet, Fill, FetchListing, CRCrash, crGhosts, crBounds
    <2>b. \/ call' = call
          \/ crAt' = [crAt EXCEPT ![p] = "idle"] /\ call' = [call EXCEPT ![p] = NoItem]
      BY <1>4 DEF CRStep, TakeMutateLock, MutateRead, MutateWrite, MutateCache, BackendSet,
                  SetOrDelete, BackendGet, Fill, FetchListing, CRCrash, CRReturn, CRGoto
    <2>c. CallsHappened' /\ ThingsFormed'
      <3>1. \A r \in CRProcs : call'[r] = call[r] \/ call'[r].kind \notin {"insert", "delete"}
        BY <2>b DEF NoItem
      <3>2. QED
        BY <2>a, <3>1, CallsStay
    <2>d. NoItem \in [kind : {"none", "insert", "delete", "replace", "update", "pessimistic"},
                      x : Nat, v : Nat]
      BY DEF NoItem
    <2>e. call' \in [CRProcs -> [kind : {"none", "insert", "delete", "replace", "update",
                                     "pessimistic"}, x : Nat, v : Nat]]
      BY <2>b, <2>d
    <2>f. /\ reads' \in 0..MaxReads /\ crFaults' \in 0..MaxCRFaults
      BY <1>4 DEF CRStep, TakeMutateLock, MutateRead, MutateWrite, MutateCache, BackendSet,
                  SetOrDelete, BackendGet, Fill, FetchListing, CRCrash, crBounds, CRFault
    <2>1. CASE TakeMutateLock(p)
      <3>1. CallsPlaced' /\ BlockIsAlone'
        BY <2>1 DEF TakeMutateLock, CRGoto
      <3>2. CRTypeOK'
        BY <1>4, <2>1, <2>a, <2>e, <2>f DEF TakeMutateLock, CRGoto, crCaches
      <3>3. QED
        BY <2>c, <3>1, <3>2
    <2>2. CASE MutateRead(p)
      <3>1. CallsPlaced' /\ BlockIsAlone'
        BY <2>2 DEF MutateRead, CRGoto
      <3>2. CRTypeOK'
        BY <1>4, <2>2, <2>a, <2>e, <2>f DEF MutateRead, CRGoto
      <3>3. QED
        BY <2>c, <3>1, <3>2
    <2>3. CASE MutateWrite(p)
      <3>1. CallsPlaced' /\ BlockIsAlone'
        BY <2>3 DEF MutateWrite, CRGoto
      <3>2. Mutation(p) \in SUBSET Tuples
        BY MutationTyped
      <3>3. CRTypeOK'
        BY <1>4, <2>3, <2>a, <2>e, <2>f, <3>2 DEF MutateWrite, CRGoto
      <3>4. QED
        BY <2>c, <3>1, <3>3
    <2>4. CASE MutateCache(p)
      <3>1. CallsPlaced' /\ BlockIsAlone'
        BY <2>4 DEF MutateCache, CRReturn, CRGoto
      <3>2. CRTypeOK'
        BY <1>4, <2>4, <2>a, <2>e, <2>f DEF MutateCache, CRReturn, CRGoto
      <3>3. QED
        BY <2>c, <3>1, <3>2
    <2>5. CASE BackendSet(p)
      <3>1. CallsPlaced' /\ BlockIsAlone'
        BY <2>5 DEF BackendSet, CRGoto
      <3>2. CRTypeOK'
        BY <1>4, <2>5, <2>a, <2>e, <2>f DEF BackendSet, CRGoto
      <3>3. QED
        BY <2>c, <3>1, <3>2
    <2>6. CASE SetOrDelete(p)
      <3>1. CallsPlaced' /\ BlockIsAlone'
        BY <2>6 DEF SetOrDelete, CRReturn, CRGoto
      <3>2. CRTypeOK'
        BY <1>4, <2>6, <2>a, <2>e, <2>f DEF SetOrDelete, CRReturn, CRGoto
      <3>3. QED
        BY <2>c, <3>1, <3>2
    <2>7. CASE BackendGet(p)
      <3>1. CallsPlaced' /\ BlockIsAlone'
        BY <2>7 DEF BackendGet, CRGoto
      <3>2. CRTypeOK'
        BY <1>4, <2>7, <2>a, <2>e, <2>f DEF BackendGet, CRGoto, crCaches
      <3>3. QED
        BY <2>c, <3>1, <3>2
    <2>8. CASE Fill(p)
      <3>1. CallsPlaced' /\ BlockIsAlone'
        BY <2>8 DEF Fill, CRReturn, CRGoto
      <3>2. CRTypeOK'
        BY <1>4, <2>8, <2>a, <2>e, <2>f DEF Fill, CRReturn, CRGoto
      <3>3. QED
        BY <2>c, <3>1, <3>2
    <2>9. CASE FetchListing(p)
      <3>1. CallsPlaced' /\ BlockIsAlone'
        BY <2>9 DEF FetchListing, CRGoto
      <3>2. CRTypeOK'
        BY <1>4, <2>9, <2>a, <2>e, <2>f DEF FetchListing, CRGoto, crCaches
      <3>3. QED
        BY <2>c, <3>1, <3>2
    <2>10. CASE CRCrash(p)
      <3>1. CallsPlaced' /\ BlockIsAlone'
        BY <2>10 DEF CRCrash, CRGoto
      <3>2. CRTypeOK'
        BY <1>4, <2>10, <2>a, <2>e, <2>f DEF CRCrash, CRGoto
      <3>3. QED
        BY <2>c, <3>1, <3>2
    <2>11. QED
      BY <1>4, <2>1, <2>2, <2>3, <2>4, <2>5, <2>6, <2>7, <2>8, <2>9, <2>10 DEF CRStep
  <1>5. ASSUME EvictListing, limit' = limit
        PROVE  CRTyped'
    <2>1. CallsHappened' /\ ThingsFormed'
      BY <1>5, CallsStay DEF EvictListing, crGhosts
    <2>2. CallsPlaced' /\ BlockIsAlone'
      BY <1>5 DEF EvictListing
    <2>3. CRTypeOK'
      BY <1>5 DEF EvictListing, CRFault, crGhosts
    <2>4. QED
      BY <2>1, <2>2, <2>3
  <1>6. CASE UNCHANGED crVars
    <2>1. CallsHappened' /\ ThingsFormed'
      BY <1>6, CallsStay DEF crVars, crGhosts
    <2>2. CallsPlaced' /\ BlockIsAlone'
      BY <1>6 DEF crVars
    <2>3. CRTypeOK'
      BY <1>6 DEF crVars, crCaches, crGhosts, crBounds
    <2>4. QED
      BY <2>1, <2>2, <2>3
  <1>7. QED
    BY <1>1, <1>2, <1>3, <1>4, <1>5, <1>6, ZenonT(40) DEF CRNext, Recomputations

-----------------------------------------------------------------------------
(* Cassandra and memcached                                                 *)

\* p has written Cassandra and has not yet seen to memcached.
Wrote(p) == crAt[p] \in {"cache", "setcache"}

\* A recomputation is the only call, and its result is not outdated.
RecomputesAlone ==
    \A p \in CRProcs : call[p].kind \in Recomputations =>
        /\ \A r \in CRProcs : r # p => call[r].kind = "none"
        /\ value[p] = TopOf(current, limit)

\* What a process works with is what is stored.
ValueIsRow ==
    \A p \in CRProcs :
        Wrote(p) \/ (crAt[p] = "write" /\ call[p].kind # "replace") => value[p] = cass

\* memcached has the row, or nothing, or its writer is about to give it the row.
CacheFollows == memcached \in {Missing, cass} \/ \E p \in CRProcs : Wrote(p)

\* The part about the row's two copies.
RowInv == RecomputesAlone /\ ValueIsRow /\ CacheFollows

\* Whoever is about to change or has changed the row is alone with it.
LEMMA OneWrites ==
  ASSUME CRTyped, RowInv, NEW p \in CRProcs,
         crAt[p] \in {"read", "write", "cache", "set", "setcache"},
         NEW r \in CRProcs, r # p
  PROVE  crAt[r] \notin {"read", "write", "cache", "set", "setcache"}
  <1> USE DEF CRTyped, CallsPlaced, BlockIsAlone, RowInv, RecomputesAlone, Recomputations
  <1>1. CASE crAt[p] \in {"read", "write", "cache"}
    <2>1. crAt[r] \notin {"read", "write", "cache"}
      BY <1>1
    <2>2. crAt[r] \notin {"set", "setcache"}
      BY <1>1
    <2>3. QED
      BY <2>1, <2>2
  <1>2. CASE crAt[p] \in {"set", "setcache"}
    <2>1. call[r].kind = "none"
      BY <1>2
    <2>2. QED
      BY <2>1
  <1>3. QED
    BY <1>1, <1>2

\* mutate returns what it has stored: the row is written when it changes.
LEMMA MutateStores ==
  ASSUME CRTyped, RowInv, NEW p \in CRProcs, MutateWrite(p)
  PROVE  cass' = Mutation(p) /\ value'[p] = Mutation(p)
  <1>1. value'[p] = Mutation(p)
    BY DEF MutateWrite, CRTyped, CRTypeOK
  <1>2. CASE call[p].kind = "replace" \/ value[p] # Mutation(p)
    BY <1>1, <1>2 DEF MutateWrite
  <1>3. CASE call[p].kind # "replace" /\ value[p] = Mutation(p)
    BY <1>1, <1>3 DEF MutateWrite, RowInv, ValueIsRow
  <1>4. QED
    BY <1>2, <1>3

\* Every step keeps what the processes know of the row.
LEMMA RowStep ==
  ASSUME CRTyped, CRTyped', RowInv, ~poisoned', [CRNext]_crVars
  PROVE  RowInv'
  <1> USE DEF RowInv
  <1>0. \A p \in CRProcs : p # Missing
    BY CachedResultsAssumption
  <1>1. ASSUME NEW p \in CRProcs, NEW x \in CRThings, NEW v \in CRValues, CallInsert(p, x, v),
               limit' = limit
        PROVE  RowInv'
    <2>1. ~Recomputing
      BY <1>1 DEF CallInsert
    <2>2. \A r \in CRProcs : call[r].kind \notin Recomputations
      BY <2>1 DEF Recomputing, Recomputations
    <2>3. call' = [call EXCEPT ![p] = [kind |-> "insert", x |-> x, v |-> v]]
          /\ crAt' = [crAt EXCEPT ![p] = "lock"] /\ crAt[p] = "idle"
          /\ UNCHANGED <<cass, memcached, value>>
      BY <1>1 DEF CallInsert, Called, CRGoto, crCaches
    <2>4. RecomputesAlone'
      BY <2>2, <2>3 DEF RecomputesAlone, Recomputations, CRTyped, CRTypeOK
    <2>5. ValueIsRow'
      BY <2>3 DEF ValueIsRow, Wrote, CRTyped, CRTypeOK
    <2>6. CacheFollows'
      BY <2>3 DEF CacheFollows, Wrote, CRTyped, CRTypeOK
    <2>7. QED
      BY <2>4, <2>5, <2>6
  <1>2. ASSUME NEW p \in CRProcs, NEW x \in CRThings, CallDelete(p, x), limit' = limit
        PROVE  RowInv'
    <2>1. ~Recomputing
      BY <1>2 DEF CallDelete
    <2>2. \A r \in CRProcs : call[r].kind \notin Recomputations
      BY <2>1 DEF Recomputing, Recomputations
    <2>3. call' = [call EXCEPT ![p] = [kind |-> "delete", x |-> x, v |-> 0]]
          /\ crAt' = [crAt EXCEPT ![p] = "lock"] /\ crAt[p] = "idle"
          /\ UNCHANGED <<cass, memcached, value>>
      BY <1>2 DEF CallDelete, Called, CRGoto, crCaches
    <2>4. RecomputesAlone'
      BY <2>2, <2>3 DEF RecomputesAlone, Recomputations, CRTyped, CRTypeOK
    <2>5. ValueIsRow'
      BY <2>3 DEF ValueIsRow, Wrote, CRTyped, CRTypeOK
    <2>6. CacheFollows'
      BY <2>3 DEF CacheFollows, Wrote, CRTyped, CRTypeOK
    <2>7. QED
      BY <2>4, <2>5, <2>6
  <1>3. ASSUME NEW p \in CRProcs, NEW kind \in Recomputations, Recompute(p, kind), limit' = limit
        PROVE  RowInv'
    <2>1. \A r \in CRProcs : call[r].kind = "none"
      BY <1>3 DEF Recompute
    <2>2. \A r \in CRProcs : crAt[r] \in {"idle", "backend", "fill"}
      BY <2>1 DEF CRTyped, CRTypeOK, CallsPlaced
    <2>3. /\ call' = [call EXCEPT ![p] = [kind |-> kind, x |-> 0, v |-> 0]]
          /\ crAt' \in {[crAt EXCEPT ![p] = "lock"], [crAt EXCEPT ![p] = "set"]}
          /\ value' = [value EXCEPT ![p] = TopOf(current, limit)]
          /\ UNCHANGED <<cass, memcached, current>>
      BY <1>3 DEF Recompute, Called, CRGoto, crCaches
    <2>4. RecomputesAlone'
      <3>1. value'[p] = TopOf(current', limit')
        BY <1>3, <2>3 DEF CRTyped, CRTypeOK
      <3>2. \A r \in CRProcs : r # p => call'[r].kind = "none"
        BY <2>1, <2>3 DEF CRTyped, CRTypeOK
      <3>3. QED
        BY <3>1, <3>2 DEF RecomputesAlone, Recomputations
    <2>5. \A r \in CRProcs : crAt'[r] \in {"idle", "backend", "fill", "lock", "set"}
      BY <2>2, <2>3 DEF CRTyped, CRTypeOK
    <2>6. ValueIsRow'
      BY <2>5 DEF ValueIsRow, Wrote
    <2>7. CacheFollows'
      BY <2>2, <2>3 DEF CacheFollows, Wrote
    <2>8. QED
      BY <2>4, <2>6, <2>7
  <1>4. ASSUME NEW p \in CRProcs, TakeMutateLock(p), limit' = limit
        PROVE  RowInv'
    <2>1. /\ crAt' \in {[crAt EXCEPT ![p] = "read"], [crAt EXCEPT ![p] = "write"]}
          /\ crAt'[p] = "write" => call[p].kind = "replace"
          /\ crAt[p] = "lock"
          /\ UNCHANGED <<cass, memcached, current, call, value>>
      BY <1>4 DEF TakeMutateLock, CRGoto, crCaches, crGhosts, CRTyped, CRTypeOK
    <2>2. RecomputesAlone'
      BY <1>4, <2>1 DEF RecomputesAlone
    <2>3. ValueIsRow' /\ CacheFollows'
      BY <2>1 DEF ValueIsRow, CacheFollows, Wrote, CRTyped, CRTypeOK
    <2>4. QED
      BY <2>2, <2>3
  <1>5. ASSUME NEW p \in CRProcs, MutateRead(p), limit' = limit
        PROVE  RowInv'
    <2>1. /\ crAt' = [crAt EXCEPT ![p] = "write"] /\ crAt[p] = "read"
          /\ value' = [value EXCEPT ![p] = IF memcached = Missing THEN cass ELSE memcached]
          /\ UNCHANGED <<cass, memcached, current, call>>
      BY <1>5 DEF MutateRead, CRGoto, crGhosts
    <2>2. \A r \in CRProcs : ~Wrote(r)
      BY <2>1, OneWrites DEF Wrote
    <2>3. memcached \in {Missing, cass}
      BY <2>2 DEF CacheFollows
    <2>4. value'[p] = cass
      BY <2>1, <2>3 DEF CRTyped, CRTypeOK
    <2>5. call[p].kind \notin Recomputations
      BY <2>1 DEF CRTyped, CallsPlaced, Recomputations
    <2>6. RecomputesAlone'
      BY <1>5, <2>1, <2>5 DEF RecomputesAlone, CRTyped, CRTypeOK
    <2>7. ValueIsRow' /\ CacheFollows'
      BY <2>1, <2>3, <2>4 DEF ValueIsRow, CacheFollows, Wrote, CRTyped, CRTypeOK
    <2>8. QED
      BY <2>6, <2>7
  <1>6. ASSUME NEW p \in CRProcs, MutateWrite(p), limit' = limit
        PROVE  RowInv'
    <2>1. /\ crAt' = [crAt EXCEPT ![p] = "cache"] /\ crAt[p] = "write"
          /\ value' = [value EXCEPT ![p] = Mutation(p)]
          /\ cass' = Mutation(p)
          /\ UNCHANGED <<memcached, current, call>>
      BY <1>6, MutateStores DEF MutateWrite, CRGoto, crGhosts
    <2>2. \A r \in CRProcs : r # p => crAt[r] \notin {"read", "write", "cache", "set", "setcache"}
      BY <2>1, OneWrites
    <2>3. ValueIsRow' /\ CacheFollows'
      BY <2>1, <2>2 DEF ValueIsRow, CacheFollows, Wrote, CRTyped, CRTypeOK
    <2>4. RecomputesAlone'
      <3>1. call[p].kind \in Recomputations => Mutation(p) = value[p]
        <4>1. SUFFICES ASSUME call[p].kind \in Recomputations PROVE Mutation(p) = value[p]
          OBVIOUS
        <4>2. value[p] = TopOf(current, limit)
          BY <4>1 DEF RecomputesAlone
        <4>3. value[p] \in SUBSET Tuples
          BY <4>2 DEF TopOf, CRTyped, CRTypeOK
        <4>4. Mutation(p) = ListingOf(value[p])
          BY <4>1 DEF Mutation, Recomputations
        <4>5. QED
          BY <4>3, <4>4, CachedResultsAssumption DEF ListingOf, Tuples
      <3>2. QED
        BY <1>6, <2>1, <3>1 DEF RecomputesAlone, CRTyped, CRTypeOK
    <2>5. QED
      BY <2>3, <2>4
  <1>7. ASSUME NEW p \in CRProcs, MutateCache(p) \/ SetOrDelete(p), limit' = limit
        PROVE  RowInv'
    <2>1. /\ crAt' = [crAt EXCEPT ![p] = "idle"] /\ Wrote(p)
          /\ value' = [value EXCEPT ![p] = Missing]
          /\ call' = [call EXCEPT ![p] = NoItem]
          /\ memcached' \in {value[p], Missing}
          /\ UNCHANGED <<cass, current>>
      BY <1>7 DEF MutateCache, SetOrDelete, CRReturn, CRGoto, crGhosts, Wrote
    <2>2. memcached' \in {cass, Missing}
      BY <2>1 DEF ValueIsRow
    <2>3. CacheFollows'
      BY <2>1, <2>2 DEF CacheFollows
    <2>4. ValueIsRow'
      BY <2>1 DEF ValueIsRow, Wrote, CRTyped, CRTypeOK
    <2>5. RecomputesAlone'
      BY <1>7, <2>1 DEF RecomputesAlone, CRTyped, CRTypeOK, NoItem, Recomputations
    <2>6. QED
      BY <2>3, <2>4, <2>5
  <1>8. ASSUME NEW p \in CRProcs, BackendSet(p), limit' = limit
        PROVE  RowInv'
    <2>1. /\ crAt' = [crAt EXCEPT ![p] = "setcache"] /\ crAt[p] = "set"
          /\ cass' = value[p]
          /\ UNCHANGED <<memcached, current, call, value>>
      BY <1>8 DEF BackendSet, CRGoto, crGhosts
    <2>2. \A r \in CRProcs : r # p => crAt[r] \notin {"read", "write", "cache", "set", "setcache"}
      BY <2>1, OneWrites
    <2>3. ValueIsRow' /\ CacheFollows'
      BY <2>1, <2>2 DEF ValueIsRow, CacheFollows, Wrote, CRTyped, CRTypeOK
    <2>4. RecomputesAlone'
      BY <1>8, <2>1 DEF RecomputesAlone
    <2>5. QED
      BY <2>3, <2>4
  <1>9. ASSUME NEW p \in CRProcs, FetchListing(p) \/ BackendGet(p) \/ Fill(p), limit' = limit
        PROVE  RowInv'
    <2>1. /\ crAt[p] \in {"idle", "backend", "fill"} /\ call[p] = NoItem
          /\ crAt' \in {[crAt EXCEPT ![p] = "idle"], [crAt EXCEPT ![p] = "backend"],
                        [crAt EXCEPT ![p] = "fill"]}
          /\ \E val : value' = [value EXCEPT ![p] = val]
          /\ call' \in {call, [call EXCEPT ![p] = NoItem]}
          /\ UNCHANGED <<cass, current>>
      <3>1. crAt[p] \in {"idle", "backend", "fill"}
        BY <1>9 DEF FetchListing, BackendGet, Fill
      <3>2. call[p] = NoItem
        BY <3>1 DEF CRTyped, CallsPlaced
      <3>3. \E val : value' = [value EXCEPT ![p] = val]
        <4>1. value = [value EXCEPT ![p] = value[p]]
          BY DEF CRTyped, CRTypeOK
        <4>2. QED
          BY <1>9, <4>1 DEF FetchListing, BackendGet, Fill, CRReturn
      <3>4. QED
        BY <1>9, <3>1, <3>2, <3>3
        DEF FetchListing, BackendGet, Fill, CRReturn, CRGoto, crGhosts, crCaches
    <2>2. memcached' = memcached \/ memcached' = cass
      BY <1>9 DEF FetchListing, BackendGet, Fill, crCaches
    <2>3. PICK val : value' = [value EXCEPT ![p] = val]
      BY <2>1
    <2>4. ValueIsRow'
      BY <2>1, <2>3 DEF ValueIsRow, Wrote, CRTyped, CRTypeOK
    <2>5. CacheFollows'
      BY <2>1, <2>2 DEF CacheFollows, Wrote, CRTyped, CRTypeOK
    <2>6. RecomputesAlone'
      BY <1>9, <2>1, <2>3 DEF RecomputesAlone, CRTyped, CRTypeOK, NoItem, Recomputations
    <2>7. QED
      BY <2>4, <2>5, <2>6
  <1>10. ASSUME NEW p \in CRProcs, CRCrash(p), limit' = limit
         PROVE  RowInv'
    <2>1. /\ crAt' \in {[crAt EXCEPT ![p] = "lock"], [crAt EXCEPT ![p] = "set"]}
          /\ ~Wrote(p)
          /\ UNCHANGED <<cass, memcached, current, call, value>>
      BY <1>10 DEF CRCrash, CRGoto, Wrote
    <2>2. ValueIsRow' /\ CacheFollows'
      BY <2>1 DEF ValueIsRow, CacheFollows, Wrote, CRTyped, CRTypeOK
    <2>3. RecomputesAlone'
      BY <1>10, <2>1 DEF RecomputesAlone
    <2>4. QED
      BY <2>2, <2>3
  <1>11. ASSUME EvictListing, limit' = limit
         PROVE  RowInv'
    BY <1>11 DEF EvictListing, crGhosts, RecomputesAlone, ValueIsRow, CacheFollows, Wrote
  <1>12. CASE UNCHANGED crVars
    BY <1>12 DEF crVars, crCaches, crGhosts, RecomputesAlone, ValueIsRow, CacheFollows, Wrote
  <1>13. QED
    BY <1>1, <1>2, <1>3, <1>4, <1>5, <1>6, <1>7, <1>8, <1>9, <1>10, <1>11, <1>12
    DEF CRNext, CRStep, Recomputations

-----------------------------------------------------------------------------
(* The stored listing                                                      *)

\* A change of x has been called for and is not yet in Cassandra.
Unwritten(x) ==
    \E p \in CRProcs :
        call[p].kind \in {"insert", "delete"} /\ call[p].x = x /\ crAt[p] # "cache"

RowFormed ==
    /\ IsFiniteSet(ListingOf(cass)) /\ OneEach(ListingOf(cass))
    /\ Names(ListingOf(cass)) \subseteq ever

\* Below the limit every thing is stored as it is, but for changes on their way.
AllThere ==
    Cardinality(ever) < limit =>
        \A d \in Tuples : ~Unwritten(d.x) => (d \in ListingOf(cass) <=> d \in current)

\* While values grow no stored one is better than it should be, and everything
\* is shown, but for changes on their way.
NoneBetter ==
    ~dropped => \A e \in ListingOf(cass) :
        \/ e \in current
        \/ Unwritten(e.x) /\ \A d \in current : d.x = e.x => AtLeast(d, e)

BestThere ==
    ~dropped => \A d \in current : Unwritten(d.x) \/ Shown(ListingOf(cass), d)

\* The part about what is in the listing.
ListInv == RowFormed /\ AllThere /\ NoneBetter /\ BestThere

\* The stored listing is right as long as nothing happens to it.
LEMMA ListStays ==
  ASSUME ListInv, UNCHANGED <<cass, current, ever, dropped, limit>>,
         \A x : Unwritten(x)' <=> Unwritten(x)
  PROVE  ListInv'
  <1>1. RowFormed'
    BY DEF ListInv, RowFormed, ListingOf, Names, OneEach
  <1>2. AllThere'
    BY DEF ListInv, AllThere, ListingOf
  <1>3. NoneBetter'
    BY DEF ListInv, NoneBetter, ListingOf
  <1>4. BestThere'
    BY DEF ListInv, BestThere, ListingOf, Shown, Above
  <1>5. QED
    BY <1>1, <1>2, <1>3, <1>4 DEF ListInv

\* A change that is called for begins unwritten.
LEMMA ListCalled ==
  ASSUME CRTyped, CRTyped', ListInv, ~poisoned', limit' = limit,
         NEW p \in CRProcs, NEW x \in CRThings,
         (\E v \in CRValues : CallInsert(p, x, v)) \/ CallDelete(p, x)
  PROVE  ListInv'
  <1>1. /\ \A d \in Tuples : d.x # x => (d \in current' <=> d \in current)
        /\ cass' = cass /\ crAt[p] = "idle" /\ crAt' = [crAt EXCEPT ![p] = "lock"]
        /\ ever \subseteq ever'
    BY DEF CallInsert, CallDelete, Called, CRGoto, Without, crCaches
  <1>2. /\ \A r \in CRProcs : r # p => call'[r] = call[r]
        /\ call'[p].kind \in {"insert", "delete"} /\ call'[p].x = x
        /\ \A r \in CRProcs : call[r].kind # "none" => call[r].x # x
    <2>1. \A r \in CRProcs : call[r].kind # "none" => call[r].x # x
      BY DEF CallInsert, CallDelete, NoneAbout
    <2>2. CASE CallDelete(p, x)
      <3>1. call' = [call EXCEPT ![p] = [kind |-> "delete", x |-> x, v |-> 0]]
        BY <2>2 DEF CallDelete, Called
      <3>2. QED
        BY <2>1, <3>1 DEF CRTyped, CRTypeOK
    <2>3. ASSUME NEW v \in CRValues, CallInsert(p, x, v)
          PROVE  /\ \A r \in CRProcs : r # p => call'[r] = call[r]
                 /\ call'[p].kind \in {"insert", "delete"} /\ call'[p].x = x
      <3>1. call' = [call EXCEPT ![p] = [kind |-> "insert", x |-> x, v |-> v]]
        BY <2>3 DEF CallInsert, Called
      <3>2. QED
        BY <3>1 DEF CRTyped, CRTypeOK
    <2>4. QED
      BY <2>1, <2>2, <2>3
  <1>3. Unwritten(x)' /\ ~Unwritten(x)
    <2>1. crAt'[p] = "lock"
      BY <1>1 DEF CRTyped, CRTypeOK
    <2>2. QED
      BY <1>2, <2>1 DEF Unwritten
  <1>4. \A y : y # x => (Unwritten(y)' <=> Unwritten(y))
    <2>1. call[p].kind = "none"
      BY <1>1 DEF CRTyped, CallsPlaced, NoItem
    <2>2. \A r \in CRProcs : r # p => crAt'[r] = crAt[r]
      BY <1>1 DEF CRTyped, CRTypeOK
    <2>3. QED
      BY <1>2, <2>1, <2>2 DEF Unwritten
  <1>5. RowFormed'
    BY <1>1 DEF ListInv, RowFormed, ListingOf, Names, OneEach
  <1>6. /\ Cardinality(ever) <= Cardinality(ever')
        /\ Cardinality(ever) \in Nat /\ Cardinality(ever') \in Nat
    <2>1. IsFiniteSet(ever') /\ IsFiniteSet(ever) /\ ever \in SUBSET ever'
      BY <1>1 DEF CRTyped, ThingsFormed
    <2>2. QED
      BY <2>1, FS_Subset, FS_CardinalityType
  <1>7. AllThere'
    <2>1. SUFFICES ASSUME Cardinality(ever') < limit, NEW d \in Tuples, ~Unwritten(d.x)'
                   PROVE  d \in ListingOf(cass') <=> d \in current'
      BY DEF AllThere
    <2>2. d.x # x /\ ~Unwritten(d.x)
      BY <1>3, <1>4, <2>1
    <2>3. Cardinality(ever) < limit
      BY <1>6, <2>1, CachedResultsAssumption DEF CRTyped, CRTypeOK
    <2>4. QED
      BY <1>1, <2>2, <2>3 DEF ListInv, AllThere, ListingOf
  <1>8. limit' = limit
    OBVIOUS
  <1>9. ~dropped' => \E v \in CRValues : CallInsert(p, x, v) /\ ~dropped
    BY DEF CallInsert, CallDelete
  <1>10. NoneBetter' /\ BestThere'
    <2>1. SUFFICES ASSUME ~dropped' PROVE NoneBetter' /\ BestThere'
      BY DEF NoneBetter, BestThere
    <2>2. PICK v \in CRValues : CallInsert(p, x, v) /\ ~dropped
      BY <1>9, <2>1
    <2> DEFINE new == [x |-> x, v |-> v]
    <2>3. current' = Without(current, x) \cup {new} /\ new.x = x /\ new \in Tuples
      BY <2>2 DEF CallInsert, Tuples
    <2>4. \A d \in current : d.x = x => AtLeast(new, d)
      <3>1. SUFFICES ASSUME NEW d \in current, d.x = x PROVE AtLeast(new, d)
        OBVIOUS
      <3>2. ~(d.v > v)
        BY <2>1, <2>2, <3>1 DEF CallInsert
      <3>3. d.v \in Nat /\ v \in Nat /\ x \in Nat
        BY CachedResultsAssumption DEF CRTyped, CRTypeOK, Tuples
      <3>4. QED
        BY <3>1, <3>2, <3>3 DEF AtLeast
    <2>5. ASSUME NEW e \in ListingOf(cass)
          PROVE  \/ e \in current'
                 \/ Unwritten(e.x)' /\ \A d \in current' : d.x = e.x => AtLeast(d, e)
      <3>1. e \in Tuples
        BY DEF CRTyped, CRTypeOK, ListingOf
      <3>2. \/ e \in current
            \/ Unwritten(e.x) /\ \A d \in current : d.x = e.x => AtLeast(d, e)
        BY <2>2 DEF ListInv, NoneBetter
      <3>3. CASE e.x = x
        <4>1. e \in current
          BY <1>3, <3>2, <3>3
        <4>2. \A d \in current' : d.x = e.x => d = new
          BY <2>3, <3>3 DEF Without
        <4>3. AtLeast(new, e)
          BY <2>4, <3>3, <4>1
        <4>4. QED
          BY <1>3, <3>3, <4>2, <4>3
      <3>4. CASE e.x # x
        <4>1. \A d \in current' : d.x = e.x => d \in current
          BY <2>3, <3>4 DEF Without
        <4>2. QED
          BY <1>1, <1>4, <3>1, <3>2, <3>4, <4>1
      <3>5. QED
        BY <3>3, <3>4
    <2>6. NoneBetter'
      BY <1>1, <2>5 DEF NoneBetter, ListingOf
    <2>7. BestThere'
      <3>1. SUFFICES ASSUME NEW d \in current', ~Unwritten(d.x)'
                     PROVE  Shown(ListingOf(cass), d)'
        BY DEF BestThere
      <3>2. d.x # x /\ ~Unwritten(d.x) /\ d \in Tuples
        BY <1>3, <1>4, <3>1 DEF CRTyped, CRTypeOK
      <3>3. d \in current
        BY <1>1, <3>1, <3>2
      <3>4. Shown(ListingOf(cass), d)
        BY <2>2, <3>2, <3>3 DEF ListInv, BestThere
      <3>5. QED
        BY <1>1, <3>4 DEF Shown, Above, ListingOf
    <2>8. QED
      BY <2>6, <2>7
  <1>11. QED
    BY <1>5, <1>7, <1>10 DEF ListInv

\* A recomputation stores the best of what there is.
LEMMA ListRecomputed ==
  ASSUME CRTyped, NEW data, data = TopOf(current, limit),
         cass' = data, \A x : ~Unwritten(x)', UNCHANGED <<current, ever, dropped, limit>>
  PROVE  ListInv'
  <1>1. /\ data \in SUBSET Tuples /\ data \in SUBSET current /\ ListingOf(cass') = data
        /\ current \in SUBSET Tuples /\ IsFiniteSet(current) /\ OneEach(current)
        /\ IsFiniteSet(ever) /\ Names(current) \subseteq ever /\ limit \in Nat \ {0, 1}
    <2>1. data \in SUBSET current /\ current \in SUBSET Tuples
      BY DEF TopOf, CRTyped, CRTypeOK
    <2>2. ListingOf(cass') = data
      BY <2>1, CachedResultsAssumption DEF ListingOf, Tuples
    <2>3. QED
      BY <2>1, <2>2, CachedResultsAssumption DEF CRTyped, CRTypeOK, ThingsFormed
  <1>2. RowFormed'
    <2>1. IsFiniteSet(data) /\ OneEach(data) /\ Names(data) \subseteq ever
      BY <1>1, FS_Subset DEF OneEach, Names
    <2>2. QED
      BY <1>1, <2>1 DEF RowFormed, ListingOf, OneEach, Names
  <1>3. AllThere'
    <2>1. SUFFICES ASSUME Cardinality(ever) < limit PROVE data = current
      BY <1>1 DEF AllThere
    <2>2. Cardinality(current) <= Cardinality(ever) /\ Cardinality(ever) \in Nat
      BY <1>1, OneEachCount, FS_CardinalityType
    <2>3. Cardinality(current) <= limit
      BY <1>1, <2>1, <2>2, FS_CardinalityType
    <2>4. QED
      BY <1>1, <2>3, TopOfShort
  <1>4. NoneBetter'
    BY <1>1 DEF NoneBetter
  <1>5. ASSUME NEW d \in current
        PROVE  Shown(data, d)
    <2>1. CASE d \in data
      BY <2>1 DEF Shown
    <2>2. CASE d \notin data
      <3>1. d \in Tuples /\ Rank(current, d) = Cardinality(Above(current, d))
            /\ Rank(current, d) \in Nat
        BY <1>1, RankBounds
      <3>2. Cardinality(Above(current, d)) >= limit - 1
        BY <1>1, <2>2, <3>1 DEF TopOf
      <3>3. limit \in Nat /\ limit - 1 \in Nat /\ limit - 1 <= limit
        BY <1>1
      <3>4. Cardinality(Above(data, d)) >= limit - 1
        BY <1>1, <3>1, <3>2, <3>3, TopOfKeepsAbove
      <3>5. QED
        BY <3>4 DEF Shown
    <2>3. QED
      BY <2>1, <2>2
  <1>6. BestThere'
    <2>1. SUFFICES ASSUME NEW d \in current' PROVE Shown(ListingOf(cass), d)'
      BY DEF BestThere
    <2>2. QED
      BY <1>1, <1>5, <2>1 DEF Shown, Above
  <1>7. QED
    BY <1>2, <1>3, <1>4, <1>6 DEF ListInv

\* mutate stores an insertion or a deletion.
LEMMA ListMutated ==
  ASSUME CRTyped, CRTyped', RowInv, ListInv, ~poisoned,
         NEW p \in CRProcs, MutateWrite(p), limit' = limit, call[p].kind \in {"insert", "delete"}
  PROVE  ListInv'
  <1> DEFINE x == call[p].x
             D == ListingOf(cass)
             new == [x |-> call[p].x, v |-> call[p].v]
  <1>1. /\ crAt' = [crAt EXCEPT ![p] = "cache"] /\ crAt[p] = "write"
        /\ cass' = Mutation(p) /\ value[p] = cass
        /\ UNCHANGED <<call, current, ever, dropped>>
    BY MutateStores DEF MutateWrite, CRGoto, crGhosts, RowInv, ValueIsRow
  <1>2. /\ D \in SUBSET Tuples /\ IsFiniteSet(D) /\ OneEach(D) /\ Names(D) \subseteq ever
        /\ limit \in Nat \ {0, 1} /\ IsFiniteSet(ever) /\ Cardinality(ever) \in Nat
        /\ current \in SUBSET Tuples /\ OneEach(current) /\ Names(current) \subseteq ever
    BY CachedResultsAssumption, FS_CardinalityType
    DEF ListInv, RowFormed, CRTyped, CRTypeOK, ThingsFormed, ListingOf
  <1>3. ListingOf(cass') = Mutation(p)
    BY <1>1, MutationTyped, CachedResultsAssumption DEF ListingOf, Tuples
  <1>4. ~Unwritten(x)' /\ Unwritten(x)
    <2>1. \A r \in CRProcs : r # p /\ call[r].kind \in {"insert", "delete"} => call[r].x # x
      BY DEF CRTyped, CallsHappened, CallsApart
    <2>2. crAt'[p] = "cache"
      BY <1>1 DEF CRTyped, CRTypeOK
    <2>3. QED
      BY <1>1, <2>1, <2>2 DEF Unwritten
  <1>5. \A y : y # x => (Unwritten(y)' <=> Unwritten(y))
    <2>1. \A r \in CRProcs : r # p => crAt'[r] = crAt[r]
      BY <1>1 DEF CRTyped, CRTypeOK
    <2>2. QED
      BY <1>1, <2>1 DEF Unwritten
  <1>6. CASE call[p].kind = "delete"
    <2>1. Mutation(p) = Without(D, x)
      BY <1>1, <1>6 DEF Mutation
    <2>2. dropped /\ x \notin Names(current)
      BY <1>6 DEF CRTyped, CallsHappened, CallsApart
    <2>3. Without(D, x) \in SUBSET D
      BY DEF Without
    <2>4. RowFormed'
      <3>1. IsFiniteSet(Without(D, x))
        BY <1>2, <2>3, FS_Subset
      <3>2. OneEach(Without(D, x)) /\ Names(Without(D, x)) \subseteq ever
        BY <1>2, <2>3 DEF OneEach, Names
      <3>3. QED
        BY <1>1, <1>3, <2>1, <3>1, <3>2 DEF RowFormed, OneEach, Names
    <2>5. AllThere'
      <3>1. SUFFICES ASSUME Cardinality(ever) < limit, NEW d \in Tuples, ~Unwritten(d.x)'
                     PROVE  d \in Without(D, x) <=> d \in current
        BY <1>1, <1>3, <2>1 DEF AllThere
      <3>2. CASE d.x = x
        BY <2>2, <3>2 DEF Without, Names
      <3>3. CASE d.x # x
        <4>1. d \in D <=> d \in current
          BY <1>5, <3>1, <3>3 DEF ListInv, AllThere
        <4>2. QED
          BY <3>3, <4>1 DEF Without
      <3>4. QED
        BY <3>2, <3>3
    <2>6. NoneBetter' /\ BestThere'
      BY <1>1, <2>2 DEF NoneBetter, BestThere
    <2>7. QED
      BY <2>4, <2>5, <2>6 DEF ListInv
  <1>7. CASE call[p].kind = "insert"
    <2> DEFINE W == Without(D, x) \cup {new}
    <2>1. Mutation(p) = Inserted(D, new) /\ new \in Tuples /\ new.x = x
      BY <1>1, <1>7, MutationTyped DEF Mutation
    <2>2. new \in current
      BY <1>7 DEF CRTyped, CallsHappened, CallsApart
    <2>3. x \in ever
      BY <1>2, <2>1, <2>2 DEF Names
    <2>4. /\ Inserted(D, new) \subseteq W /\ IsFiniteSet(Inserted(D, new))
          /\ OneEach(Inserted(D, new))
      BY <1>2, <2>1, InsertedWithin
    <2>5. RowFormed'
      <3>1. Names(Inserted(D, new)) \subseteq ever
        BY <1>2, <2>1, <2>3, <2>4 DEF Names, Without
      <3>2. QED
        BY <1>1, <1>3, <2>1, <2>4, <3>1 DEF RowFormed, OneEach, Names
    <2>6. \A d \in current : d.x = x => d = new
      BY <1>2, <2>1, <2>2 DEF OneEach
    <2>7. AllThere'
      <3>1. SUFFICES ASSUME Cardinality(ever) < limit, NEW d \in Tuples, ~Unwritten(d.x)'
                     PROVE  d \in Inserted(D, new) <=> d \in current
        BY <1>1, <1>3, <2>1 DEF AllThere
      <3>2. Names(D) \cup {new.x} \subseteq ever /\ limit \in Nat
        BY <1>2, <2>1, <2>3
      <3>3. Inserted(D, new) = W
        BY <1>2, <2>1, <3>1, <3>2, InsertedShort
      <3>4. CASE d.x = x
        BY <2>1, <2>2, <2>6, <3>3, <3>4 DEF Without
      <3>5. CASE d.x # x
        <4>1. d \in D <=> d \in current
          BY <1>5, <3>1, <3>5 DEF ListInv, AllThere
        <4>2. QED
          BY <2>1, <3>3, <3>5, <4>1 DEF Without
      <3>6. QED
        BY <3>4, <3>5
    <2>8. ASSUME ~dropped
          PROVE  NoneBetter' /\ BestThere'
      <3>1. ASSUME NEW e \in D
            PROVE  \/ e \in current
                   \/ Unwritten(e.x) /\ \A d \in current : d.x = e.x => AtLeast(d, e)
        BY <2>8 DEF ListInv, NoneBetter
      <3>2. ASSUME NEW e \in Inserted(D, new)
            PROVE  \/ e \in current
                   \/ Unwritten(e.x)' /\ \A d \in current : d.x = e.x => AtLeast(d, e)
        <4>1. CASE e = new
          BY <2>2, <4>1
        <4>2. CASE e # new
          <5>1. e \in D /\ e.x # x
            BY <2>4, <4>2 DEF Without
          <5>2. QED
            BY <1>5, <3>1, <5>1
        <4>3. QED
          BY <4>1, <4>2
      <3>3. NoneBetter'
        BY <1>1, <1>3, <2>1, <3>2 DEF NoneBetter
      <3>4. \A o \in D : o.x = new.x => AtLeast(new, o)
        <4>1. SUFFICES ASSUME NEW o \in D, o.x = x PROVE AtLeast(new, o)
          BY <2>1
        <4>2. CASE o \in current
          BY <1>2, <2>6, <4>1, <4>2, TuplesOrdered
        <4>3. CASE o \notin current
          BY <2>1, <2>2, <3>1, <4>1, <4>3
        <4>4. QED
          BY <4>2, <4>3
      <3>5. /\ Shown(Inserted(D, new), new)
            /\ \A d \in Tuples : d.x # new.x /\ Shown(D, d) => Shown(Inserted(D, new), d)
        BY <1>2, <2>1, <3>4, InsertedShows
      <3>6. ASSUME NEW d \in current, ~Unwritten(d.x)'
            PROVE  Shown(Inserted(D, new), d)
        <4>1. CASE d.x = x
          BY <2>6, <3>5, <4>1
        <4>2. CASE d.x # x
          <5>1. Shown(D, d)
            BY <1>5, <2>8, <3>6, <4>2 DEF ListInv, BestThere
          <5>2. QED
            BY <1>2, <2>1, <3>5, <4>2, <5>1
        <4>3. QED
          BY <4>1, <4>2
      <3>7. BestThere'
        <4>1. SUFFICES ASSUME NEW d \in current', ~Unwritten(d.x)'
                       PROVE  Shown(ListingOf(cass), d)'
          BY DEF BestThere
        <4>2. Shown(Inserted(D, new), d)
          BY <1>1, <3>6, <4>1
        <4>3. QED
          BY <1>3, <2>1, <4>2 DEF Shown, Above
      <3>8. QED
        BY <3>3, <3>7
    <2>9. NoneBetter' /\ BestThere'
      BY <1>1, <2>8 DEF NoneBetter, BestThere
    <2>10. QED
      BY <2>5, <2>7, <2>9 DEF ListInv
  <1>8. QED
    BY <1>6, <1>7

\* Every step keeps the stored listing right.
LEMMA ListStep ==
  ASSUME CRTyped, CRTyped', RowInv, ListInv, ~poisoned', [CRNext]_crVars
  PROVE  ListInv'
  <1>1. ASSUME NEW p \in CRProcs, NEW x \in CRThings, limit' = limit,
               (\E v \in CRValues : CallInsert(p, x, v)) \/ CallDelete(p, x)
        PROVE  ListInv'
    BY <1>1, ListCalled
  <1>2. ASSUME NEW p \in CRProcs, NEW kind \in Recomputations, Recompute(p, kind), limit' = limit
        PROVE  ListInv'
    <2>1. /\ \A r \in CRProcs : call[r].kind = "none"
          /\ call' = [call EXCEPT ![p] = [kind |-> kind, x |-> 0, v |-> 0]]
          /\ UNCHANGED <<cass, current, ever, dropped>>
      BY <1>2 DEF Recompute, Called, crCaches
    <2>2. \A y : ~Unwritten(y)' /\ ~Unwritten(y)
      <3>1. \A r \in CRProcs : call'[r].kind \notin {"insert", "delete"}
        BY <2>1 DEF CRTyped, CRTypeOK, Recomputations
      <3>2. QED
        BY <2>1, <3>1 DEF Unwritten
    <2>3. QED
      BY <1>2, <2>1, <2>2, ListStays
  <1>3. ASSUME NEW p \in CRProcs, MutateWrite(p), limit' = limit
        PROVE  ListInv'
    <2>0. ~poisoned
      BY <1>3 DEF MutateWrite, crGhosts
    <2>1. CASE call[p].kind \in {"insert", "delete"}
      BY <1>3, <2>0, <2>1, ListMutated
    <2>2. CASE call[p].kind \notin {"insert", "delete"}
      <3>1. call[p].kind = "replace"
        BY <1>3, <2>2 DEF MutateWrite, CRTyped, CallsPlaced
      <3>2. \A r \in CRProcs : r # p => call[r].kind = "none"
        BY <3>1 DEF RowInv, RecomputesAlone, Recomputations
      <3>3. value[p] = TopOf(current, limit)
        BY <3>1 DEF RowInv, RecomputesAlone, Recomputations
      <3>4. value[p] \in SUBSET Tuples
        BY <3>3 DEF TopOf, CRTyped, CRTypeOK
      <3>5. Mutation(p) = value[p]
        BY <3>1, <3>4, CachedResultsAssumption DEF Mutation, ListingOf, Tuples
      <3>6. cass' = TopOf(current, limit) /\ UNCHANGED <<call, current, ever, dropped>>
        BY <1>3, <3>3, <3>5, MutateStores DEF MutateWrite, crGhosts
      <3>7. \A y : ~Unwritten(y)'
        BY <3>1, <3>2, <3>6 DEF Unwritten
      <3>8. QED
        BY <1>3, <3>6, <3>7, ListRecomputed
    <2>3. QED
      BY <2>1, <2>2
  <1>4. ASSUME NEW p \in CRProcs, BackendSet(p), limit' = limit
        PROVE  ListInv'
    <2>1. call[p].kind \in {"update", "pessimistic"}
      BY <1>4 DEF BackendSet, CRTyped, CallsPlaced
    <2>2. \A r \in CRProcs : r # p => call[r].kind = "none"
      BY <2>1 DEF RowInv, RecomputesAlone, Recomputations
    <2>3. value[p] = TopOf(current, limit)
      BY <2>1 DEF RowInv, RecomputesAlone, Recomputations
    <2>4. cass' = TopOf(current, limit) /\ UNCHANGED <<call, current, ever, dropped>>
      BY <1>4, <2>3 DEF BackendSet, crGhosts
    <2>5. \A y : ~Unwritten(y)'
      BY <2>1, <2>2, <2>4 DEF Unwritten
    <2>6. QED
      BY <1>4, <2>4, <2>5, ListRecomputed
  <1>5. ASSUME NEW p \in CRProcs, MutateCache(p) \/ SetOrDelete(p), limit' = limit
        PROVE  ListInv'
    <2>1. /\ crAt' = [crAt EXCEPT ![p] = "idle"] /\ call' = [call EXCEPT ![p] = NoItem]
          /\ crAt[p] = "cache" \/ crAt[p] = "setcache"
          /\ UNCHANGED <<cass, current, ever, dropped>>
      BY <1>5 DEF MutateCache, SetOrDelete, CRReturn, CRGoto, crGhosts
    <2>2. crAt[p] = "cache" \/ call[p].kind \notin {"insert", "delete"}
      BY <2>1 DEF CRTyped, CallsPlaced
    <2>3. \A y : Unwritten(y)' <=> Unwritten(y)
      <3>1. \A r \in CRProcs : r # p => call'[r] = call[r] /\ crAt'[r] = crAt[r]
        BY <2>1 DEF CRTyped, CRTypeOK
      <3>2. call'[p].kind = "none"
        BY <2>1 DEF CRTyped, CRTypeOK, NoItem
      <3>3. QED
        BY <2>2, <3>1, <3>2 DEF Unwritten
    <2>4. QED
      BY <1>5, <2>1, <2>3, ListStays
  <1>6. ASSUME NEW p \in CRProcs, limit' = limit,
               \/ TakeMutateLock(p) \/ MutateRead(p) \/ BackendGet(p) \/ Fill(p)
               \/ FetchListing(p) \/ CRCrash(p)
        PROVE  ListInv'
    <2>1. /\ crAt[p] # "cache" /\ crAt'[p] # "cache"
          /\ \A r \in CRProcs : r # p => crAt'[r] = crAt[r]
      BY <1>6 DEF TakeMutateLock, MutateRead, BackendGet, Fill, FetchListing, CRCrash, CRReturn,
                  CRGoto, CRTyped, CRTypeOK
    <2>2. call' = call
      <3>1. CASE Fill(p)
        <4>1. call[p] = NoItem
          BY <3>1 DEF Fill, CRTyped, CallsPlaced
        <4>2. QED
          BY <3>1, <4>1 DEF Fill, CRReturn, CRTyped, CRTypeOK
      <3>2. CASE ~Fill(p)
        BY <1>6, <3>2 DEF TakeMutateLock, MutateRead, BackendGet, FetchListing, CRCrash
      <3>3. QED
        BY <3>1, <3>2
    <2>3. UNCHANGED <<cass, current, ever, dropped>>
      BY <1>6 DEF TakeMutateLock, MutateRead, BackendGet, Fill, FetchListing, CRCrash,
                  crGhosts, crCaches
    <2>4. \A y : Unwritten(y)' <=> Unwritten(y)
      BY <2>1, <2>2 DEF Unwritten
    <2>5. QED
      BY <1>6, <2>3, <2>4, ListStays
  <1>7. ASSUME EvictListing, limit' = limit
        PROVE  ListInv'
    <2>1. \A y : Unwritten(y)' <=> Unwritten(y)
      BY <1>7 DEF EvictListing, Unwritten
    <2>2. QED
      BY <1>7, <2>1, ListStays DEF EvictListing, crGhosts
  <1>8. CASE UNCHANGED crVars
    <2>1. \A y : Unwritten(y)' <=> Unwritten(y)
      BY <1>8 DEF crVars, Unwritten
    <2>2. QED
      BY <1>8, <2>1, ListStays DEF crVars, crGhosts, crCaches
  <1>9. QED
    BY <1>1, <1>2, <1>3, <1>4, <1>5, <1>6, <1>7, <1>8 DEF CRNext, CRStep, Recomputations

-----------------------------------------------------------------------------
\* All of it.
CRInv == CRTyped /\ (~poisoned => RowInv /\ ListInv)

\* The invariant of the specification; a row that a failure has poisoned is not
\* right before it is recomputed.
LEMMA CRInvariant == CRSpec => []CRInv
  <1>1. CRInit => CRInv
    <2>1. SUFFICES ASSUME CRInit PROVE CRInv
      OBVIOUS
    <2>2. CRTypeOK
      <3>1. /\ call \in [CRProcs -> [kind : {"none", "insert", "delete", "replace", "update",
                                     "pessimistic"}, x : Nat, v : Nat]]
            /\ \A p \in CRProcs : call[p] = NoItem
        BY <2>1 DEF CRInit, NoItem
      <3>2. mutations \in 0..MaxMutations /\ reads \in 0..MaxReads /\ crFaults \in 0..MaxCRFaults
        BY <2>1, CachedResultsAssumption DEF CRInit
      <3>3. dropped \in BOOLEAN /\ poisoned \in BOOLEAN
        BY <2>1 DEF CRInit
      <3>4. QED
        BY <2>1, <3>1, <3>2, <3>3 DEF CRInit, CRTypeOK
    <2>3. /\ \A p \in CRProcs : crAt[p] = "idle" /\ call[p] = NoItem /\ call[p].kind = "none"
          /\ ListingOf(cass) = {} /\ current = {} /\ ever = {}
      BY <2>1 DEF CRInit, ListingOf, NoItem
    <2>4. CallsPlaced /\ BlockIsAlone /\ CallsHappened
      BY <2>3 DEF CallsPlaced, BlockIsAlone, CallsHappened, CallsApart
    <2>5. ThingsFormed
      BY <2>3, FS_EmptySet DEF ThingsFormed, OneEach, Names
    <2>6. RowInv
      BY <2>1, <2>3 DEF CRInit, RowInv, RecomputesAlone, ValueIsRow, CacheFollows, Wrote,
                        Recomputations
    <2>7. ListInv
      BY <2>3, FS_EmptySet DEF ListInv, RowFormed, AllThere, NoneBetter, BestThere, OneEach, Names
    <2>8. QED
      BY <2>2, <2>4, <2>5, <2>6, <2>7 DEF CRInv, CRTyped
  <1>2. CRInv /\ [CRNext]_crVars => CRInv'
    <2>1. SUFFICES ASSUME CRInv, [CRNext]_crVars PROVE CRInv'
      OBVIOUS
    <2>2. CRTyped /\ CRTyped'
      BY <2>1, CRTypedStep DEF CRInv
    <2>3. poisoned => poisoned'
      BY <2>1 DEF CRNext, CRStep, CallInsert, CallDelete, Recompute, TakeMutateLock, MutateRead,
                  MutateWrite, MutateCache, BackendSet, SetOrDelete, BackendGet, Fill,
                  FetchListing, CRCrash, EvictListing, crGhosts, crVars
    <2>4. ~poisoned' => RowInv' /\ ListInv'
      BY <2>1, <2>2, <2>3, RowStep, ListStep DEF CRInv
    <2>5. QED
      BY <2>2, <2>4 DEF CRInv
  <1>3. QED
    BY <1>1, <1>2, PTL DEF CRSpec

(***************************************************************************)
(* The listing, its cached copy and the calls that change it stay within   *)
(* their types.                                                            *)
(***************************************************************************)
THEOREM ListingTypeCorrect == CRSpec => []CRTypeOK
  <1>1. CRInv => CRTypeOK
    BY DEF CRInv, CRTyped
  <1>2. QED
    BY <1>1, CRInvariant, PTL

(***************************************************************************)
(* cache.py:990 "Mutate a Cassandra key as atomically as possible", for   *)
(* any number of processes and things: with no call under way the stored   *)
(* listing has every insertion and deletion, while the things fit below    *)
(* precompute_limit, and memcached holds that listing or nothing.          *)
(***************************************************************************)
THEOREM ListingsAreStored == CRSpec => []ListingStored
  <1>1. CRInv => ListingStored
    <2>1. SUFFICES ASSUME CRInv, CRQuiet, ~poisoned
                   PROVE  /\ Cardinality(ever) < limit => ListingOf(cass) = current
                          /\ memcached \in {Missing, cass}
      BY DEF ListingStored, ListingComplete, MemcachedFollows
    <2>2. CRTyped /\ RowInv /\ ListInv
      BY <2>1 DEF CRInv
    <2>3. \A p \in CRProcs : ~Wrote(p)
      BY <2>1, <2>2 DEF CRQuiet, Wrote, CRTyped, CallsPlaced
    <2>4. \A x : ~Unwritten(x)
      BY <2>1 DEF CRQuiet, Unwritten
    <2>5. ListingOf(cass) \subseteq Tuples /\ current \subseteq Tuples
      BY <2>2 DEF CRTyped, CRTypeOK, ListingOf
    <2>6. Cardinality(ever) < limit => ListingOf(cass) = current
      BY <2>2, <2>4, <2>5 DEF ListInv, AllThere
    <2>7. memcached \in {Missing, cass}
      BY <2>2, <2>3 DEF RowInv, CacheFollows
    <2>8. QED
      BY <2>6, <2>7
  <1>2. QED
    BY <1>1, CRInvariant, PTL

(***************************************************************************)
(* queries.py:254: a listing that is cut to precompute_limit after each    *)
(* insertion has the best precompute_limit - 1 of all things, while values *)
(* only grow, for every limit and however many insertions there were.      *)
(***************************************************************************)
THEOREM BestAreListed == CRSpec => []ListingBest
  <1>1. CRInv => ListingBest
    <2>1. SUFFICES ASSUME CRInv, CRQuiet, ~poisoned, ~dropped,
                          NEW d \in TopOf(current, limit - 1), d \notin ListingOf(cass)
                   PROVE  FALSE
      BY DEF ListingBest
    <2>2. CRTyped /\ ListInv
      BY <2>1 DEF CRInv
    <2>3. \A x : ~Unwritten(x)
      BY <2>1 DEF CRQuiet, Unwritten
    <2> DEFINE D == ListingOf(cass)
    <2>4. D \subseteq current /\ current \in SUBSET Tuples /\ IsFiniteSet(current)
          /\ limit \in Nat \ {0, 1}
      BY <2>1, <2>2, <2>3, CachedResultsAssumption
      DEF ListInv, NoneBetter, CRTyped, CRTypeOK, ThingsFormed
    <2>5. d \in current /\ d \in Tuples /\ Rank(current, d) <= limit - 1
      BY <2>4 DEF TopOf
    <2>6. Cardinality(Above(D, d)) >= limit - 1
      BY <2>1, <2>2, <2>3, <2>5 DEF ListInv, BestThere, Shown
    <2>7. Above(D, d) \cup {d} \in SUBSET Above(current, d)
      BY <2>4, <2>5, TuplesOrdered DEF Above
    <2>8. IsFiniteSet(Above(current, d)) /\ Rank(current, d) = Cardinality(Above(current, d))
          /\ Rank(current, d) \in Nat
      BY <2>4, <2>5, RankBounds
    <2>9. Above(D, d) \in SUBSET Above(current, d) /\ d \notin Above(D, d)
      BY <2>1, <2>7 DEF Above
    <2>10. IsFiniteSet(Above(D, d)) /\ Cardinality(Above(D, d)) \in Nat
      BY <2>8, <2>9, FS_Subset, FS_CardinalityType
    <2>11. Cardinality(Above(D, d) \cup {d}) = Cardinality(Above(D, d)) + 1
      BY <2>9, <2>10, FS_AddElement
    <2>12. Cardinality(Above(D, d) \cup {d}) <= Cardinality(Above(current, d))
      BY <2>7, <2>8, FS_Subset
    <2>13. QED
      BY <2>4, <2>5, <2>6, <2>8, <2>10, <2>11, <2>12
  <1>2. QED
    BY <1>1, CRInvariant, PTL

-----------------------------------------------------------------------------
(* Cached queries: the inductive invariant                                 *)

\* What p's mutator holds.
BatchOps(p) == Range(batch[p])

\* The version of x that q's row has, and whether a prune or its own lateness
\* accounts for its absence.
Accounted(q, x) == <<q, x, row[q][x].ts>> \in cut \cup late

\* Timestamps do not exceed the clock, nor removals what was read.
TimesBounded ==
    /\ \A q \in Queries :
         /\ rowTomb[q] <= seen[q] /\ seen[q] <= clock
         /\ \A x \in Things : row[q][x].ts <= clock /\ truth[q][x].ts <= clock
    /\ \A p \in Writers : \A op \in BatchOps(p) : op.ts >= 1 /\ op.ts <= clock

\* No two operations have the same timestamp.
TimesUnique ==
    /\ \A p, r \in Writers : p # r => \A op \in BatchOps(p), o \in BatchOps(r) : op.ts # o.ts
    /\ \A p \in Writers : \A op \in BatchOps(p) : \A q \in Queries :
         op.ts # seen[q] /\ \A x \in Things : row[q][x].ts # op.ts

\* A column is the newest change, or a prune has removed it.
RowIsTruth ==
    \A q \in Queries, x \in Things :
        /\ row[q][x].ts = truth[q][x].ts
        /\ row[q][x] = truth[q][x] \/ (row[q][x].val = Gone /\ <<q, x, row[q][x].ts>> \in cut)

\* What was read to prune was there, and what of it is too much is in cut.
ReadsRecorded ==
    \A p \in Writers, q \in Queries :
        /\ \A x \in Things : fetched[p][q][x].ts <= row[q][x].ts
                             /\ fetched[p][q][x].ts <= seen[q]
        /\ \A x \in Overflow(fetched[p][q]) : <<q, x, fetched[p][q][x].ts>> \in cut

\* What the removal of a row hides is accounted for.
HiddenAccounted ==
    \A q \in Queries, x \in Things :
        (row[q][x].val # Gone /\ row[q][x].ts <= rowTomb[q]) => Accounted(q, x)

\* A prune has read what there is, or it is accounted for, or newer than all it read.
PrunesKnow ==
    \A p \in Writers : qcAt[p] = "prune" =>
        \A q \in toPrune[p], x \in Things :
            row[q][x].val # Gone =>
                \/ row[q][x] = fetched[p][q][x]
                \/ Accounted(q, x)
                \/ \A y \in Things : fetched[p][q][y].ts < row[q][x].ts

\* Types and the bounds of times.
QCTyped == QueryCacheTypeOK /\ TimesBounded
\* What the rows keep of the changes.
QCKept == TimesUnique /\ RowIsTruth /\ ReadsRecorded /\ HiddenAccounted /\ PrunesKnow

\* The range of a sequence that grows.
LEMMA RangeAppend ==
  ASSUME NEW S, NEW s \in Seq(S), NEW e \in S
  PROVE  Range(Append(s, e)) = Range(s) \cup {e} /\ Append(s, e) \in Seq(S) /\ Range(<<>>) = {}
  <1>1. Range(<<>>) = {}
    BY DEF Range
  <1>2. Append(s, e) \in Seq(S)
    OBVIOUS
  <1>3. DOMAIN s = 1..Len(s) /\ DOMAIN Append(s, e) = 1..(Len(s) + 1) /\ Len(s) \in Nat
        /\ \A i \in 1..Len(s) : Append(s, e)[i] = s[i]
        /\ Append(s, e)[Len(s) + 1] = e
    OBVIOUS
  <1>4. ASSUME NEW y \in Range(Append(s, e)) PROVE y \in Range(s) \cup {e}
    <2>1. PICK i \in 1..(Len(s) + 1) : y = Append(s, e)[i]
      BY <1>3 DEF Range
    <2>2. CASE i = Len(s) + 1
      BY <1>3, <2>1, <2>2
    <2>3. CASE i # Len(s) + 1
      <3>1. i \in 1..Len(s)
        BY <1>3, <2>3
      <3>2. QED
        BY <1>3, <2>1, <3>1 DEF Range
    <2>4. QED
      BY <2>2, <2>3
  <1>5. ASSUME NEW y \in Range(s) \cup {e} PROVE y \in Range(Append(s, e))
    <2>1. CASE y = e
      <3>1. Len(s) + 1 \in DOMAIN Append(s, e)
        BY <1>3
      <3>2. QED
        BY <1>3, <2>1, <3>1 DEF Range
    <2>2. CASE y \in Range(s)
      <3>1. PICK i \in 1..Len(s) : y = s[i]
        BY <1>3, <2>2 DEF Range
      <3>2. i \in DOMAIN Append(s, e) /\ y = Append(s, e)[i]
        BY <1>3, <3>1
      <3>3. QED
        BY <3>2 DEF Range
    <2>3. QED
      BY <2>1, <2>2
  <1>6. QED
    BY <1>1, <1>2, <1>4, <1>5

\* What a mutator holds is typed.
LEMMA HeldTyped ==
  ASSUME QueryCacheTypeOK, NEW p \in Writers, NEW op \in BatchOps(p)
  PROVE  /\ op \in Op /\ op.query \in Queries /\ op.thing \in Things /\ op.ts \in Nat
         /\ [ts |-> op.ts, val |-> op.val] \in Column
  <1>1. batch[p] \in Seq(Op)
    BY DEF QueryCacheTypeOK
  <1>2. op \in Op
    BY <1>1 DEF BatchOps, Range
  <1>3. QED
    BY <1>2 DEF Op, Column

\* A send leaves a column as it is, or gives it an operation that it held.
LEMMA SentIs ==
  ASSUME QCTyped, NEW p \in Writers, NEW q \in Queries, NEW x \in Things
  PROVE  \/ \A cols \in [Things -> Column] : Sent(cols, q, batch[p])[x] = cols[x]
         \/ \E op \in BatchOps(p) :
              /\ op.query = q /\ op.thing = x
              /\ \A cols \in [Things -> Column] :
                   Sent(cols, q, batch[p])[x] = Newer(cols[x], [ts |-> op.ts, val |-> op.val])
  <1> DEFINE about == {op \in Range(batch[p]) : op.query = q /\ op.thing = x}
             last == CHOOSE op \in about : \A o \in about : o.ts <= op.ts
  <1>1. \A cols \in [Things -> Column] : Sent(cols, q, batch[p])[x] =
             IF about = {} THEN cols[x]
             ELSE Newer(cols[x], [ts |-> last.ts, val |-> last.val])
    BY DEF Sent
  <1>2. CASE about = {}
    BY <1>1, <1>2
  <1>3. CASE about # {}
    <2> DEFINE T == {op.ts : op \in about}
    <2>1. \A op \in about : op.ts \in Nat /\ op.ts <= clock
      BY HeldTyped DEF QCTyped, TimesBounded, BatchOps
    <2>2. T \in SUBSET Nat /\ T # {} /\ \A t \in T : t <= clock
      BY <1>3, <2>1
    <2>3. clock \in Nat
      BY DEF QCTyped, QueryCacheTypeOK
    <2>4. Max(T) \in T /\ \A t \in T : t <= Max(T)
      BY <2>2, <2>3, MinMaxExist
    <2>5. \E op \in about : \A o \in about : o.ts <= op.ts
      BY <2>4
    <2>6. last \in about
      BY <2>5
    <2> HIDE DEF last
    <2>7. last \in BatchOps(p) /\ last.query = q /\ last.thing = x
      BY <2>6 DEF BatchOps
    <2>8. QED
      BY <1>1, <1>3, <2>7
  <1>4. QED
    BY <1>2, <1>3

\* Newer is one of two columns, and the times of columns do not go back.
LEMMA NewerIs ==
  ASSUME NEW old \in Column, NEW new \in Column
  PROVE  /\ Newer(old, new) \in Column /\ Newer(old, new).ts \in Nat
         /\ old.ts \in Nat /\ new.ts \in Nat
         /\ \/ Newer(old, new) = new /\ new.ts >= old.ts
            \/ Newer(old, new) = old /\ new.ts <= old.ts
         /\ old.ts <= Newer(old, new).ts
         /\ new.ts # old.ts => (Newer(old, new) = new <=> new.ts > old.ts)
  BY DEF Newer, Column

\* The inductive invariant.
QCInv == QCTyped /\ QCKept

\* What the types say of each column.
LEMMA ColumnFacts ==
  ASSUME QCInv
  PROVE  /\ clock \in Nat
         /\ \A q \in Queries : /\ row[q] \in [Things -> Column] /\ truth[q] \in [Things -> Column]
                               /\ rowTomb[q] \in Nat /\ seen[q] \in Nat
         /\ \A q \in Queries, x \in Things :
              /\ row[q][x] \in Column /\ truth[q][x] \in Column
              /\ row[q][x].ts \in Nat /\ truth[q][x].ts \in Nat
         /\ \A p \in Writers, q \in Queries :
              /\ fetched[p][q] \in [Things -> Column]
              /\ \A x \in Things : fetched[p][q][x] \in Column /\ fetched[p][q][x].ts \in Nat
  <1>1. \A c \in Column : c.ts \in Nat
    BY DEF Column
  <1>2. QED
    BY <1>1 DEF QCInv, QCTyped, QueryCacheTypeOK

-----------------------------------------------------------------------------
(* A mutator's operations                                                  *)

\* An insertion or deletion that is only added gets a time of its own.
LEMMA EnqueueStep ==
  ASSUME QCInv, NEW p \in Writers, NEW q \in Queries, NEW x \in Things,
         NEW val \in SortValues \cup {Gone}, Enqueue(p, q, x, val),
         UNCHANGED <<row, rowTomb, truth, fetched, qcAt, cut, seen, late>>,
         toPrune' \in [Writers -> SUBSET Queries],
         \A r \in Writers : r # p => toPrune'[r] = toPrune[r]
  PROVE  QCInv'
  <1> DEFINE op == [query |-> q, thing |-> x, ts |-> clock', val |-> val]
  <1>0. clock \in Nat /\ clock' = clock + 1 /\ clock' \in Nat
    BY DEF QCInv, QCTyped, QueryCacheTypeOK, Enqueue
  <1>1. op \in Op
    BY <1>0 DEF Op
  <1>2. batch' = [batch EXCEPT ![p] = Append(@, op)] /\ batch \in [Writers -> Seq(Op)]
    BY DEF Enqueue, QCInv, QCTyped, QueryCacheTypeOK
  <1> HIDE DEF op
  <1>3. /\ batch'[p] = Append(batch[p], op) /\ batch[p] \in Seq(Op)
        /\ \A r \in Writers : r # p => batch'[r] = batch[r]
    BY <1>2
  <1>4. BatchOps(p)' = BatchOps(p) \cup {op} /\ batch'[p] \in Seq(Op)
        /\ \A r \in Writers : r # p => BatchOps(r)' = BatchOps(r)
    BY <1>1, <1>3, RangeAppend DEF BatchOps
  <1>5. QueryCacheTypeOK'
    <2>1. batch' \in [Writers -> Seq(Op)]
      BY <1>2, <1>3, <1>4
    <2>2. QED
      BY <1>0, <2>1 DEF QCInv, QCTyped, QueryCacheTypeOK
  <1>6. op.ts = clock + 1 /\ op.ts \in Nat
    BY <1>0 DEF op
  <1>7. \A r \in Writers : \A o \in BatchOps(r) : o.ts >= 1 /\ o.ts <= clock /\ o.ts \in Nat
    BY HeldTyped DEF QCInv, QCTyped, TimesBounded
  <1>8. TimesBounded'
    <2>1. \A r \in Writers : \A o \in BatchOps(r)' : o.ts >= 1 /\ o.ts <= clock'
      <3>1. SUFFICES ASSUME NEW r \in Writers, NEW o \in BatchOps(r)'
                     PROVE  o.ts >= 1 /\ o.ts <= clock'
        OBVIOUS
      <3>2. CASE o \in BatchOps(r)
        BY <1>0, <1>7, <3>2
      <3>3. CASE o \notin BatchOps(r)
        <4>1. o = op
          BY <1>4, <3>1, <3>3
        <4>2. QED
          BY <1>0, <1>6, <4>1
      <3>4. QED
        BY <3>2, <3>3
    <2>2. \A r \in Queries : /\ rowTomb[r] <= seen[r] /\ seen[r] <= clock'
                             /\ \A y \in Things : row[r][y].ts <= clock' /\ truth[r][y].ts <= clock'
      <3>1. \A r \in Queries : /\ rowTomb[r] <= seen[r] /\ seen[r] <= clock /\ seen[r] \in Nat
              /\ \A y \in Things : /\ row[r][y].ts <= clock /\ truth[r][y].ts <= clock
                                   /\ row[r][y].ts \in Nat /\ truth[r][y].ts \in Nat
        BY ColumnFacts DEF QCInv, QCTyped, TimesBounded
      <3>2. \A n \in Nat : n <= clock => n <= clock'
        BY <1>0
      <3>3. QED
        BY <3>1, <3>2
    <2>3. QED
      BY <2>1, <2>2 DEF TimesBounded
  <1>9. TimesUnique'
    <2>1. \A r \in Queries : seen[r] # op.ts /\ \A y \in Things : row[r][y].ts # op.ts
      <3>1. \A r \in Queries : /\ seen[r] <= clock /\ seen[r] \in Nat
              /\ \A y \in Things : row[r][y].ts <= clock /\ row[r][y].ts \in Nat
        BY ColumnFacts DEF QCInv, QCTyped, TimesBounded
      <3>2. \A n \in Nat : n <= clock => n # op.ts
        BY <1>0, <1>6
      <3>3. QED
        BY <3>1, <3>2
    <2>2. \A r \in Writers : \A o \in BatchOps(r) : o.ts # op.ts
      BY <1>0, <1>6, <1>7
    <2>3. \A r, w \in Writers : r # w => \A a \in BatchOps(r)', b \in BatchOps(w)' : a.ts # b.ts
      BY <1>4, <2>2 DEF QCInv, QCKept, TimesUnique
    <2>4. \A r \in Writers : \A o \in BatchOps(r)' : \A k \in Queries :
            o.ts # seen[k] /\ \A y \in Things : row[k][y].ts # o.ts
      BY <1>4, <2>1 DEF QCInv, QCKept, TimesUnique
    <2>5. QED
      BY <2>3, <2>4 DEF TimesUnique
  <1>10. RowIsTruth' /\ ReadsRecorded' /\ HiddenAccounted'
    BY DEF QCInv, QCKept, RowIsTruth, ReadsRecorded, HiddenAccounted, Accounted
  <1>11. PrunesKnow'
    <2>1. qcAt[p] = "open"
      BY DEF Enqueue
    <2>2. QED
      BY <2>1 DEF QCInv, QCKept, PrunesKnow, Accounted
  <1>12. QED
    BY <1>5, <1>8, <1>9, <1>10, <1>11 DEF QCInv, QCTyped, QCKept

\* What a send does to one column, and to the change that is the truth of it.
LEMMA SendColumn ==
  ASSUME QCInv, NEW p \in Writers, Send(p), NEW q \in Queries, NEW x \in Things
  PROVE  \/ row'[q][x] = row[q][x] /\ truth'[q][x] = truth[q][x]
         \/ \E op \in BatchOps(p) :
              /\ op.query = q /\ op.thing = x /\ op.ts > row[q][x].ts
              /\ row'[q][x] = [ts |-> op.ts, val |-> op.val]
              /\ truth'[q][x] = row'[q][x]
  <1>1. /\ row'[q][x] = Sent(row[q], q, batch[p])[x]
        /\ truth'[q][x] = Sent(truth[q], q, batch[p])[x]
        /\ row[q] \in [Things -> Column] /\ truth[q] \in [Things -> Column]
        /\ row[q][x] \in Column /\ truth[q][x] \in Column
        /\ row[q][x].ts = truth[q][x].ts
    BY ColumnFacts DEF Send, QCInv, QCKept, RowIsTruth
  <1>2. CASE \A cols \in [Things -> Column] : Sent(cols, q, batch[p])[x] = cols[x]
    BY <1>1, <1>2
  <1>3. ASSUME NEW op \in BatchOps(p), op.query = q, op.thing = x,
               \A cols \in [Things -> Column] :
                 Sent(cols, q, batch[p])[x] = Newer(cols[x], [ts |-> op.ts, val |-> op.val])
        PROVE  \/ row'[q][x] = row[q][x] /\ truth'[q][x] = truth[q][x]
               \/ /\ op.query = q /\ op.thing = x /\ op.ts > row[q][x].ts
                  /\ row'[q][x] = [ts |-> op.ts, val |-> op.val]
                  /\ truth'[q][x] = row'[q][x]
    <2> DEFINE new == [ts |-> op.ts, val |-> op.val]
    <2>1. new \in Column /\ new.ts = op.ts /\ op.ts \in Nat
      BY HeldTyped DEF QCInv, QCTyped
    <2>2. op.ts # row[q][x].ts
      BY DEF QCInv, QCKept, TimesUnique
    <2>3. row'[q][x] = Newer(row[q][x], new) /\ truth'[q][x] = Newer(truth[q][x], new)
      BY <1>1, <1>3
    <2> HIDE DEF new
    <2>4. CASE op.ts > row[q][x].ts
      <3>1. row'[q][x] = new /\ truth'[q][x] = new
        BY <1>1, <2>1, <2>2, <2>3, <2>4, NewerIs
      <3>2. QED
        BY <1>3, <2>4, <3>1 DEF new
    <2>5. CASE ~(op.ts > row[q][x].ts)
      <3>1. row'[q][x] # new /\ truth'[q][x] # new
        BY <1>1, <2>1, <2>2, <2>3, <2>5, NewerIs
      <3>2. QED
        BY <1>1, <2>1, <2>3, <3>1, NewerIs
    <2>6. QED
      BY <2>4, <2>5
  <1>4. QED
    BY <1>2, <1>3, SentIs DEF QCInv

\* A send writes the newest changes, and records the ones that come too late for
\* a prune that has read the row.
LEMMA SendStep ==
  ASSUME QCInv, NEW p \in Writers, Send(p)
  PROVE  QCInv'
  <1>0. /\ UNCHANGED <<clock, rowTomb, toPrune, fetched, cut, seen>>
        /\ late' = late \cup {<<op.query, op.thing, op.ts>> :
                                op \in {o \in BatchOps(p) : o.ts < seen[o.query]}}
        /\ batch' = [batch EXCEPT ![p] = <<>>] /\ qcAt[p] = "open"
        /\ qcAt' \in {qcAt, [qcAt EXCEPT ![p] = "fetch"]}
    <2>1. qcAt = [qcAt EXCEPT ![p] = "open"]
      BY DEF Send, QCInv, QCTyped, QueryCacheTypeOK
    <2>2. QED
      BY <2>1 DEF Send, BatchOps
  <1>1. /\ \A r \in Writers : r # p => BatchOps(r)' = BatchOps(r)
        /\ BatchOps(p)' = {}
        /\ batch' \in [Writers -> Seq(Op)]
    BY <1>0 DEF BatchOps, Range, QCInv, QCTyped, QueryCacheTypeOK
  <1>2. ASSUME NEW q \in Queries, NEW x \in Things
        PROVE  /\ row'[q][x] \in Column /\ truth'[q][x] \in Column
               /\ row[q][x].ts <= row'[q][x].ts /\ row'[q][x].ts \in Nat
               /\ row'[q][x].ts <= clock /\ truth'[q][x].ts <= clock
               /\ row'[q][x].ts = truth'[q][x].ts
    <2>1. /\ row[q][x] \in Column /\ truth[q][x] \in Column /\ row[q][x].ts \in Nat
          /\ row[q][x].ts <= clock /\ truth[q][x].ts <= clock /\ truth[q][x].ts \in Nat
          /\ row[q][x].ts = truth[q][x].ts
      BY ColumnFacts DEF QCInv, QCTyped, TimesBounded, QCKept, RowIsTruth
    <2>2. CASE row'[q][x] = row[q][x] /\ truth'[q][x] = truth[q][x]
      BY <2>1, <2>2
    <2>3. ASSUME NEW op \in BatchOps(p), op.ts > row[q][x].ts,
                 row'[q][x] = [ts |-> op.ts, val |-> op.val], truth'[q][x] = row'[q][x]
          PROVE  /\ row'[q][x] \in Column /\ truth'[q][x] \in Column
                 /\ row[q][x].ts <= row'[q][x].ts /\ row'[q][x].ts \in Nat
                 /\ row'[q][x].ts <= clock /\ truth'[q][x].ts <= clock
                 /\ row'[q][x].ts = truth'[q][x].ts
      <3>1. op.ts \in Nat /\ [ts |-> op.ts, val |-> op.val] \in Column /\ op.ts <= clock
        BY HeldTyped DEF QCInv, QCTyped, TimesBounded
      <3>2. row'[q][x].ts = op.ts
        BY <2>3
      <3>3. QED
        BY <2>1, <2>3, <3>1, <3>2
    <2>4. \/ row'[q][x] = row[q][x] /\ truth'[q][x] = truth[q][x]
          \/ \E op \in BatchOps(p) :
               /\ op.query = q /\ op.thing = x /\ op.ts > row[q][x].ts
               /\ row'[q][x] = [ts |-> op.ts, val |-> op.val]
               /\ truth'[q][x] = row'[q][x]
      BY SendColumn
    <2>5. QED
      BY <2>2, <2>3, <2>4
  <1>3. row' \in [Queries -> [Things -> Column]] /\ truth' \in [Queries -> [Things -> Column]]
    <2>1. /\ row' = [q \in Queries |-> [x \in Things |-> row'[q][x]]]
          /\ truth' = [q \in Queries |-> [x \in Things |-> truth'[q][x]]]
      BY DEF Send, Sent
    <2>2. QED
      BY <1>2, <2>1
  <1>4. late' \subseteq Version /\ late \subseteq late'
    <2>1. \A op \in BatchOps(p) : <<op.query, op.thing, op.ts>> \in Version
      BY HeldTyped DEF QCInv, QCTyped, Version
    <2>2. QED
      BY <1>0, <2>1 DEF QCInv, QCTyped, QueryCacheTypeOK
  <1>5. QueryCacheTypeOK'
    <2>1. qcAt' \in [Writers -> {"open", "fetch", "prune"}]
      BY <1>0 DEF QCInv, QCTyped, QueryCacheTypeOK
    <2>2. QED
      BY <1>0, <1>1, <1>3, <1>4, <2>1 DEF QCInv, QCTyped, QueryCacheTypeOK
  <1>6. TimesBounded'
    <2>1. \A r \in Writers : \A op \in BatchOps(r)' : op.ts >= 1 /\ op.ts <= clock
      BY <1>1 DEF QCInv, QCTyped, TimesBounded
    <2>2. \A q \in Queries : rowTomb[q] <= seen[q] /\ seen[q] <= clock
      BY DEF QCInv, QCTyped, TimesBounded
    <2>3. QED
      BY <1>0, <1>2, <2>1, <2>2 DEF TimesBounded
  <1>7. TimesUnique'
    <2>1. \A r, w \in Writers : r # w => \A a \in BatchOps(r)', b \in BatchOps(w)' : a.ts # b.ts
      BY <1>1 DEF QCInv, QCKept, TimesUnique
    <2>2. ASSUME NEW r \in Writers, NEW o \in BatchOps(r)', NEW q \in Queries
          PROVE  o.ts # seen[q] /\ \A x \in Things : row'[q][x].ts # o.ts
      <3>1. r # p /\ o \in BatchOps(r)
        BY <1>1, <2>2
      <3>2. o.ts # seen[q] /\ \A x \in Things : row[q][x].ts # o.ts
        BY <3>1 DEF QCInv, QCKept, TimesUnique
      <3>3. \A op \in BatchOps(p) : op.ts # o.ts
        BY <3>1 DEF QCInv, QCKept, TimesUnique
      <3>4. ASSUME NEW x \in Things PROVE row'[q][x].ts # o.ts
        <4>1. \/ row'[q][x] = row[q][x]
              \/ \E op \in BatchOps(p) : row'[q][x] = [ts |-> op.ts, val |-> op.val]
          BY SendColumn
        <4>2. ASSUME NEW op \in BatchOps(p), row'[q][x] = [ts |-> op.ts, val |-> op.val]
              PROVE  row'[q][x].ts # o.ts
          <5>1. row'[q][x].ts = op.ts
            BY <4>2
          <5>2. QED
            BY <3>3, <5>1
        <4>3. CASE row'[q][x] = row[q][x]
          BY <3>2, <4>3
        <4>4. QED
          BY <4>1, <4>2, <4>3
      <3>5. QED
        BY <3>2, <3>4
    <2>3. QED
      BY <1>0, <2>1, <2>2 DEF TimesUnique
  <1>8. RowIsTruth'
    <2>1. SUFFICES ASSUME NEW q \in Queries, NEW x \in Things
                   PROVE  /\ row'[q][x].ts = truth'[q][x].ts
                          /\ \/ row'[q][x] = truth'[q][x]
                             \/ row'[q][x].val = Gone /\ <<q, x, row'[q][x].ts>> \in cut
      BY <1>0 DEF RowIsTruth
    <2>2. \/ row'[q][x] = row[q][x] /\ truth'[q][x] = truth[q][x]
          \/ truth'[q][x] = row'[q][x]
      BY SendColumn
    <2>3. QED
      BY <1>2, <2>2 DEF QCInv, QCKept, RowIsTruth
  <1>9. ReadsRecorded'
    <2>1. ASSUME NEW r \in Writers, NEW q \in Queries, NEW x \in Things
          PROVE  fetched[r][q][x].ts <= row'[q][x].ts /\ fetched[r][q][x].ts <= seen[q]
      <3>1. /\ fetched[r][q][x].ts \in Nat /\ row[q][x].ts \in Nat /\ seen[q] \in Nat
            /\ fetched[r][q][x].ts <= row[q][x].ts /\ fetched[r][q][x].ts <= seen[q]
        BY ColumnFacts DEF QCInv, QCKept, ReadsRecorded
      <3>2. QED
        BY <1>2, <3>1
    <2>2. QED
      BY <1>0, <2>1 DEF QCInv, QCKept, ReadsRecorded
  <1>10. ASSUME NEW q \in Queries, NEW x \in Things
         PROVE  \/ row'[q][x] = row[q][x] /\ (Accounted(q, x) => Accounted(q, x)')
                \/ Accounted(q, x)'
                \/ row'[q][x].ts > seen[q]
    <2>1. CASE row'[q][x] = row[q][x]
      BY <1>0, <1>4, <2>1 DEF Accounted
    <2>2. ASSUME NEW op \in BatchOps(p), op.query = q, op.thing = x,
                 row'[q][x] = [ts |-> op.ts, val |-> op.val]
          PROVE  Accounted(q, x)' \/ row'[q][x].ts > seen[q]
      <3>1. op.ts \in Nat /\ seen[q] \in Nat /\ op.ts # seen[q] /\ row'[q][x].ts = op.ts
        BY <2>2, HeldTyped, ColumnFacts DEF QCInv, QCTyped, QCKept, TimesUnique
      <3>2. CASE op.ts < seen[q]
        <4>1. <<op.query, op.thing, op.ts>> \in late'
          BY <1>0, <2>2, <3>2
        <4>2. QED
          BY <2>2, <3>1, <4>1 DEF Accounted
      <3>3. CASE ~(op.ts < seen[q])
        BY <3>1, <3>3
      <3>4. QED
        BY <3>2, <3>3
    <2>3. \/ row'[q][x] = row[q][x] /\ truth'[q][x] = truth[q][x]
          \/ \E op \in BatchOps(p) :
               /\ op.query = q /\ op.thing = x /\ op.ts > row[q][x].ts
               /\ row'[q][x] = [ts |-> op.ts, val |-> op.val]
               /\ truth'[q][x] = row'[q][x]
      BY SendColumn
    <2>4. QED
      BY <2>1, <2>2, <2>3
  <1>11. HiddenAccounted'
    <2>1. SUFFICES ASSUME NEW q \in Queries, NEW x \in Things, row'[q][x].val # Gone,
                          row'[q][x].ts <= rowTomb[q]
                   PROVE  Accounted(q, x)'
      BY <1>0 DEF HiddenAccounted
    <2>2. ~(row'[q][x].ts > seen[q])
      <3>1. rowTomb[q] \in Nat /\ seen[q] \in Nat /\ rowTomb[q] <= seen[q]
        BY ColumnFacts DEF QCInv, QCTyped, TimesBounded
      <3>2. QED
        BY <1>2, <2>1, <3>1
    <2>3. CASE row'[q][x] = row[q][x] /\ (Accounted(q, x) => Accounted(q, x)')
      BY <2>1, <2>3 DEF QCInv, QCKept, HiddenAccounted
    <2>4. QED
      BY <1>10, <2>2, <2>3
  <1>12. PrunesKnow'
    <2>1. SUFFICES ASSUME NEW r \in Writers, qcAt'[r] = "prune", NEW q \in toPrune[r],
                          NEW x \in Things, row'[q][x].val # Gone
                   PROVE  \/ row'[q][x] = fetched[r][q][x]
                          \/ Accounted(q, x)'
                          \/ \A y \in Things : fetched[r][q][y].ts < row'[q][x].ts
      BY <1>0 DEF PrunesKnow
    <2>2. qcAt[r] = "prune" /\ q \in Queries
      BY <1>0, <2>1 DEF QCInv, QCTyped, QueryCacheTypeOK
    <2>3. CASE row'[q][x] = row[q][x] /\ (Accounted(q, x) => Accounted(q, x)')
      BY <2>1, <2>2, <2>3 DEF QCInv, QCKept, PrunesKnow
    <2>4. CASE row'[q][x].ts > seen[q]
      <3>1. \A y \in Things : /\ fetched[r][q][y].ts \in Nat /\ fetched[r][q][y].ts <= seen[q]
                              /\ seen[q] \in Nat
        BY <2>2, ColumnFacts DEF QCInv, QCKept, ReadsRecorded
      <3>2. QED
        BY <1>2, <2>2, <2>4, <3>1
    <2>5. QED
      BY <1>10, <2>2, <2>3, <2>4
  <1>13. QED
    BY <1>5, <1>6, <1>7, <1>8, <1>9, <1>11, <1>12 DEF QCInv, QCTyped, QCKept

-----------------------------------------------------------------------------
(* Pruning                                                                 *)

\* A prune reads the live columns and records what is too much.
LEMMA FetchStep ==
  ASSUME QCInv, NEW p \in Writers, Fetch(p)
  PROVE  QCInv'
  <1> DEFINE got(q, x) == IF q \in toPrune[p] /\ Live(q, x) THEN row[q][x] ELSE Never
  <1>0. /\ UNCHANGED <<clock, row, rowTomb, truth, batch, toPrune, late>>
        /\ fetched' = [fetched EXCEPT ![p] = [q \in Queries |-> [x \in Things |-> got(q, x)]]]
        /\ qcAt' = [qcAt EXCEPT ![p] = "prune"] /\ qcAt[p] = "fetch"
        /\ seen' = [q \in Queries |-> Max({seen[q]} \cup {fetched'[p][q][x].ts : x \in Things})]
        /\ cut' = cut \cup UNION {{<<q, x, row[q][x].ts>> : x \in Overflow(fetched'[p][q])} :
                                    q \in Queries}
    BY DEF Fetch
  <1> HIDE DEF got
  <1>1. /\ \A r \in Writers : r # p => fetched'[r] = fetched[r] /\ qcAt'[r] = qcAt[r]
        /\ \A q \in Queries, x \in Things : fetched'[p][q][x] = got(q, x)
        /\ qcAt' \in [Writers -> {"open", "fetch", "prune"}]
    BY <1>0 DEF QCInv, QCTyped, QueryCacheTypeOK
  <1>2. Never \in Column /\ Never.ts = 0 /\ Never.val = Gone
    BY DEF Never, Column
  <1>3. ASSUME NEW q \in Queries, NEW x \in Things
        PROVE  /\ got(q, x) \in Column /\ got(q, x).ts \in Nat /\ got(q, x).ts <= row[q][x].ts
               /\ got(q, x).ts <= clock
    <2>1. row[q][x] \in Column /\ row[q][x].ts \in Nat /\ row[q][x].ts <= clock /\ clock \in Nat
      BY ColumnFacts DEF QCInv, QCTyped, TimesBounded
    <2>2. QED
      BY <1>2, <2>1 DEF got
  <1>4. fetched' \in [Writers -> [Queries -> [Things -> Column]]]
    BY <1>0, <1>3 DEF QCInv, QCTyped, QueryCacheTypeOK
  <1>5. cut \subseteq cut' /\ cut' \subseteq Version
    <2>1. \A q \in Queries, x \in Things : <<q, x, row[q][x].ts>> \in Version
      BY ColumnFacts DEF Version
    <2>2. \A q \in Queries : Overflow(fetched'[p][q]) \subseteq Things
      BY DEF Overflow, Present
    <2>3. cut \subseteq Version
      BY DEF QCInv, QCTyped, QueryCacheTypeOK
    <2>4. ASSUME NEW c \in cut', c \notin cut PROVE c \in Version
      <3>1. PICK q \in Queries : \E x \in Overflow(fetched'[p][q]) : c = <<q, x, row[q][x].ts>>
        BY <1>0, <2>4
      <3>2. QED
        BY <2>1, <2>2, <3>1
    <2>5. QED
      BY <1>0, <2>3, <2>4
  <1>6. ASSUME NEW q \in Queries
        PROVE  /\ seen'[q] \in Nat /\ seen[q] <= seen'[q] /\ seen'[q] <= clock
               /\ \A x \in Things : got(q, x).ts <= seen'[q]
               /\ seen'[q] = seen[q] \/ \E x \in Things : seen'[q] = got(q, x).ts
    <2> DEFINE T == {seen[q]} \cup {got(q, x).ts : x \in Things}
    <2>1. seen[q] \in Nat /\ seen[q] <= clock /\ clock \in Nat
      BY ColumnFacts DEF QCInv, QCTyped, TimesBounded
    <2>2. T \in SUBSET Nat /\ T # {} /\ \A t \in T : t <= clock
      BY <1>3, <2>1
    <2>3. Max(T) \in T /\ \A t \in T : t <= Max(T)
      BY <2>1, <2>2, MinMaxExist
    <2>4. {fetched'[p][q][x].ts : x \in Things} = {got(q, x).ts : x \in Things}
      BY <1>1
    <2>5. seen'[q] = Max(T)
      BY <1>0, <2>4
    <2> DEFINE m == Max(T)
    <2>6. m \in T /\ \A t \in T : t <= m
      BY <2>3
    <2>7. seen'[q] = m
      BY <2>5
    <2> HIDE DEF m
    <2>8. QED
      BY <2>2, <2>6, <2>7
  <1>7. QueryCacheTypeOK'
    <2>1. seen' \in [Queries -> Nat]
      <3>1. seen' = [q \in Queries |-> seen'[q]]
        BY <1>0
      <3>2. QED
        BY <1>6, <3>1
    <2>2. QED
      BY <1>0, <1>1, <1>4, <1>5, <2>1 DEF QCInv, QCTyped, QueryCacheTypeOK
  <1>8. TimesBounded'
    <2>1. ASSUME NEW q \in Queries PROVE rowTomb[q] <= seen'[q] /\ seen'[q] <= clock
      <3>1. rowTomb[q] <= seen[q] /\ seen[q] \in Nat /\ rowTomb[q] \in Nat
        BY ColumnFacts DEF QCInv, QCTyped, TimesBounded
      <3>2. QED
        BY <1>6, <3>1
    <2>2. \A r \in Writers : BatchOps(r)' = BatchOps(r)
      BY <1>0 DEF BatchOps
    <2>3. QED
      BY <1>0, <2>1, <2>2 DEF QCInv, QCTyped, TimesBounded
  <1>9. TimesUnique'
    <2>1. \A r \in Writers : BatchOps(r)' = BatchOps(r)
      BY <1>0 DEF BatchOps
    <2>2. ASSUME NEW r \in Writers, NEW op \in BatchOps(r), NEW q \in Queries
          PROVE  op.ts # seen'[q]
      <3>1. op.ts # seen[q] /\ \A x \in Things : row[q][x].ts # op.ts
        BY DEF QCInv, QCKept, TimesUnique
      <3>2. op.ts >= 1 /\ op.ts \in Nat
        BY HeldTyped DEF QCInv, QCTyped, TimesBounded
      <3>3. \A x \in Things : got(q, x).ts # op.ts
        BY <1>2, <3>1, <3>2 DEF got
      <3>4. QED
        BY <1>6, <3>1, <3>3
    <2>3. QED
      BY <1>0, <2>1, <2>2 DEF QCInv, QCKept, TimesUnique
  <1>10. RowIsTruth'
    BY <1>0, <1>5 DEF QCInv, QCKept, RowIsTruth
  <1>11. ReadsRecorded'
    <2>1. ASSUME NEW r \in Writers, NEW q \in Queries, NEW x \in Things
          PROVE  fetched'[r][q][x].ts <= row[q][x].ts /\ fetched'[r][q][x].ts <= seen'[q]
      <3>1. CASE r = p
        BY <1>1, <1>3, <1>6, <3>1
      <3>2. CASE r # p
        <4>1. /\ fetched[r][q][x].ts <= row[q][x].ts /\ fetched[r][q][x].ts <= seen[q]
              /\ fetched[r][q][x].ts \in Nat /\ seen[q] \in Nat
          BY ColumnFacts DEF QCInv, QCKept, ReadsRecorded
        <4>2. QED
          BY <1>1, <1>6, <3>2, <4>1
      <3>3. QED
        BY <3>1, <3>2
    <2>2. ASSUME NEW r \in Writers, NEW q \in Queries, NEW x \in Overflow(fetched'[r][q])
          PROVE  <<q, x, fetched'[r][q][x].ts>> \in cut'
      <3>1. CASE r = p
        <4>1. x \in Things /\ fetched'[p][q][x].val # Gone
          BY <3>1 DEF Overflow, Present
        <4>2. fetched'[p][q][x] = row[q][x]
          BY <1>1, <1>2, <4>1 DEF got
        <4>3. <<q, x, row[q][x].ts>> \in cut'
          BY <1>0, <2>2, <3>1
        <4>4. QED
          BY <3>1, <4>2, <4>3
      <3>2. CASE r # p
        BY <1>1, <1>5, <2>2, <3>2 DEF QCInv, QCKept, ReadsRecorded
      <3>3. QED
        BY <3>1, <3>2
    <2>3. QED
      BY <1>0, <2>1, <2>2 DEF ReadsRecorded
  <1>12. \A q \in Queries, x \in Things : Accounted(q, x) => Accounted(q, x)'
    BY <1>0, <1>5 DEF Accounted
  <1>13. HiddenAccounted'
    BY <1>0, <1>12 DEF QCInv, QCKept, HiddenAccounted
  <1>14. PrunesKnow'
    <2>1. SUFFICES ASSUME NEW r \in Writers, qcAt'[r] = "prune", NEW q \in toPrune[r],
                          NEW x \in Things, row[q][x].val # Gone
                   PROVE  \/ row[q][x] = fetched'[r][q][x]
                          \/ Accounted(q, x)'
                          \/ \A y \in Things : fetched'[r][q][y].ts < row[q][x].ts
      BY <1>0 DEF PrunesKnow
    <2>2. q \in Queries
      BY <2>1 DEF QCInv, QCTyped, QueryCacheTypeOK
    <2>3. CASE r = p
      <3>1. CASE Live(q, x)
        BY <1>1, <2>1, <2>2, <2>3, <3>1 DEF got
      <3>2. CASE ~Live(q, x)
        <4>1. ~(row[q][x].ts > rowTomb[q])
          BY <2>1, <3>2 DEF Live
        <4>2. row[q][x].ts <= rowTomb[q]
          BY <2>2, <4>1, ColumnFacts
        <4>3. Accounted(q, x)
          BY <2>1, <2>2, <4>2 DEF QCInv, QCKept, HiddenAccounted
        <4>4. QED
          BY <1>12, <2>2, <4>3
      <3>3. QED
        BY <3>1, <3>2
    <2>4. CASE r # p
      BY <1>1, <1>12, <2>1, <2>2, <2>4 DEF QCInv, QCKept, PrunesKnow
    <2>5. QED
      BY <2>3, <2>4
  <1>15. QED
    BY <1>7, <1>8, <1>9, <1>10, <1>11, <1>13, <1>14 DEF QCInv, QCTyped, QCKept

\* _prune works on what was read for one of its queries, or on nothing.
LEMMA DataIs ==
  ASSUME QCInv, NEW p \in Writers, NEW q \in Queries
  PROVE  /\ \/ Data(p, q) = fetched[p][q] /\ q \in toPrune[p]
            \/ Overflow(Data(p, q)) = {}
         /\ Data(p, q) \in [Things -> Column]
  <1>1. Never \in Column /\ Never.val = Gone
    BY DEF Never, Column
  <1>2. Empty \in [Things -> Column] /\ Overflow(Empty) = {}
    BY <1>1 DEF Empty, Overflow, Present
  <1>3. CASE q \in FetchesOf(toPrune[p])
    BY <1>3, ColumnFacts DEF Data, FetchesOf
  <1>4. CASE q \notin FetchesOf(toPrune[p])
    BY <1>2, <1>4 DEF Data
  <1>5. QED
    BY <1>3, <1>4

\* Columns that were read are at most as many as the things.
LEMMA OverflowFinite ==
  ASSUME NEW cols
  PROVE  /\ IsFiniteSet(Present(cols)) /\ IsFiniteSet(Overflow(cols))
         /\ IsFiniteSet(FastPrunable(cols))
         /\ Cardinality(Present(cols)) \in Nat /\ Cardinality(Overflow(cols)) \in Nat
         /\ Cardinality(FastPrunable(cols)) \in Nat
         /\ FastPrunable(cols) \subseteq Overflow(cols) /\ Overflow(cols) \subseteq Present(cols)
         /\ Present(cols) \subseteq Things
  <1>1. /\ Present(cols) \in SUBSET Things /\ Overflow(cols) \in SUBSET Things
        /\ FastPrunable(cols) \in SUBSET Things
    BY DEF Present, Overflow, FastPrunable
  <1>2. IsFiniteSet(Things)
    BY QueryCacheAssumption
  <1>3. QED
    BY <1>1, <1>2, FS_Subset, FS_CardinalityType DEF Present, Overflow, FastPrunable

\* A prune removes a column that it has read and not one that was changed since.
LEMMA PruneColumn ==
  ASSUME QCInv, NEW p \in Writers, Prune(p), NEW q \in Queries, NEW x \in Things
  PROVE  \/ row'[q][x] = row[q][x]
         \/ /\ row'[q][x] = [ts |-> row[q][x].ts, val |-> Gone]
            /\ <<q, x, row[q][x].ts>> \in cut
  <1> DEFINE d == Data(p, q)
             gone == [ts |-> d[x].ts, val |-> Gone]
  <1>1. \/ row'[q][x] = row[q][x]
        \/ x \in RemovedSlowly(d) /\ row'[q][x] = Newer(row[q][x], gone)
    BY DEF Prune, RemoveIfUnchanged
  <1>2. ASSUME x \in RemovedSlowly(d), row'[q][x] = Newer(row[q][x], gone)
        PROVE  \/ row'[q][x] = row[q][x]
               \/ /\ row'[q][x] = [ts |-> row[q][x].ts, val |-> Gone]
                  /\ <<q, x, row[q][x].ts>> \in cut
    <2>1. x \in Overflow(d)
      BY <1>2 DEF RemovedSlowly
    <2>2. d = fetched[p][q]
      BY <2>1, DataIs
    <2>3. <<q, x, d[x].ts>> \in cut /\ d[x].ts <= row[q][x].ts
      BY <2>1, <2>2 DEF QCInv, QCKept, ReadsRecorded
    <2>4. d[x].ts \in Nat /\ row[q][x].ts \in Nat
      BY <2>2, ColumnFacts
    <2>5. gone.ts = d[x].ts
      OBVIOUS
    <2>6. CASE row'[q][x] = row[q][x]
      BY <2>6
    <2>7. CASE row'[q][x] # row[q][x]
      <3>1. row'[q][x] = gone /\ (d[x].ts > row[q][x].ts \/ d[x].ts = row[q][x].ts)
        BY <1>2, <2>5, <2>7 DEF Newer
      <3>2. d[x].ts = row[q][x].ts
        BY <2>3, <2>4, <3>1
      <3>3. QED
        BY <2>3, <3>1, <3>2
    <2>8. QED
      BY <2>6, <2>7
  <1>3. QED
    BY <1>1, <1>2

\* The removal of a row hides nothing that is not accounted for: what was read
\* and kept is newer, and so is what was not read.
LEMMA PruneTomb ==
  ASSUME QCInv, NEW p \in Writers, Prune(p), NEW q \in Queries
  PROVE  /\ rowTomb'[q] \in Nat /\ rowTomb[q] <= rowTomb'[q] /\ rowTomb'[q] <= seen[q]
         /\ \A x \in Things :
              (row[q][x].val # Gone /\ row[q][x].ts <= rowTomb'[q]) => Accounted(q, x)
         /\ (Overflow(Data(p, q)) # {} /\ PrunesFast(Data(p, q))) =>
              \A x \in FastPrunable(Data(p, q)) : Data(p, q)[x].ts <= rowTomb'[q]
  <1> DEFINE d == Data(p, q)
             fast == Overflow(d) # {} /\ PrunesFast(d)
             F == {d[x].ts : x \in FastPrunable(d)}
  <1>0. /\ rowTomb[q] \in Nat /\ seen[q] \in Nat /\ rowTomb[q] <= seen[q]
        /\ \A x \in Things :
              (row[q][x].val # Gone /\ row[q][x].ts <= rowTomb[q]) => Accounted(q, x)
    BY ColumnFacts DEF QCInv, QCTyped, TimesBounded, QCKept, HiddenAccounted
  <1>1. CASE ~fast
    <2>1. rowTomb'[q] = rowTomb[q]
      BY <1>1 DEF Prune
    <2>2. QED
      BY <1>0, <1>1, <2>1
  <1>2. CASE fast
    <2>1. d = fetched[p][q] /\ q \in toPrune[p]
      BY <1>2, DataIs
    <2>2. rowTomb'[q] = Max({rowTomb[q], RemovalTime(d)})
      BY <1>2 DEF Prune
    <2> HIDE DEF d
    <2>3. FastPrunable(d) # {}
      <3>1. 2 * Cardinality(FastPrunable(d)) > Cardinality(Overflow(d))
        BY <1>2 DEF PrunesFast
      <3>2. Cardinality(FastPrunable(d)) # 0
        BY <3>1, OverflowFinite
      <3>3. QED
        BY <3>2, FS_EmptySet
    <2>4. \A x \in Things : d[x].ts \in Nat /\ d[x].ts <= seen[q]
      BY <2>1, ColumnFacts DEF QCInv, QCKept, ReadsRecorded
    <2>5. F \in SUBSET Nat /\ F # {} /\ \A t \in F : t <= seen[q]
      BY <2>3, <2>4, OverflowFinite
    <2>6. RemovalTime(d) \in F /\ \A t \in F : t <= RemovalTime(d)
      BY <1>0, <2>5, MinMaxExist DEF RemovalTime
    <2>7. PICK f \in FastPrunable(d) : RemovalTime(d) = d[f].ts
      BY <2>6
    <2>8. f \in Things /\ d[f].ts < OldestKept(d) /\ f \in Overflow(d)
      BY <2>7, OverflowFinite DEF FastPrunable
    <2>9. RemovalTime(d) \in Nat /\ RemovalTime(d) <= seen[q]
      BY <2>5, <2>6
    <2>10. /\ rowTomb'[q] \in {rowTomb[q], RemovalTime(d)}
           /\ rowTomb[q] <= rowTomb'[q] /\ RemovalTime(d) <= rowTomb'[q]
      <3> DEFINE T == {rowTomb[q], RemovalTime(d)}
      <3>1. T \in SUBSET Nat /\ T # {} /\ \A t \in T : t <= seen[q]
        BY <1>0, <2>9
      <3>2. Max(T) \in T /\ \A t \in T : t <= Max(T)
        BY <1>0, <3>1, MinMaxExist
      <3>3. QED
        BY <2>2, <3>2
    <2>11. ASSUME NEW x \in Things, row[q][x].val # Gone, row[q][x].ts <= RemovalTime(d)
           PROVE  Accounted(q, x)
      <3>0. row[q][x].ts \in Nat /\ qcAt[p] = "prune"
        BY ColumnFacts DEF Prune
      <3>1. \/ row[q][x] = d[x]
            \/ Accounted(q, x)
            \/ \A y \in Things : d[y].ts < row[q][x].ts
        BY <2>1, <2>11, <3>0 DEF QCInv, QCKept, PrunesKnow
      <3>2. CASE \A y \in Things : d[y].ts < row[q][x].ts
        <4>1. d[f].ts < row[q][x].ts
          BY <2>8, <3>2
        <4>2. QED
          BY <2>4, <2>7, <2>8, <2>11, <3>0, <4>1
      <3>3. CASE row[q][x] = d[x]
        <4>1. x \in Present(d)
          BY <2>11, <3>3 DEF Present
        <4>2. CASE x \in Overflow(d)
          BY <2>1, <3>3, <4>2 DEF Accounted, QCInv, QCKept, ReadsRecorded
        <4>3. CASE x \notin Overflow(d)
          <5>1. x \in Kept(d)
            BY <4>1, <4>3 DEF Overflow
          <5> DEFINE K == {d[y].ts : y \in Kept(d)}
          <5>2. K \in SUBSET Nat /\ K # {} /\ \A t \in K : t <= seen[q]
            BY <2>4, <5>1 DEF Kept, Present
          <5>3. OldestKept(d) \in K /\ \A t \in K : OldestKept(d) <= t
            BY <1>0, <5>2, MinMaxExist DEF OldestKept
          <5>4. OldestKept(d) <= d[x].ts /\ OldestKept(d) \in Nat
            BY <5>1, <5>2, <5>3
          <5>5. d[x].ts <= d[f].ts /\ d[f].ts < OldestKept(d)
            BY <2>7, <2>8, <2>11, <3>3
          <5>6. d[x].ts \in Nat /\ d[f].ts \in Nat
            BY <2>4, <2>8
          <5>7. QED
            BY <5>4, <5>5, <5>6
        <4>4. QED
          BY <4>2, <4>3
      <3>4. QED
        BY <3>1, <3>2, <3>3
    <2>12. rowTomb'[q] \in Nat
      BY <1>0, <2>9, <2>10
    <2>13. ASSUME NEW x \in FastPrunable(d) PROVE d[x].ts <= rowTomb'[q]
      <3>1. d[x].ts \in Nat /\ d[x].ts <= RemovalTime(d)
        BY <2>5, <2>6
      <3>2. QED
        BY <2>9, <2>10, <2>12, <3>1
    <2>14. QED
      <3>1. CASE rowTomb'[q] = rowTomb[q]
        BY <1>0, <2>13, <3>1 DEF d
      <3>2. CASE rowTomb'[q] = RemovalTime(d)
        BY <2>9, <2>10, <2>11, <2>13, <3>2 DEF d
      <3>3. QED
        BY <2>10, <3>1, <3>2
  <1>3. QED
    BY <1>1, <1>2

\* A prune removes and hides only what is accounted for.
LEMMA PruneStep ==
  ASSUME QCInv, NEW p \in Writers, Prune(p)
  PROVE  QCInv'
  <1>0. /\ UNCHANGED <<clock, truth, batch, cut, seen, late>>
        /\ toPrune' = [toPrune EXCEPT ![p] = {}]
        /\ fetched' = [fetched EXCEPT ![p] = [q \in Queries |-> Empty]]
        /\ qcAt' = [qcAt EXCEPT ![p] = "open"]
    BY DEF Prune
  <1>1. /\ \A r \in Writers : r # p => /\ fetched'[r] = fetched[r] /\ qcAt'[r] = qcAt[r]
                                       /\ toPrune'[r] = toPrune[r]
        /\ \A q \in Queries : fetched'[p][q] = Empty
        /\ qcAt'[p] = "open"
        /\ \A r \in Writers : BatchOps(r)' = BatchOps(r)
    BY <1>0 DEF QCInv, QCTyped, QueryCacheTypeOK, BatchOps
  <1>2. /\ Never \in Column /\ Never.ts = 0
        /\ Empty \in [Things -> Column] /\ \A x \in Things : Empty[x].ts = 0
        /\ Overflow(Empty) = {}
    BY DEF Never, Column, Empty, Overflow, Present
  <1>3. ASSUME NEW q \in Queries, NEW x \in Things
        PROVE  /\ row'[q][x] \in Column /\ row'[q][x].ts = row[q][x].ts
               /\ row'[q][x].ts \in Nat
               /\ row'[q][x] = row[q][x]
                  \/ (row'[q][x].val = Gone /\ <<q, x, row[q][x].ts>> \in cut)
    <2>1. row[q][x] \in Column /\ row[q][x].ts \in Nat
      BY ColumnFacts
    <2>2. CASE row'[q][x] = row[q][x]
      BY <2>1, <2>2
    <2>3. CASE row'[q][x] = [ts |-> row[q][x].ts, val |-> Gone] /\ <<q, x, row[q][x].ts>> \in cut
      BY <2>1, <2>3 DEF Column
    <2>4. QED
      BY <2>2, <2>3, PruneColumn
  <1>4. QueryCacheTypeOK'
    <2>1. row' \in [Queries -> [Things -> Column]]
      <3>1. \A q \in Queries : row'[q] \in {row[q], RemoveIfUnchanged(row[q], Data(p, q))}
        BY DEF Prune
      <3>2. \A q \in Queries : row'[q] = [x \in Things |-> row'[q][x]]
        BY <3>1, ColumnFacts DEF RemoveIfUnchanged
      <3>3. \A q \in Queries : row'[q] \in [Things -> Column]
        BY <1>3, <3>2
      <3>4. DOMAIN row' = Queries /\ row' = [q \in Queries |-> row'[q]]
        BY DEF Prune
      <3>5. QED
        BY <3>3, <3>4
    <2>2. rowTomb' \in [Queries -> Nat]
      <3>1. rowTomb' = [q \in Queries |-> rowTomb'[q]]
        BY DEF Prune
      <3>2. QED
        BY <3>1, PruneTomb
    <2>3. /\ toPrune' \in [Writers -> SUBSET Queries]
          /\ fetched' \in [Writers -> [Queries -> [Things -> Column]]]
          /\ qcAt' \in [Writers -> {"open", "fetch", "prune"}]
      BY <1>0, <1>2 DEF QCInv, QCTyped, QueryCacheTypeOK
    <2>4. QED
      BY <1>0, <2>1, <2>2, <2>3 DEF QCInv, QCTyped, QueryCacheTypeOK
  <1>5. TimesBounded'
    <2>1. \A q \in Queries : rowTomb'[q] <= seen[q]
      BY PruneTomb
    <2>2. QED
      BY <1>0, <1>1, <1>3, <2>1 DEF QCInv, QCTyped, TimesBounded
  <1>6. TimesUnique'
    <2>1. TimesUnique
      BY DEF QCInv, QCKept
    <2>2. ASSUME NEW r \in Writers, NEW s \in Writers, r # s,
                 NEW op \in BatchOps(r)', NEW o \in BatchOps(s)'
          PROVE  op.ts # o.ts
      <3>1. op \in BatchOps(r) /\ o \in BatchOps(s)
        BY <1>1, <2>2
      <3>2. QED
        BY <2>1, <2>2, <3>1 DEF TimesUnique
    <2>3. ASSUME NEW r \in Writers, NEW op \in BatchOps(r)', NEW q \in Queries
          PROVE  op.ts # seen'[q] /\ \A x \in Things : row'[q][x].ts # op.ts
      <3>1. op \in BatchOps(r) /\ seen'[q] = seen[q]
        BY <1>0, <1>1, <2>3
      <3>2. op.ts # seen[q] /\ \A x \in Things : row[q][x].ts # op.ts
        BY <2>1, <3>1 DEF TimesUnique
      <3>3. QED
        BY <1>3, <3>1, <3>2
    <2>4. QED
      BY <2>2, <2>3 DEF TimesUnique
  <1>7. RowIsTruth'
    <2>1. ASSUME NEW q \in Queries, NEW x \in Things
          PROVE  /\ row'[q][x].ts = truth'[q][x].ts
                 /\ \/ row'[q][x] = truth'[q][x]
                    \/ row'[q][x].val = Gone /\ <<q, x, row'[q][x].ts>> \in cut'
      <3>1. /\ row[q][x].ts = truth[q][x].ts
            /\ \/ row[q][x] = truth[q][x]
               \/ row[q][x].val = Gone /\ <<q, x, row[q][x].ts>> \in cut
        BY DEF QCInv, QCKept, RowIsTruth
      <3>2. QED
        BY <1>0, <1>3, <3>1
    <2>2. QED
      BY <2>1 DEF RowIsTruth
  <1>8. ReadsRecorded'
    <2>1. ASSUME NEW r \in Writers, NEW q \in Queries, NEW x \in Things
          PROVE  fetched'[r][q][x].ts <= row'[q][x].ts /\ fetched'[r][q][x].ts <= seen[q]
      <3>1. CASE r = p
        <4>1. fetched'[r][q][x].ts = 0 /\ seen[q] \in Nat
          BY <1>1, <1>2, <3>1, ColumnFacts
        <4>2. \A n \in Nat : 0 <= n
          OBVIOUS
        <4>3. row'[q][x].ts \in Nat
          BY <1>3
        <4>4. QED
          BY <4>1, <4>2, <4>3
      <3>2. CASE r # p
        <4>1. fetched'[r] = fetched[r] /\ row'[q][x].ts = row[q][x].ts
          BY <1>1, <1>3, <3>2
        <4>2. QED
          BY <4>1 DEF QCInv, QCKept, ReadsRecorded
      <3>3. QED
        BY <3>1, <3>2
    <2>2. ASSUME NEW r \in Writers, NEW q \in Queries, NEW x \in Overflow(fetched'[r][q])
          PROVE  <<q, x, fetched'[r][q][x].ts>> \in cut
      <3>1. r # p
        BY <1>1, <1>2, <2>2
      <3>2. QED
        BY <1>1, <2>2, <3>1 DEF QCInv, QCKept, ReadsRecorded
    <2>3. QED
      BY <1>0, <2>1, <2>2 DEF ReadsRecorded
  <1>9. \A q \in Queries, x \in Things : Accounted(q, x)' <=> Accounted(q, x)
    BY <1>0, <1>3 DEF Accounted
  <1>10. HiddenAccounted'
    <2>1. SUFFICES ASSUME NEW q \in Queries, NEW x \in Things, row'[q][x].val # Gone,
                          row'[q][x].ts <= rowTomb'[q]
                   PROVE  Accounted(q, x)
      BY <1>9 DEF HiddenAccounted
    <2>2. row'[q][x] = row[q][x]
      BY <1>3, <2>1
    <2>3. QED
      BY <2>1, <2>2, PruneTomb
  <1>11. PrunesKnow'
    <2>1. SUFFICES ASSUME NEW r \in Writers, qcAt'[r] = "prune", NEW q \in toPrune'[r],
                          NEW x \in Things, row'[q][x].val # Gone
                   PROVE  \/ row'[q][x] = fetched'[r][q][x]
                          \/ Accounted(q, x)'
                          \/ \A y \in Things : fetched'[r][q][y].ts < row'[q][x].ts
      BY DEF PrunesKnow
    <2>2. r # p /\ qcAt[r] = "prune" /\ q \in toPrune[r] /\ fetched'[r] = fetched[r]
          /\ q \in Queries
      BY <1>1, <2>1 DEF QCInv, QCTyped, QueryCacheTypeOK
    <2>3. row'[q][x] = row[q][x]
      BY <1>3, <2>1, <2>2
    <2>4. QED
      BY <1>9, <2>1, <2>2, <2>3 DEF QCInv, QCKept, PrunesKnow
  <1>12. QED
    BY <1>4, <1>5, <1>6, <1>7, <1>8, <1>10, <1>11 DEF QCInv, QCTyped, QCKept

\* The invariant holds at first.
LEMMA QCInitially ==
  ASSUME QueryCacheInit
  PROVE  QCInv
  <1>1. /\ Never \in Column /\ Never.ts = 0 /\ Never.val = Gone
        /\ Empty \in [Things -> Column] /\ \A x \in Things : Empty[x] = Never
        /\ Overflow(Empty) = {}
    BY DEF Never, Column, Empty, Overflow, Present
  <1>2. /\ \A q \in Queries : row[q] = Empty /\ truth[q] = Empty /\ rowTomb[q] = 0 /\ seen[q] = 0
        /\ \A p \in Writers : batch[p] = <<>> /\ qcAt[p] = "open" /\ toPrune[p] = {}
        /\ \A p \in Writers, q \in Queries : fetched[p][q] = Empty
        /\ clock = 0
    BY DEF QueryCacheInit
  <1>3. \A p \in Writers : BatchOps(p) = {}
    BY <1>2 DEF BatchOps, Range
  <1>4. QueryCacheTypeOK
    BY <1>1 DEF QueryCacheInit, QueryCacheTypeOK
  <1>5. TimesBounded
    BY <1>1, <1>2, <1>3 DEF TimesBounded
  <1>6. TimesUnique
    BY <1>3 DEF TimesUnique
  <1>7. RowIsTruth
    BY <1>2 DEF RowIsTruth
  <1>8. ReadsRecorded
    BY <1>1, <1>2 DEF ReadsRecorded
  <1>9. HiddenAccounted
    BY <1>1, <1>2 DEF HiddenAccounted
  <1>10. PrunesKnow
    BY <1>2 DEF PrunesKnow
  <1>11. QED
    BY <1>4, <1>5, <1>6, <1>7, <1>8, <1>9, <1>10 DEF QCInv, QCTyped, QCKept

\* Every step keeps it.
LEMMA QCStep ==
  ASSUME QCInv, [QueryCacheNext]_qcVars
  PROVE  QCInv'
  <1>0. toPrune \in [Writers -> SUBSET Queries]
    BY DEF QCInv, QCTyped, QueryCacheTypeOK
  <1>1. ASSUME NEW p \in Writers, NEW q \in Queries, NEW x \in Things, NEW v \in SortValues,
               Insert(p, q, x, v)
        PROVE  QCInv'
    <2>1. toPrune' = [toPrune EXCEPT ![p] = @ \cup {q}] \/ toPrune' = [toPrune EXCEPT ![p] = @]
      BY <1>1 DEF Insert
    <2>2. /\ toPrune' \in [Writers -> SUBSET Queries]
          /\ \A r \in Writers : r # p => toPrune'[r] = toPrune[r]
      BY <1>0, <2>1
    <2>3. QED
      BY <1>1, <2>2, EnqueueStep DEF Insert
  <1>2. ASSUME NEW p \in Writers, NEW q \in Queries, NEW x \in Things, Delete(p, q, x)
        PROVE  QCInv'
    BY <1>0, <1>2, EnqueueStep DEF Delete
  <1>3. ASSUME UNCHANGED qcVars PROVE QCInv'
    BY <1>3 DEF qcVars, QCInv, QCTyped, QCKept, QueryCacheTypeOK, TimesBounded, TimesUnique,
                RowIsTruth, ReadsRecorded, HiddenAccounted, PrunesKnow, BatchOps, Accounted
  <1>4. QED
    BY <1>1, <1>2, <1>3, SendStep, FetchStep, PruneStep DEF QueryCacheNext

\* So it always holds.
LEMMA QCInvariant == QueryCacheSpec => []QCInv
  BY QCInitially, QCStep, PTL DEF QueryCacheSpec

(***************************************************************************)
(* Mutators, rows and prunes stay within their types.                      *)
(***************************************************************************)
THEOREM QueryCacheTypeCorrect == QueryCacheSpec => []QueryCacheTypeOK
  <1>1. QCInv => QueryCacheTypeOK
    BY DEF QCInv, QCTyped
  <1>2. QED
    BY <1>1, QCInvariant, PTL

(***************************************************************************)
(* query_cache.py:618 "If the things have been changed since the specified *)
(* timestamps, they will not be removed", for any number of processes,     *)
(* queries and things and for every size of the cache: a row shows the     *)
(* newest change of each thing, and hides one only if a prune saw this     *)
(* version of it beyond MAX_CACHED_ITEMS, or it was sent after a prune had *)
(* read later ones.                                                        *)
(***************************************************************************)
THEOREM ChangesAreShown == QueryCacheSpec => []QueryShowsChanges
  <1>1. ASSUME QCInv PROVE QueryShowsChanges
    <2>1. ASSUME NEW q \in Queries, NEW x \in Things
          PROVE  IF Live(q, x) THEN row[q][x] = truth[q][x]
                 ELSE truth[q][x].val # Gone => <<q, x, truth[q][x].ts>> \in cut \cup late
      <3>1. /\ row[q][x].ts = truth[q][x].ts
            /\ row[q][x] = truth[q][x] \/ (row[q][x].val = Gone /\ <<q, x, row[q][x].ts>> \in cut)
        BY <1>1 DEF QCInv, QCKept, RowIsTruth
      <3>2. row[q][x].ts \in Nat /\ rowTomb[q] \in Nat
        BY <1>1, ColumnFacts
      <3>3. CASE row[q][x] = truth[q][x] /\ row[q][x].val # Gone /\ row[q][x].ts <= rowTomb[q]
        <4>1. Accounted(q, x)
          BY <1>1, <3>3 DEF QCInv, QCKept, HiddenAccounted
        <4>2. ~Live(q, x)
          BY <3>2, <3>3 DEF Live
        <4>3. QED
          BY <3>1, <4>1, <4>2 DEF Accounted
      <3>4. CASE row[q][x] = truth[q][x] /\ ~(row[q][x].val # Gone /\ row[q][x].ts <= rowTomb[q])
        <4>1. Live(q, x) \/ row[q][x].val = Gone
          BY <3>2, <3>4 DEF Live
        <4>2. QED
          BY <3>4, <4>1 DEF Live
      <3>5. CASE row[q][x].val = Gone /\ <<q, x, row[q][x].ts>> \in cut
        <4>1. ~Live(q, x) /\ <<q, x, truth[q][x].ts>> \in cut
          BY <3>1, <3>5 DEF Live
        <4>2. QED
          BY <4>1
      <3>6. QED
        BY <3>1, <3>3, <3>4, <3>5
    <2>2. QED
      BY <2>1 DEF QueryShowsChanges
  <1>2. QED
    BY <1>1, QCInvariant, PTL

\* With one model in use, _fetch_multi gives every query what was read for it.
LEMMA OneModelIsRead ==
  ASSUME \A q, r \in Queries : ModelOf[q] = ModelOf[r],
         QCInv, NEW p \in Writers, NEW q \in toPrune[p]
  PROVE  Data(p, q) = fetched[p][q]
  <1> DEFINE I == {i \in DOMAIN ModelOrder : \E r \in toPrune[p] : ModelOf[r] = ModelOrder[i]}
  <1>1. toPrune[p] \in SUBSET Queries
    BY DEF QCInv, QCTyped, QueryCacheTypeOK
  <1>2. ModelOf[q] \in Range(ModelOrder)
    BY <1>1, QueryCacheAssumption
  <1>3. PICK i \in DOMAIN ModelOrder : ModelOf[q] = ModelOrder[i]
    BY <1>2 DEF Range
  <1>4. DOMAIN ModelOrder = 1..Len(ModelOrder) /\ Len(ModelOrder) \in Nat
    <2>1. ModelOrder \in Seq(Range(ModelOrder))
      BY QueryCacheAssumption
    <2>2. QED
      BY <2>1
  <1>5. I \in SUBSET Nat /\ I # {} /\ \A j \in I : j <= Len(ModelOrder)
    BY <1>3, <1>4
  <1>6. Max(I) \in I
    BY <1>4, <1>5, MinMaxExist
  <1>7. PICK r \in toPrune[p] : ModelOf[r] = ModelOrder[Max(I)]
    BY <1>6
  <1>8. ModelOf[q] = ModelOrder[Max(I)]
    BY <1>1, <1>7
  <1>9. q \in FetchesOf(toPrune[p])
    BY <1>8 DEF FetchesOf
  <1>10. QED
    BY <1>9 DEF Data

\* _sort_data sorts by a total order, and Position counts from 0 in it.
LEMMA PositionsOrder ==
  ASSUME NEW cols \in [Things -> Column]
  PROVE  \E R : /\ Orders(R, Present(cols))
                /\ \A x \in Present(cols) : /\ Position(cols, x) \in Nat
                                            /\ Place(R, Present(cols), x) = Position(cols, x) + 1
  <1> DEFINE P == Present(cols)
             R == {ab \in Things \X Things : ab[1] = ab[2] \/ Before(cols, ab[1], ab[2])}
  <1>1. ASSUME NEW x \in P PROVE x \in Things /\ x \in Nat /\ cols[x].val \in Nat
    <2>1. x \in Things /\ cols[x].val # Gone /\ cols[x] \in Column
      BY DEF Present
    <2>2. cols[x].val \in SortValues
      BY <2>1 DEF Column
    <2>3. QED
      BY <2>1, <2>2, QueryCacheAssumption
  <1>2. \A a, b \in P : <<a, b>> \in R <=> a = b \/ Before(cols, a, b)
    BY <1>1
  <1> HIDE DEF R
  <1>3. \A a, b \in P : a = b \/ Before(cols, a, b) \/ Before(cols, b, a)
    BY <1>1 DEF Before
  <1>4. \A a, b \in P : ~(Before(cols, a, b) /\ Before(cols, b, a))
    BY <1>1 DEF Before
  <1>5. \A a, b, c \in P : Before(cols, a, b) /\ Before(cols, b, c) => Before(cols, a, c)
    BY <1>1 DEF Before
  <1>6. Orders(R, P)
    BY <1>2, <1>3, <1>4, <1>5 DEF Orders
  <1>7. ASSUME NEW x \in P
        PROVE  Position(cols, x) \in Nat /\ Place(R, P, x) = Position(cols, x) + 1
    <2> DEFINE B == {y \in P : Before(cols, y, x)}
    <2>1. {e \in P : <<e, x>> \in R} = B \cup {x}
      BY <1>2
    <2>2. x \notin B
      BY <1>4
    <2>3. B \in SUBSET P /\ IsFiniteSet(P)
      BY OverflowFinite
    <2>4. IsFiniteSet(B) /\ Cardinality(B) \in Nat
      BY <2>3, FS_Subset, FS_CardinalityType
    <2>5. Cardinality(B \cup {x}) = Cardinality(B) + 1
      BY <2>2, <2>4, FS_AddElement
    <2>6. QED
      BY <2>1, <2>4, <2>5 DEF Place, Position
  <1>8. QED
    BY <1>6, <1>7

\* to_prune[-prune_size:] is all of to_prune, or prune_size of it.
LEMMA SlowlyIsEnough ==
  ASSUME NEW cols \in [Things -> Column]
  PROVE  \/ RemovedSlowly(cols) = Overflow(cols)
         \/ Cardinality(RemovedSlowly(cols)) >= PruneSize
  <1> DEFINE P == Present(cols)
             n == Cardinality(P) - PruneSize
  <1>0. /\ PruneSize \in Nat /\ MaxCachedItems \in Nat /\ Cardinality(P) \in Nat /\ IsFiniteSet(P)
        /\ n \in Int
    BY QueryCacheAssumption, OverflowFinite
  <1>1. PICK R : /\ Orders(R, P)
                 /\ \A x \in P : /\ Position(cols, x) \in Nat
                                 /\ Place(R, P, x) = Position(cols, x) + 1
    BY PositionsOrder
  <1>2. Overflow(cols) = {x \in P : Position(cols, x) >= MaxCachedItems}
    BY <1>0, <1>1 DEF Overflow, Kept
  <1>3. RemovedSlowly(cols) = {x \in Overflow(cols) : Position(cols, x) >= n}
    BY DEF RemovedSlowly
  <1>4. CASE n >= MaxCachedItems
    <2> DEFINE T == {x \in P : Place(R, P, x) <= n}
    <2>1. n \in Nat /\ n <= Cardinality(P)
      BY <1>0, <1>4
    <2>2. Cardinality(T) = n
      BY <1>0, <1>1, <2>1, FirstPlaces
    <2>3. \A x \in P : Position(cols, x) >= n <=> ~(Place(R, P, x) <= n)
      BY <1>1, <2>1
    <2>4. \A x \in P : Position(cols, x) >= n => Position(cols, x) >= MaxCachedItems
      BY <1>0, <1>1, <1>4, <2>1
    <2>5. RemovedSlowly(cols) = P \ T
      BY <1>2, <1>3, <2>3, <2>4
    <2>6. Cardinality(P \ T) = Cardinality(P) - Cardinality(P \cap T)
      BY <1>0, FS_Difference
    <2>7. P \cap T = T
      OBVIOUS
    <2>8. Cardinality(P \ T) = Cardinality(P) - n
      BY <2>2, <2>6, <2>7
    <2>9. QED
      BY <1>0, <2>5, <2>8
  <1>5. CASE ~(n >= MaxCachedItems)
    <2>1. \A x \in P : Position(cols, x) >= MaxCachedItems => Position(cols, x) >= n
      BY <1>0, <1>1, <1>5
    <2>2. QED
      BY <1>2, <1>3, <2>1
  <1>6. QED
    BY <1>4, <1>5

\* What a prune does to one query.
LEMMA PruneRemovesEnough ==
  ASSUME \A q, r \in Queries : ModelOf[q] = ModelOf[r],
         QCInv, NEW p \in Writers, Prune(p), NEW q \in toPrune[p],
         NEW over, over = Overflow(fetched[p][q]),
         NEW gone, gone = {x \in over : row'[q][x] # fetched[p][q][x] \/ ~Live(q, x)'}
  PROVE  \/ over = {}
         \/ 2 * Cardinality(gone) > Cardinality(over)
         \/ Cardinality(gone) >= PruneSize
  <1> DEFINE d == fetched[p][q]
  <1>0. q \in Queries
    BY DEF QCInv, QCTyped, QueryCacheTypeOK
  <1>1. /\ d = Data(p, q) /\ d \in [Things -> Column]
        /\ \A x \in Things : /\ d[x].ts \in Nat
                             /\ row[q][x] \in Column /\ row[q][x].ts \in Nat
    BY <1>0, OneModelIsRead, ColumnFacts
  <1>2. /\ over \subseteq Things /\ IsFiniteSet(over) /\ Cardinality(over) \in Nat
        /\ \A x \in over : d[x].val # Gone
    BY OverflowFinite DEF Overflow, Present
  <1>3. IsFiniteSet(gone) /\ Cardinality(gone) \in Nat /\ gone \in SUBSET over
    BY <1>2, FS_Subset, FS_CardinalityType
  <1>4. PruneSize \in Nat
    BY QueryCacheAssumption
  <1>5. CASE over # {} /\ PrunesFast(d)
    <2>1. row'[q] = row[q]
      BY <1>0, <1>1, <1>5 DEF Prune
    <2>2. rowTomb'[q] \in Nat /\ \A x \in FastPrunable(d) : d[x].ts <= rowTomb'[q]
      BY <1>0, <1>1, <1>5, PruneTomb
    <2>3. FastPrunable(d) \in SUBSET gone
      <3>1. ASSUME NEW x \in FastPrunable(d) PROVE x \in gone
        <4>1. x \in over /\ x \in Things
          BY <1>2, OverflowFinite
        <4>2. CASE row'[q][x] = d[x]
          <5>1. row'[q][x].ts \in Nat /\ row'[q][x].ts <= rowTomb'[q]
            BY <1>1, <2>2, <4>1, <4>2
          <5>2. ~(row'[q][x].ts > rowTomb'[q])
            BY <2>2, <5>1
          <5>3. ~Live(q, x)'
            BY <5>2 DEF Live
          <5>4. QED
            BY <4>1, <5>3
        <4>3. CASE row'[q][x] # d[x]
          BY <4>1, <4>3
        <4>4. QED
          BY <4>2, <4>3
      <3>2. QED
        BY <3>1
    <2>4. Cardinality(FastPrunable(d)) <= Cardinality(gone)
      BY <1>3, <2>3, FS_Subset
    <2>5. 2 * Cardinality(FastPrunable(d)) > Cardinality(over)
      BY <1>5 DEF PrunesFast
    <2>6. QED
      BY <1>2, <1>3, <2>4, <2>5, OverflowFinite
  <1>6. CASE over # {} /\ ~PrunesFast(d)
    <2>1. row'[q] = RemoveIfUnchanged(row[q], d)
      BY <1>0, <1>1, <1>6 DEF Prune
    <2>2. ASSUME NEW x \in RemovedSlowly(d) PROVE x \in gone
      <3> DEFINE del == [ts |-> d[x].ts, val |-> Gone]
      <3>1. x \in over /\ x \in Things /\ d[x].val # Gone
        BY <1>2 DEF RemovedSlowly
      <3>2. row'[q][x] = Newer(row[q][x], del)
        BY <2>1, <3>1 DEF RemoveIfUnchanged
      <3>3. CASE row'[q][x] = del
        BY <3>1, <3>3
      <3>4. CASE row'[q][x] # del
        <4>1. /\ row'[q][x] = row[q][x]
              /\ ~(d[x].ts > row[q][x].ts) /\ d[x].ts # row[q][x].ts
          BY <3>2, <3>4 DEF Newer
        <4>2. row'[q][x] # d[x]
          BY <4>1
        <4>3. QED
          BY <3>1, <4>2
      <3>5. QED
        BY <3>3, <3>4
    <2>3. RemovedSlowly(d) \in SUBSET gone
      BY <2>2
    <2>4. Cardinality(RemovedSlowly(d)) <= Cardinality(gone) /\ IsFiniteSet(RemovedSlowly(d))
      BY <1>3, <2>3, FS_Subset
    <2>5. Cardinality(RemovedSlowly(d)) \in Nat
      BY <2>4, FS_CardinalityType
    <2>6. CASE RemovedSlowly(d) = Overflow(d)
      <3>1. gone = over
        BY <1>3, <2>3, <2>6
      <3>2. Cardinality(over) # 0
        BY <1>2, <1>6, FS_EmptySet
      <3>3. QED
        BY <1>2, <3>1, <3>2
    <2>7. CASE Cardinality(RemovedSlowly(d)) >= PruneSize
      BY <1>3, <1>4, <2>4, <2>5, <2>7
    <2>8. QED
      BY <1>1, <2>6, <2>7, SlowlyIsEnough
  <1>7. QED
    BY <1>5, <1>6

(***************************************************************************)
(* query_cache.py:123 "we need to ensure the listing does not grow too     *)
(* large", for every prune_size and MAX_CACHED_ITEMS: a prune takes away   *)
(* more than half of what it read beyond the limit, or prune_size of it.   *)
(* The hypothesis is needed: the loop of _fetch_multi over models rebinds  *)
(* "queries", and only those of the last model are given what was read.    *)
(***************************************************************************)
THEOREM PrunesRemoveEnough ==
  ASSUME \A q, r \in Queries : ModelOf[q] = ModelOf[r]
  PROVE  QueryCacheSpec => PruneShrinks
  <1> DEFINE Over(p, q) == Overflow(fetched[p][q])
             Removed(p, q) == {x \in Over(p, q) : row'[q][x] # fetched[p][q][x] \/ ~Live(q, x)'}
             Shrunk == \A p \in Writers, q \in Queries :
               (qcAt[p] = "prune" /\ qcAt'[p] = "open" /\ q \in toPrune[p]) =>
                  LET over == Overflow(fetched[p][q])
                      gone == {x \in over : row'[q][x] # fetched[p][q][x] \/ ~Live(q, x)'}
                  IN  \/ over = {}
                      \/ 2 * Cardinality(gone) > Cardinality(over)
                      \/ Cardinality(gone) >= PruneSize
  <1>1. ASSUME QCInv, [QueryCacheNext]_qcVars, NEW p \in Writers, qcAt[p] = "prune",
               qcAt'[p] = "open"
        PROVE  Prune(p)
    <2>0. qcAt \in [Writers -> {"open", "fetch", "prune"}]
      BY <1>1 DEF QCInv, QCTyped, QueryCacheTypeOK
    <2>1. qcAt' # qcAt
      BY <1>1
    <2>2. PICK r \in Writers : \/ \E q \in Queries, x \in Things :
                                    (\E v \in SortValues : Insert(r, q, x, v)) \/ Delete(r, q, x)
                               \/ Send(r) \/ Fetch(r) \/ Prune(r)
      BY <1>1, <2>1 DEF QueryCacheNext, qcVars
    <2>3. \A q \in Queries, x \in Things :
            ~Delete(r, q, x) /\ \A v \in SortValues : ~Insert(r, q, x, v)
      BY <2>1 DEF Insert, Delete
    <2>4. ~Send(r)
      BY <1>1, <2>0 DEF Send
    <2>5. ~Fetch(r)
      BY <1>1, <2>0 DEF Fetch
    <2>6. Prune(r) => r = p
      BY <1>1, <2>0 DEF Prune
    <2>7. QED
      BY <2>2, <2>3, <2>4, <2>5, <2>6
  <1>2. QCInv /\ [QueryCacheNext]_qcVars => [Shrunk]_qcVars
    <2>1. SUFFICES ASSUME QCInv, [QueryCacheNext]_qcVars, NEW p \in Writers, NEW q \in toPrune[p],
                          qcAt[p] = "prune", qcAt'[p] = "open"
                   PROVE  \/ Over(p, q) = {}
                          \/ 2 * Cardinality(Removed(p, q)) > Cardinality(Over(p, q))
                          \/ Cardinality(Removed(p, q)) >= PruneSize
      OBVIOUS
    <2>2. Prune(p)
      BY <1>1, <2>1
    <2>3. QED
      BY <2>1, <2>2, PruneRemovesEnough
  <1>3. QED
    BY <1>2, QCInvariant, PTL DEF QueryCacheSpec, PruneShrinks

=============================================================================
