------------------------- MODULE DcdExtents_proofs -------------------------
(***************************************************************************)
(* Proofs about DcdExtents for every size of the lists, every sequence of  *)
(* offers and every set of extent lists the host may send.                 *)
(***************************************************************************)
EXTENDS DcdExtents, Counting, FiniteSetTheorems, TLAPS

LEMMA CopiesType ==
    ASSUME NEW list \in Seq(Extents), NEW k \in Nat, NEW x
    PROVE  /\ CopiesIn(list, k, x) \in Nat
           /\ IsFiniteSet({i \in 1 .. k : list[i] = x})
<1>1. IsFiniteSet(1 .. k)
  BY FS_Interval
<1> QED  BY <1>1, FS_Subset, FS_CardinalityType DEF CopiesIn

\* A release removes no more copies of an extent than are recorded.
LEMMA GoneBound ==
    ASSUME TypeOK, NEW list \in Seq(Extents), NEW k \in 0 .. Len(list),
           NEW x \in Extents
    PROVE  /\ Cardinality({i \in Found(list, k) : list[i] = x}) \in Nat
           /\ Cardinality({i \in Found(list, k) : list[i] = x}) <= accepted[x]
           /\ Cardinality(Found(list, k)) \in Nat
<1> DEFINE S == {i \in 1 .. k : list[i] = x}
           R == {i \in S : Rank(S, i) <= accepted[x]}
<1>1. k \in Nat /\ accepted[x] \in Nat /\ S \in SUBSET (1 .. k)
  BY DEF TypeOK
<1>2. IsFiniteSet(R) /\ Cardinality(R) \in Nat /\ Cardinality(R) <= accepted[x]
  BY <1>1, RankBound
<1>3. {i \in Found(list, k) : list[i] = x} = R
  <2>1. \A i \in S : Rank(S, i) = CopiesIn(list, i, x)
    <3> SUFFICES ASSUME NEW i \in S
                 PROVE  {j \in 1 .. i : j \in S} = {j \in 1 .. i : list[j] = x}
      BY DEF Rank, CopiesIn
    <3>1. i \in 1 .. k /\ 1 .. i \subseteq 1 .. k
      BY <1>1
    <3> QED  BY <3>1
  <2> QED  BY <2>1 DEF Found
<1>4. IsFiniteSet(1 .. k) /\ Found(list, k) \in SUBSET (1 .. k)
  BY <1>1, FS_Interval DEF Found
<1>5. Cardinality(Found(list, k)) \in Nat
  BY <1>4, FS_Subset, FS_CardinalityType
<1> QED  BY <1>2, <1>3, <1>5

\* The gaps reclaimed at the close of an offer fit into the free list.
LEMMA ReclaimBound ==
    ASSUME TypeOK, NEW list \in Seq(Extents)
    PROVE  /\ Cardinality(ReclaimedGaps(list)) \in Nat
           /\ Cardinality(ReclaimedGaps(list)) <= MaxFreeExtents - freeCount
<1> DEFINE S == {i \in 1 .. Len(list) + 1 : IsGap(list, i)}
           b == MaxFreeExtents - freeCount
           R == {i \in S : Rank(S, i) <= b}
<1>1. /\ Len(list) + 1 \in Nat /\ b \in Nat
      /\ S \in SUBSET (1 .. Len(list) + 1)
      /\ MaxFreeExtents \in Nat /\ freeCount \in Nat
  BY SizesAssumption DEF TypeOK
<1>2. IsFiniteSet(R) /\ Cardinality(R) \in Nat /\ Cardinality(R) <= b
  BY <1>1, RankBound
<1>3. ReclaimedGaps(list) = R
  <2>1. ASSUME NEW i \in S
        PROVE  /\ Rank(S, i) = Cardinality({j \in 1 .. i : IsGap(list, j)})
               /\ Rank(S, i) \in Nat
    <3>1. i \in 1 .. Len(list) + 1 /\ 1 .. i \subseteq 1 .. Len(list) + 1
      BY <1>1
    <3>2. {j \in 1 .. i : j \in S} = {j \in 1 .. i : IsGap(list, j)}
      BY <3>1
    <3> QED  BY <3>1, <3>2, <1>1, RankType DEF Rank
  <2>2. \A i \in S : Rank(S, i) <= b <=>
          freeCount + Cardinality({j \in 1 .. i : IsGap(list, j)}) <= MaxFreeExtents
    BY <2>1, <1>1
  <2> QED  BY <2>2 DEF ReclaimedGaps
<1> QED  BY <1>2, <1>3

\* Addresses computed by the commands are numbers.
LEMMA GapType ==
    ASSUME NEW list \in Seq(Extents), NEW i \in 1 .. Len(list) + 1,
           expected \in DOMAIN Offers
    PROVE  Gap(list, i) \in [start : Int, length : Int]
<1>1. Offers[expected] \in Offer
  BY OffersAssumption
<1>2. \A j \in 1 .. Len(list) : list[j] \in Extent
  BY HostAssumption
<1>3. \A n \in Nat : n % DpaSpace \in Int
  BY SizesAssumption
<1>4. \A x \in Extent : End(x) \in Int
  BY <1>3 DEF End, Extent
<1>5. End(Offers[expected]) \in Int
  BY <1>1, <1>3 DEF End, Offer
<1>6. GapStart(list, i) \in Int
  <2>1. CASE i = 1  BY <2>1, <1>1 DEF GapStart, Offer
  <2>2. CASE i # 1
    <3>1. i - 1 \in 1 .. Len(list)  BY <2>2
    <3> QED  BY <2>2, <3>1, <1>2, <1>4 DEF GapStart
  <2> QED  BY <2>1, <2>2
<1>7. GapEnd(list, i) \in Int
  <2>1. CASE i > Len(list)  BY <2>1, <1>5 DEF GapEnd
  <2>2. CASE i <= Len(list)
    <3>1. i \in 1 .. Len(list)  BY <2>2
    <3> QED  BY <2>2, <3>1, <1>2 DEF GapEnd, Extent
  <2> QED  BY <2>1, <2>2
<1> QED  BY <1>6, <1>7 DEF Gap

-----------------------------------------------------------------------------
(* The type invariant.                                                     *)

LEMMA TypeInit == Init => TypeOK
<1>1. IsFiniteSet({}) /\ Len(Offers) \in Nat
  BY OffersAssumption, FS_EmptySet
<1> QED  BY <1>1, SizesAssumption DEF Init, TypeOK

LEMMA TypeAddResponse ==
    ASSUME TypeOK, NEW list \in Lists, NEW more \in BOOLEAN, AddResponse(list, more)
    PROVE  TypeOK'
<1>1. list \in Seq(Extents) /\ Len(list) \in Nat
  BY HostAssumption
<1>2. expected \in DOMAIN Offers /\ Len(Offers) \in Nat /\ DOMAIN Offers = 1 .. Len(Offers)
  BY OffersAssumption DEF AddResponse, AwaitingResponse
<1>3. PICK k \in 0 .. Len(list) :
        /\ RecordsFirst(list, k)
        /\ accepted' = [x \in Extents |-> accepted[x] + CopiesIn(list, k, x)]
        /\ acceptedCount' = acceptedCount + k
        /\ IF k = Len(list) /\ ~more
           THEN /\ ReclaimUnusedCapacity(list)
                /\ processed' = [processed EXCEPT ![expected] = TRUE]
                /\ expected' = expected + 1
           ELSE UNCHANGED <<expected, processed, free, freeCount>>
  BY DEF AddResponse
<1>4. accepted' \in [Extents -> Nat]
  <2>1. \A x \in Extents : accepted[x] \in Nat /\ CopiesIn(list, k, x) \in Nat
    <3>1. k \in Nat  BY <1>1
    <3>2. \A x : CopiesIn(list, k, x) \in Nat  BY <1>1, <3>1, CopiesType
    <3> QED  BY <3>2 DEF TypeOK
  <2> QED  BY <1>3, <2>1
<1>5. acceptedCount' \in Int /\ acceptedCount' <= MaxExtents
  <2>1. CASE k = 0  BY <2>1, <1>3 DEF TypeOK
  <2>2. CASE k > 0
    <3>1. Acceptable(list, k)
      BY <2>2, <1>1, <1>3 DEF RecordsFirst
    <3>2. acceptedCount + k <= MaxExtents
      BY <3>1 DEF Acceptable
    <3> QED  BY <3>2, <1>3 DEF TypeOK
  <2> QED  BY <2>1, <2>2, <1>1
<1>6. expected' \in 1 .. Len(Offers) + 1 /\ processed' \in [DOMAIN Offers -> BOOLEAN]
  <2>1. CASE /\ processed' = [processed EXCEPT ![expected] = TRUE]
             /\ expected' = expected + 1
    <3>1. processed' \in [DOMAIN Offers -> BOOLEAN]
      BY <2>1, Zenon DEF TypeOK
    <3> QED  BY <2>1, <3>1, <1>2 DEF TypeOK
  <2>2. CASE UNCHANGED <<expected, processed>>
    BY <2>2 DEF TypeOK
  <2> QED  BY <2>1, <2>2, <1>3
<1>7. free' \subseteq [start : Int, length : Int] /\ freeCount' \in 0 .. MaxFreeExtents
  <2>1. CASE ReclaimUnusedCapacity(list)
    <3>1. \A i \in ReclaimedGaps(list) : Gap(list, i) \in [start : Int, length : Int]
      BY <1>1, <1>2, GapType DEF ReclaimedGaps
    <3>2. /\ Cardinality(ReclaimedGaps(list)) \in Nat
          /\ Cardinality(ReclaimedGaps(list)) <= MaxFreeExtents - freeCount
      BY <1>1, ReclaimBound
    <3>3. freeCount' \in 0 .. MaxFreeExtents
      BY <2>1, <3>2, SizesAssumption DEF ReclaimUnusedCapacity, TypeOK
    <3> QED  BY <2>1, <3>1, <3>3 DEF ReclaimUnusedCapacity, TypeOK
  <2>2. CASE UNCHANGED <<free, freeCount>>
    BY <2>2 DEF TypeOK
  <2> QED  BY <2>1, <2>2, <1>3
<1> QED  BY <1>4, <1>5, <1>6, <1>7 DEF TypeOK

LEMMA TypeRelease ==
    ASSUME TypeOK, NEW list \in Lists, Release(list)
    PROVE  TypeOK'
<1> DEFINE room  == MaxFreeExtents - freeCount
           freed == IF Len(list) <= room THEN Len(list) ELSE room
           last  == IF Len(list) <= room THEN Len(list) ELSE room + 1
<1>1. list \in Seq(Extents) /\ Len(list) \in Nat
  BY HostAssumption
<1>2. room \in Nat /\ freed \in 0 .. Len(list) /\ last \in 0 .. Len(list) /\ freed <= room
  BY <1>1, SizesAssumption DEF TypeOK
<1>3. /\ accepted' = [x \in Extents |->
           accepted[x] - Cardinality({i \in Found(list, last) : list[i] = x})]
      /\ acceptedCount' = acceptedCount - Cardinality(Found(list, last))
      /\ free' = free \cup {list[i] : i \in 1 .. freed}
      /\ freeCount' = freeCount + freed
      /\ UNCHANGED <<expected, processed>>
  BY DEF Release, RemoveEntries
<1> HIDE DEF room, freed, last
<1>4. accepted' \in [Extents -> Nat] /\ Cardinality(Found(list, last)) \in Nat
  <2>1. \A x \in Extents :
          /\ accepted[x] \in Nat
          /\ Cardinality({i \in Found(list, last) : list[i] = x}) \in Nat
          /\ Cardinality({i \in Found(list, last) : list[i] = x}) <= accepted[x]
    BY <1>1, <1>2, GoneBound DEF TypeOK
  <2>2. Cardinality(Found(list, last)) \in Nat
    <3>1. IsFiniteSet(1 .. last) /\ Found(list, last) \in SUBSET (1 .. last)
      BY <1>2, FS_Interval DEF Found
    <3> QED  BY <3>1, FS_Subset, FS_CardinalityType
  <2> QED  BY <2>1, <2>2, <1>3
<1>5. acceptedCount' \in Int /\ acceptedCount' <= MaxExtents
  BY <1>3, <1>4, SizesAssumption DEF TypeOK
<1>6. free' \subseteq [start : Int, length : Int]
  <2>1. \A i \in 1 .. freed : list[i] \in Extent
    BY <1>1, <1>2, HostAssumption
  <2>2. Extent \subseteq [start : Int, length : Int]
    BY SizesAssumption DEF Extent
  <2> QED  BY <1>3, <2>1, <2>2 DEF TypeOK
<1>7. freeCount' \in 0 .. MaxFreeExtents
  BY <1>2, <1>3, SizesAssumption DEF TypeOK, room
<1> QED  BY <1>3, <1>4, <1>5, <1>6, <1>7 DEF TypeOK

\* The records of the device keep their types and never outgrow their arrays:
\* no response and no release writes past g_accepted_extents[MAX_EXTENTS - 1]
\* or g_free_extents[MAX_FREE_EXTENTS - 1], whatever the host sends.
THEOREM TypeInvariant == Spec => []TypeOK
<1>1. Init => TypeOK
  BY TypeInit
<1>2. TypeOK /\ [Next]_vars => TypeOK'
  <2> SUFFICES ASSUME TypeOK, [Next]_vars PROVE TypeOK'
    OBVIOUS
  <2>1. ASSUME NEW list \in Lists, NEW more \in BOOLEAN, AddResponse(list, more)
        PROVE  TypeOK'
    BY <2>1, TypeAddResponse
  <2>2. ASSUME NEW list \in Lists, Release(list) PROVE TypeOK'
    BY <2>2, TypeRelease
  <2>3. CASE UNCHANGED vars
    BY <2>3 DEF vars, TypeOK
  <2> QED  BY <2>1, <2>2, <2>3 DEF Next
<1> QED  BY <1>1, <1>2, PTL DEF Spec

-----------------------------------------------------------------------------
(* Accepted extents are disjoint where their ends do not wrap around, for   *)
(* any host and offers of exclusive capacity: a shared offer may be taken   *)
(* once per response with "more".                                          *)

ExclusiveOffers  == \A i \in DOMAIN Offers : ~Offers[i].shared

\* Later theorems are about hosts of which no extent wraps around.
ExtentsDoNotWrap == \A x \in Extents : ~Wraps(x)

\* No entry is empty: an empty extent would overlap nothing, not even itself.
DisjointInv ==
    /\ TypeOK
    /\ AcceptedDisjoint
    /\ \A x \in Accepted : x.length # 0

LEMMA EndOfExtent ==
    ASSUME NEW x \in Extents, ~Wraps(x)
    PROVE  /\ x.start \in Nat /\ x.length \in Nat
           /\ End(x) = x.start + x.length
<1>1. x.start \in Nat /\ x.length \in Nat
  BY HostAssumption DEF Extent
<1>2. x.start + x.length < DpaSpace /\ DpaSpace \in Nat
  BY <1>1, SizesAssumption DEF Wraps
<1>3. \A n \in Nat : n < DpaSpace => n % DpaSpace = n
  BY SizesAssumption
<1> QED  BY <1>1, <1>2, <1>3 DEF End

LEMMA EndIsNoLater ==
    ASSUME NEW x \in Extents
    PROVE  /\ x.start \in Nat /\ x.length \in Nat
           /\ End(x) \in Nat /\ End(x) <= x.start + x.length
<1>1. x.start \in Nat /\ x.length \in Nat
  BY HostAssumption DEF Extent
<1>2. \A n \in Nat : n % DpaSpace \in Nat /\ n % DpaSpace <= n
  BY SizesAssumption
<1> QED  BY <1>1, <1>2 DEF End

\* The test of the code finds every common address of two extents.
LEMMA OverlapsFindsIntersection ==
    ASSUME NEW x \in Extents, NEW y \in Extents, ~Wraps(x), ~Wraps(y),
           Span(x) \cap Span(y) # {}
    PROVE  Overlaps(x, y)
<1>1. /\ x.start \in Nat /\ x.length \in Nat /\ End(x) = x.start + x.length
      /\ y.start \in Nat /\ y.length \in Nat /\ End(y) = y.start + y.length
  BY EndOfExtent
<1>2. PICK z \in Span(x) : z \in Span(y)
  OBVIOUS
<1> QED  BY <1>1, <1>2 DEF Overlaps, Span

LEMMA OverlapsSelf ==
    ASSUME NEW x \in Extents, ~Wraps(x), x.length # 0
    PROVE  Overlaps(x, x)
BY EndOfExtent DEF Overlaps

\* An extent named once among the first k entries counts once.
LEMMA CopiesCount ==
    ASSUME NEW list \in Seq(Extents), NEW k \in Nat, NEW x
    PROVE  /\ CopiesIn(list, k, x) # 0 => \E i \in 1 .. k : list[i] = x
           /\ (\A i, j \in 1 .. k : list[i] = x /\ list[j] = x => i = j)
                 => CopiesIn(list, k, x) <= 1
<1> DEFINE S == {i \in 1 .. k : list[i] = x}
<1>1. S = {} => Cardinality(S) = 0
  BY FS_EmptySet
<1>2. ASSUME \A i, j \in 1 .. k : list[i] = x /\ list[j] = x => i = j, S # {}
      PROVE  Cardinality(S) = 1
  <2>1. PICK i \in S : TRUE
    BY <1>2
  <2>2. S = {i}
    BY <1>2
  <2> QED  BY <2>2, FS_Singleton
<1> QED  BY <1>1, <1>2 DEF CopiesIn

\* What the entries a response records have passed.
LEMMA RecordedEntries ==
    ASSUME ExclusiveOffers, TypeOK, expected \in DOMAIN Offers,
           NEW list \in Seq(Extents), NEW k \in 0 .. Len(list), RecordsFirst(list, k),
           NEW i \in 1 .. k
    PROVE  /\ list[i] \in Extents /\ list[i].length # 0
           /\ \A x \in Accepted : ~Overlaps(list[i], x)
           /\ \A j \in 1 .. i - 1 : ~Overlaps(list[i], list[j])
<1>1. Acceptable(list, i) /\ list[i] \in Extents
  BY DEF RecordsFirst
<1>2. ~Offers[expected].shared
  BY DEF ExclusiveOffers
<1>3. /\ FitsOffer(list[i], Offers[expected])
      /\ \A x \in Extents : accepted[x] > 0 => ~Overlaps(list[i], x)
      /\ \A j \in 1 .. i - 1 : ~Overlaps(list[i], list[j])
  BY <1>1, <1>2 DEF Acceptable
<1> QED  BY <1>1, <1>3 DEF FitsOffer, Accepted

LEMMA DisjointAddResponse ==
    ASSUME ExclusiveOffers, DisjointInv,
           NEW list \in Lists, NEW more \in BOOLEAN, AddResponse(list, more)
    PROVE  AcceptedDisjoint' /\ \A x \in Accepted' : x.length # 0
<1>1. list \in Seq(Extents) /\ Len(list) \in Nat
  BY HostAssumption
<1>2. expected \in DOMAIN Offers
  BY DEF AddResponse, AwaitingResponse
<1>3. PICK k \in 0 .. Len(list) :
        /\ RecordsFirst(list, k)
        /\ accepted' = [x \in Extents |-> accepted[x] + CopiesIn(list, k, x)]
  BY DEF AddResponse
<1>4. k \in Nat /\ 1 .. k \subseteq 1 .. Len(list)
  BY <1>1
<1>5. \A x \in Extents : accepted[x] \in Nat /\ CopiesIn(list, k, x) \in Nat
  BY <1>1, <1>4, CopiesType DEF DisjointInv, TypeOK
<1> DEFINE New(x) == \E i \in 1 .. k : list[i] = x
<1>6. ASSUME NEW i \in 1 .. k
      PROVE  /\ list[i] \in Extents /\ list[i].length # 0
             /\ \A x \in Accepted : ~Overlaps(list[i], x)
             /\ \A j \in 1 .. i - 1 : ~Overlaps(list[i], list[j])
  BY <1>1, <1>2, <1>3, RecordedEntries DEF DisjointInv
<1>7. ASSUME NEW x \in Extents, New(x), ~Wraps(x)
      PROVE  accepted[x] = 0 /\ CopiesIn(list, k, x) <= 1
  <2>1. PICK i \in 1 .. k : list[i] = x
    BY <1>7
  <2>2. x.length # 0 /\ Overlaps(x, x)
    BY <1>6, <1>7, <2>1, OverlapsSelf
  <2>3. accepted[x] = 0
    BY <1>5, <1>6, <2>1, <2>2 DEF Accepted
  <2>4. ASSUME NEW m \in 1 .. k, NEW n \in 1 .. k, list[m] = x, list[n] = x, m < n
        PROVE  FALSE
    <3>1. m \in 1 .. n - 1
      BY <1>4, <2>4
    <3> QED  BY <1>6, <2>2, <2>4, <3>1
  <2>5. \A m, n \in 1 .. k : list[m] = x /\ list[n] = x => m = n
    BY <1>4, <2>4
  <2>6. CopiesIn(list, k, x) <= 1
    BY <1>1, <1>4, <2>5, CopiesCount
  <2> QED  BY <2>3, <2>6
<1>8. \A x \in Accepted' : x \in Extents /\ (x \in Accepted \/ New(x))
  <2>1. ASSUME NEW x \in Extents, ~New(x) PROVE CopiesIn(list, k, x) = 0
    BY <1>1, <1>4, <2>1, CopiesCount
  <2> QED  BY <1>3, <1>5, <2>1 DEF Accepted
<1>9. \A x \in Accepted' : x.length # 0
  BY <1>6, <1>8 DEF DisjointInv
<1>10. \A x \in Accepted' : ~Wraps(x) => accepted'[x] <= 1
  <2> SUFFICES ASSUME NEW x \in Accepted', ~Wraps(x) PROVE accepted'[x] <= 1
    OBVIOUS
  <2>1. CASE New(x)
    BY <1>3, <1>5, <1>7, <1>8, <2>1
  <2>2. CASE ~New(x)
    <3>1. CopiesIn(list, k, x) = 0 /\ x \in Accepted /\ x \in Extents
      BY <1>1, <1>4, <1>8, <2>2, CopiesCount
    <3>2. accepted[x] <= 1
      BY <3>1 DEF DisjointInv, AcceptedDisjoint
    <3> QED  BY <1>3, <1>5, <3>1, <3>2
  <2> QED  BY <2>1, <2>2
<1>11. ASSUME NEW x \in Accepted', NEW y \in Accepted', x # y, ~Wraps(x), ~Wraps(y)
       PROVE  Span(x) \cap Span(y) = {}
  <2>1. x \in Extents /\ y \in Extents
    BY <1>8, <1>11
  <2>2. ASSUME NEW a \in Extents, NEW b \in Accepted, New(a), ~Wraps(a), ~Wraps(b)
        PROVE  Span(a) \cap Span(b) = {}
    <3>1. ~Overlaps(a, b) /\ b \in Extents
      BY <1>6, <2>2 DEF Accepted
    <3> QED  BY <3>1, <2>2, OverlapsFindsIntersection
  <2>3. CASE x \in Accepted /\ y \in Accepted
    BY <1>11, <2>3 DEF DisjointInv, AcceptedDisjoint
  <2>4. CASE New(x) /\ y \in Accepted
    BY <1>11, <2>1, <2>2, <2>4
  <2>5. CASE New(y) /\ x \in Accepted
    BY <1>11, <2>1, <2>2, <2>5
  <2>6. CASE New(x) /\ New(y)
    <3>1. PICK i \in 1 .. k : list[i] = x  BY <2>6
    <3>2. PICK j \in 1 .. k : list[j] = y  BY <2>6
    <3>3. CASE j < i
      <4>1. j \in 1 .. i - 1  BY <1>4, <3>3
      <4>2. ~Overlaps(x, y)  BY <1>6, <3>1, <3>2, <4>1
      <4> QED  BY <1>11, <2>1, <4>2, OverlapsFindsIntersection
    <3>4. CASE i < j
      <4>1. i \in 1 .. j - 1  BY <1>4, <3>4
      <4>2. ~Overlaps(y, x)  BY <1>6, <3>1, <3>2, <4>1
      <4> QED  BY <1>11, <2>1, <4>2, OverlapsFindsIntersection
    <3> QED  BY <1>4, <1>11, <3>1, <3>2, <3>3, <3>4
  <2> QED  BY <1>8, <2>3, <2>4, <2>5, <2>6
<1> QED  BY <1>9, <1>10, <1>11 DEF AcceptedDisjoint

LEMMA DisjointRelease ==
    ASSUME DisjointInv, NEW list \in Lists, Release(list)
    PROVE  AcceptedDisjoint' /\ \A x \in Accepted' : x.length # 0
<1> DEFINE last == IF Len(list) <= MaxFreeExtents - freeCount
                   THEN Len(list) ELSE MaxFreeExtents - freeCount + 1
<1>1. list \in Seq(Extents) /\ last \in 0 .. Len(list)
  BY HostAssumption, SizesAssumption DEF DisjointInv, TypeOK
<1>2. accepted' = [x \in Extents |->
          accepted[x] - Cardinality({i \in Found(list, last) : list[i] = x})]
  BY DEF Release, RemoveEntries
<1> HIDE DEF last
<1>3. \A x \in Extents :
        accepted[x] \in Nat /\ Cardinality({i \in Found(list, last) : list[i] = x}) \in Nat
  BY <1>1, GoneBound DEF DisjointInv, TypeOK
<1>4. \A x \in Extents : accepted'[x] <= accepted[x] /\ accepted'[x] \in Int
  BY <1>2, <1>3
<1>5. \A x \in Accepted' : x \in Accepted /\ (accepted[x] <= 1 => accepted'[x] <= 1)
  <2> SUFFICES ASSUME NEW x \in Accepted'
               PROVE  x \in Accepted /\ (accepted[x] <= 1 => accepted'[x] <= 1)
    OBVIOUS
  <2>1. x \in Extents /\ accepted'[x] > 0
    BY DEF Accepted
  <2>2. accepted[x] \in Nat /\ accepted'[x] <= accepted[x] /\ accepted'[x] \in Int
    BY <1>3, <1>4, <2>1
  <2> QED  BY <2>1, <2>2 DEF Accepted
<1> QED  BY <1>5 DEF DisjointInv, AcceptedDisjoint

\* No address of exclusive capacity is ever accepted twice, through partial,
\* repeated or refused responses and any releases between them, by extents
\* that do not wrap around, whatever else the host names (the property
\* AcceptedDisjoint).
THEOREM AcceptedStayDisjoint ==
    ASSUME ExclusiveOffers
    PROVE  Spec => []AcceptedDisjoint
<1>1. Init => DisjointInv
  <2> SUFFICES ASSUME Init PROVE DisjointInv
    OBVIOUS
  <2>1. TypeOK
    BY TypeInit
  <2>2. Accepted = {} /\ \A x \in Extents : accepted[x] = 0
    BY DEF Init, Accepted
  <2> QED  BY <2>1, <2>2 DEF DisjointInv, AcceptedDisjoint
<1>2. DisjointInv /\ [Next]_vars => DisjointInv'
  <2> SUFFICES ASSUME DisjointInv, [Next]_vars PROVE DisjointInv'
    OBVIOUS
  <2>1. ASSUME NEW list \in Lists, NEW more \in BOOLEAN, AddResponse(list, more)
        PROVE  DisjointInv'
    BY <2>1, TypeAddResponse, DisjointAddResponse DEF DisjointInv
  <2>2. ASSUME NEW list \in Lists, Release(list) PROVE DisjointInv'
    BY <2>2, TypeRelease, DisjointRelease DEF DisjointInv
  <2>3. CASE UNCHANGED vars
    BY <2>3 DEF vars, DisjointInv, TypeOK, AcceptedDisjoint, Accepted
  <2> QED  BY <2>1, <2>2, <2>3 DEF Next
<1>3. DisjointInv => AcceptedDisjoint
  BY DEF DisjointInv
<1> QED  BY <1>1, <1>2, <1>3, PTL DEF Spec
-----------------------------------------------------------------------------
(* Offers and what becomes of them.  Offers are made from different        *)
(* capacity where the theorem says so (OffersApart).                       *)

OffersApart ==
    \A i, j \in DOMAIN Offers : i # j => Span(Offers[i]) \cap Span(Offers[j]) = {}

LEMMA EndOfOffer ==
    ASSUME NEW i \in DOMAIN Offers
    PROVE  /\ Offers[i].start \in Nat /\ Offers[i].length \in Nat \ {0}
           /\ End(Offers[i]) = Offers[i].start + Offers[i].length
<1>1. Offers[i] \in Offer /\ ~Wraps(Offers[i])
  BY OffersAssumption
<1>2. /\ Offers[i].start \in Nat /\ Offers[i].length \in Nat \ {0}
      /\ Offers[i].start + Offers[i].length < DpaSpace
  BY <1>1, SizesAssumption DEF Offer, Wraps
<1>3. \A n \in Nat : n < DpaSpace => n % DpaSpace = n
  BY SizesAssumption
<1> QED  BY <1>1, <1>2, <1>3 DEF End

\* An entry that passed the checks lies in the offer that is answered, and is
\* all of it if that is shared.
LEMMA AcceptableIsInside ==
    ASSUME expected \in DOMAIN Offers, NEW list \in Seq(Extents),
           NEW i \in 1 .. Len(list), Acceptable(list, i), ~Wraps(list[i])
    PROVE  /\ Span(list[i]) \subseteq Span(Offers[expected])
           /\ Span(list[i]) # {}
           /\ Offers[expected].shared => Span(list[i]) = Span(Offers[expected])
<1> DEFINE x == list[i]
           o == Offers[expected]
<1>1. /\ x \in Extents /\ x.start \in Nat /\ x.length \in Nat
      /\ End(x) = x.start + x.length
  BY EndOfExtent
<1>2. /\ o.start \in Nat /\ o.length \in Nat \ {0}
      /\ End(o) = o.start + o.length
  BY EndOfOffer
<1>3. CASE o.shared
  <2>1. x.start = o.start /\ x.length = o.length
    BY <1>3 DEF Acceptable, TakesWhole
  <2>2. Span(x) = Span(o) /\ x.start \in Span(o)
    BY <1>2, <2>1 DEF Span
  <2> QED  BY <2>2
<1>4. CASE ~o.shared
  <2>1. x.start >= o.start /\ End(x) <= End(o) /\ x.length # 0
    BY <1>4 DEF Acceptable, FitsOffer
  <2>2. x.start \in Span(x)
    BY <1>1, <2>1 DEF Span
  <2>3. \A z \in Span(x) : z \in Int /\ x.start <= z /\ z < x.start + x.length
    BY <1>1 DEF Span
  <2>4. \A z \in Int : o.start <= z /\ z < o.start + o.length => z \in Span(o)
    BY <1>2 DEF Span
  <2>5. \A z \in Span(x) : z \in Span(o)
    <3> HIDE DEF x, o
    <3> SUFFICES ASSUME NEW z \in Span(x) PROVE z \in Span(o)
      OBVIOUS
    <3>1. z \in Int /\ x.start <= z /\ z < x.start + x.length
      BY <2>3
    <3>2. o.start <= z /\ z < o.start + o.length
      BY ONLY <1>1, <1>2, <2>1, <3>1
    <3> QED  BY <2>4, <3>1, <3>2
  <2> QED  BY <1>4, <2>2, <2>5
<1> QED  BY <1>3, <1>4

\* What a response adds was acceptable; nothing that was accepted goes.
LEMMA ResponseAdds ==
    ASSUME TypeOK, NEW list \in Lists, NEW more \in BOOLEAN, AddResponse(list, more)
    PROVE  /\ expected \in DOMAIN Offers /\ ~processed[expected]
           /\ \A x \in Extents :
                 /\ accepted[x] \in Nat /\ accepted'[x] \in Nat
                 /\ accepted'[x] >= accepted[x]
                 /\ accepted'[x] > accepted[x] =>
                       \E i \in 1 .. Len(list) : list[i] = x /\ Acceptable(list, i)
<1>1. list \in Seq(Extents) /\ Len(list) \in Nat
  BY HostAssumption
<1>2. PICK k \in 0 .. Len(list) :
        /\ RecordsFirst(list, k)
        /\ accepted' = [x \in Extents |-> accepted[x] + CopiesIn(list, k, x)]
  BY DEF AddResponse
<1>3. k \in Nat /\ 1 .. k \subseteq 1 .. Len(list)
  BY <1>1
<1>4. ASSUME NEW x \in Extents
      PROVE  /\ accepted[x] \in Nat /\ accepted'[x] \in Nat
             /\ accepted'[x] >= accepted[x]
             /\ accepted'[x] > accepted[x] =>
                   \E i \in 1 .. Len(list) : list[i] = x /\ Acceptable(list, i)
  <2>1. accepted[x] \in Nat /\ CopiesIn(list, k, x) \in Nat
    BY <1>1, <1>3, CopiesType DEF TypeOK
  <2>2. accepted'[x] = accepted[x] + CopiesIn(list, k, x)
    BY <1>2
  <2>3. ASSUME CopiesIn(list, k, x) # 0
        PROVE  \E i \in 1 .. Len(list) : list[i] = x /\ Acceptable(list, i)
    <3>1. PICK i \in 1 .. k : list[i] = x
      BY <1>1, <1>3, <2>3, CopiesCount
    <3> QED  BY <1>2, <1>3, <3>1 DEF RecordsFirst
  <2>4. accepted'[x] >= accepted[x] /\ accepted'[x] \in Nat
    BY <2>1, <2>2
  <2>5. accepted'[x] > accepted[x] => CopiesIn(list, k, x) # 0
    BY <2>1, <2>2
  <2> QED  BY <2>1, <2>3, <2>4, <2>5
<1> QED  BY <1>4 DEF AddResponse, AwaitingResponse

LEMMA ReleaseTakes ==
    ASSUME TypeOK, NEW list \in Lists, Release(list), NEW x \in Extents
    PROVE  accepted[x] \in Nat /\ accepted'[x] \in Int /\ accepted'[x] <= accepted[x]
<1> DEFINE last == IF Len(list) <= MaxFreeExtents - freeCount
                   THEN Len(list) ELSE MaxFreeExtents - freeCount + 1
<1>1. list \in Seq(Extents) /\ last \in 0 .. Len(list)
  BY HostAssumption, SizesAssumption DEF TypeOK
<1>2. accepted'[x] = accepted[x] - Cardinality({i \in Found(list, last) : list[i] = x})
  BY DEF Release, RemoveEntries
<1> HIDE DEF last
<1>3. accepted[x] \in Nat /\ Cardinality({i \in Found(list, last) : list[i] = x}) \in Nat
  BY <1>1, GoneBound DEF TypeOK
<1> QED  BY <1>2, <1>3

-----------------------------------------------------------------------------
(* What the host holds comes from offers that were made to it.             *)

Source(x, i) ==
    /\ Span(x) \subseteq Span(Offers[i])
    /\ Offers[i].shared => Span(x) = Span(Offers[i])

WithinInv ==
    /\ TypeOK
    /\ \A x \in Accepted : ~Wraps(x) =>
          \E i \in 1 .. expected : i \in DOMAIN Offers /\ Source(x, i)

LEMMA WithinAddResponse ==
    ASSUME WithinInv,
           NEW list \in Lists, NEW more \in BOOLEAN, AddResponse(list, more)
    PROVE  WithinInv'
<1>1. list \in Seq(Extents)
  BY HostAssumption
<1>2. TypeOK /\ TypeOK' /\ expected \in DOMAIN Offers
  BY TypeAddResponse, ResponseAdds DEF WithinInv
<1>3. expected \in Nat /\ expected' \in Nat /\ expected <= expected'
  <2>1. expected' = expected + 1 \/ expected' = expected
    BY DEF AddResponse
  <2> QED  BY <1>2, <2>1 DEF TypeOK
<1>4. \A i \in 1 .. expected : i \in 1 .. expected'
  BY <1>3
<1>5. ASSUME NEW x \in Accepted', ~Wraps(x)
      PROVE  \E i \in 1 .. expected : i \in DOMAIN Offers /\ Source(x, i)
  <2>1. x \in Extents /\ accepted'[x] > 0
    BY <1>5 DEF Accepted
  <2>2. /\ accepted[x] \in Nat /\ accepted'[x] \in Nat
        /\ accepted'[x] > accepted[x] =>
              \E i \in 1 .. Len(list) : list[i] = x /\ Acceptable(list, i)
    BY <1>2, <2>1, ResponseAdds
  <2>3. CASE accepted[x] > 0
    BY <1>5, <2>1, <2>3 DEF WithinInv, Accepted
  <2>4. CASE accepted[x] = 0
    <3>1. PICK i \in 1 .. Len(list) : list[i] = x /\ Acceptable(list, i)
      BY <2>1, <2>2, <2>4
    <3>2. Source(x, expected)
      BY <1>1, <1>2, <1>5, <3>1, AcceptableIsInside DEF Source
    <3>3. expected \in 1 .. expected
      BY <1>2 DEF TypeOK
    <3> QED  BY <1>2, <3>2, <3>3
  <2> QED  BY <2>2, <2>3, <2>4
<1> QED  BY <1>2, <1>4, <1>5 DEF WithinInv, Source

LEMMA WithinInductive == Spec => []WithinInv
<1>1. Init => WithinInv
  BY TypeInit DEF Init, WithinInv, Accepted
<1>2. WithinInv /\ [Next]_vars => WithinInv'
  <2> SUFFICES ASSUME WithinInv, [Next]_vars PROVE WithinInv'
    OBVIOUS
  <2>1. ASSUME NEW list \in Lists, NEW more \in BOOLEAN, AddResponse(list, more)
        PROVE  WithinInv'
    BY <2>1, WithinAddResponse
  <2>2. ASSUME NEW list \in Lists, Release(list) PROVE WithinInv'
    <3>1. TypeOK' /\ expected' = expected
      BY <2>2, TypeRelease DEF WithinInv, Release
    <3>2. Accepted' \subseteq Accepted
      <4> SUFFICES ASSUME NEW x \in Accepted' PROVE x \in Accepted
        OBVIOUS
      <4>1. x \in Extents /\ accepted'[x] > 0
        BY DEF Accepted
      <4>2. accepted[x] \in Nat /\ accepted'[x] \in Int /\ accepted'[x] <= accepted[x]
        BY <2>2, <4>1, ReleaseTakes DEF WithinInv
      <4> QED  BY <4>1, <4>2 DEF Accepted
    <3> QED  BY <3>1, <3>2 DEF WithinInv, Source
  <2>3. CASE UNCHANGED vars
    BY <2>3 DEF vars, WithinInv, TypeOK, Accepted, Source
  <2> QED  BY <2>1, <2>2, <2>3 DEF Next
<1> QED  BY <1>1, <1>2, PTL DEF Spec

\* Whatever the host sends, the extents it holds lie in offers the device has
\* come to, but for those of which the end wraps around (the property
\* AcceptedWithinOffer; mailbox_add_dynamic_capacity_response).
THEOREM AcceptedStaysWithinOffer == Spec => []AcceptedWithinOffer
<1>1. WithinInv => AcceptedWithinOffer
  BY DEF WithinInv, AcceptedWithinOffer, Source
<1> QED  BY <1>1, WithinInductive, PTL

\* Shared capacity is taken whole, also where other offers border on it.
THEOREM SharedIsTakenWhole ==
    ASSUME ExtentsDoNotWrap, OffersApart
    PROVE  Spec => []SharedAllOrNothing
<1>1. WithinInv => SharedAllOrNothing
  <2> SUFFICES ASSUME WithinInv, NEW x \in Accepted, NEW i \in DOMAIN Offers,
                      Offers[i].shared, Span(x) \cap Span(Offers[i]) # {}
               PROVE  Span(x) = Span(Offers[i])
    BY DEF SharedAllOrNothing
  <2>0. ~Wraps(x)
    BY DEF ExtentsDoNotWrap, Accepted
  <2>1. PICK j \in 1 .. expected : j \in DOMAIN Offers /\ Source(x, j)
    BY <2>0 DEF WithinInv
  <2>2. j = i
    BY <2>1 DEF OffersApart, Source
  <2> QED  BY <2>1, <2>2 DEF Source
<1> QED  BY <1>1, WithinInductive, PTL

\* An extent that is inside an offer does not wrap around.
LEMMA AcceptableInOffer ==
    ASSUME expected \in DOMAIN Offers, NEW list \in Seq(Extents),
           NEW n \in 1 .. Len(list), Acceptable(list, n),
           NEW i \in DOMAIN Offers, Span(list[n]) \subseteq Span(Offers[i])
    PROVE  ~Wraps(list[n])
<1> DEFINE x == list[n]
           last == x.start + x.length - 1
<1>1. x \in Extents /\ x.start \in Nat /\ x.length \in Nat
  BY HostAssumption DEF Extent
<1>2. x.length # 0
  BY EndOfOffer DEF Acceptable, TakesWhole, FitsOffer
<1>3. last \in Span(x)
  BY <1>1, <1>2 DEF Span
<1>4. last \in Span(Offers[i])
  BY <1>3
<1> HIDE DEF x
<1>5. /\ Offers[i].start \in Nat /\ Offers[i].length \in Nat
      /\ Offers[i].start + Offers[i].length < DpaSpace /\ DpaSpace \in Nat
  <2>1. ~Wraps(Offers[i])
    BY OffersAssumption
  <2> QED  BY <2>1, EndOfOffer, SizesAssumption DEF Wraps
<1>6. last <= Offers[i].start + Offers[i].length - 1
  BY <1>4, <1>5 DEF Span
<1>7. x.start + x.length <= Offers[i].start + Offers[i].length
  <2>1. \A s, l, t, m \in Nat : s + l - 1 <= t + m - 1 => s + l <= t + m
    OBVIOUS
  <2> QED  BY ONLY <1>1, <1>5, <1>6, <2>1
<1>8. ~Wraps(x)
  BY ONLY <1>1, <1>5, <1>7 DEF Wraps
<1> QED  BY <1>8 DEF x

\* An offer that was answered for good is out of reach of every later command.
THEOREM ClosedOffersGainNothing ==
    ASSUME OffersApart
    PROVE  Spec => ClosedOfferGainsNothing
<1>1. TypeOK /\ [Next]_vars =>
        [\A i \in DOMAIN Offers : processed[i] =>
            \A x \in Extents : Span(x) \subseteq Span(Offers[i]) =>
                accepted'[x] <= accepted[x]]_vars
  <2> SUFFICES ASSUME TypeOK, Next, NEW i \in DOMAIN Offers, processed[i],
                      NEW x \in Extents, Span(x) \subseteq Span(Offers[i])
               PROVE  accepted'[x] <= accepted[x]
    OBVIOUS
  <2>1. ASSUME NEW list \in Lists, NEW more \in BOOLEAN, AddResponse(list, more)
        PROVE  accepted'[x] <= accepted[x]
    <3>1. /\ expected \in DOMAIN Offers /\ ~processed[expected]
          /\ accepted[x] \in Nat /\ accepted'[x] \in Nat
          /\ accepted'[x] > accepted[x] =>
                \E n \in 1 .. Len(list) : list[n] = x /\ Acceptable(list, n)
      BY <2>1, ResponseAdds
    <3>2. ASSUME accepted'[x] > accepted[x] PROVE FALSE
      <4>1. PICK n \in 1 .. Len(list) : list[n] = x /\ Acceptable(list, n)
        BY <3>1, <3>2
      <4>2. list \in Seq(Extents)
        BY HostAssumption
      <4>3. ~Wraps(x)
        BY <3>1, <4>1, <4>2, AcceptableInOffer
      <4>4. Span(x) # {} /\ Span(x) \subseteq Span(Offers[expected])
        BY <3>1, <4>1, <4>2, <4>3, AcceptableIsInside
      <4>5. i # expected
        BY <3>1
      <4> QED  BY <3>1, <4>4, <4>5 DEF OffersApart
    <3> QED  BY <3>1, <3>2
  <2>2. ASSUME NEW list \in Lists, Release(list) PROVE accepted'[x] <= accepted[x]
    BY <2>2, ReleaseTakes
  <2> QED  BY <2>1, <2>2 DEF Next
<1> QED  BY <1>1, TypeInvariant, PTL DEF Spec, ClosedOfferGainsNothing

-----------------------------------------------------------------------------
(* Nothing of a closed offer is lost as long as the free list has room.    *)

\* Every address of an offer is in an entry of the closing list or in one of
\* its gaps, in whatever order the entries come.
LEMMA ListCovers ==
    ASSUME expected \in DOMAIN Offers, NEW list \in Seq(Extents), NEW p \in Span(Offers[expected])
    PROVE  \/ \E i \in 1 .. Len(list) : p \in Span(list[i])
           \/ \E i \in 1 .. Len(list) + 1 : IsGap(list, i) /\ p \in Span(Gap(list, i))
<1> DEFINE o == Offers[expected]
           n == Len(list)
           S == {i \in 1 .. n + 1 : p < GapEnd(list, i)}
<1>1. /\ o.start \in Nat /\ o.length \in Nat \ {0} /\ End(o) = o.start + o.length
      /\ p \in Int /\ o.start <= p /\ p < End(o)
  BY EndOfOffer DEF Span
<1>2. n \in Nat /\ n + 1 \in S
  <2>1. GapEnd(list, n + 1) = End(o)
    BY DEF GapEnd
  <2> QED  BY <1>1, <2>1
<1>3. S \in SUBSET Nat /\ S # {}
  BY <1>2
<1>4. PICK i \in S : \A j \in S : i <= j
  <2> HIDE DEF S
  <2> QED  BY <1>3, LeastMember
<1>5. i \in 1 .. n + 1 /\ p < GapEnd(list, i)
  BY <1>4
<1>6. ASSUME GapStart(list, i) \in Int, GapEnd(list, i) \in Int, GapStart(list, i) <= p
      PROVE  IsGap(list, i) /\ p \in Span(Gap(list, i))
  BY <1>1, <1>5, <1>6 DEF IsGap, Gap, Span
<1>7. GapEnd(list, i) \in Int
  <2>1. CASE i > n
    BY <1>1, <2>1 DEF GapEnd
  <2>2. CASE i <= n
    <3>1. list[i] \in Extents
      BY <1>2, <1>5, <2>2
    <3> QED  BY <2>2, <3>1, EndIsNoLater DEF GapEnd
  <2> QED  BY <1>2, <1>5, <2>1, <2>2
<1>8. CASE i = 1
  BY <1>1, <1>5, <1>6, <1>7, <1>8 DEF GapStart
<1>9. CASE i # 1
  <2>1. i - 1 \in 1 .. n /\ i - 1 \in 1 .. n + 1 /\ ~(i - 1 > n)
    BY <1>2, <1>5, <1>9
  <2>2. i - 1 \notin S
    BY <1>2, <1>4, <1>5
  <2>3. list[i - 1].start <= p
    <3>1. ~(p < GapEnd(list, i - 1)) /\ GapEnd(list, i - 1) = list[i - 1].start
      BY <2>1, <2>2 DEF GapEnd
    <3>2. list[i - 1].start \in Nat
      BY <2>1, EndIsNoLater
    <3> QED  BY <1>1, <3>1, <3>2
  <2>4. /\ list[i - 1].start \in Nat /\ list[i - 1].length \in Nat
        /\ End(list[i - 1]) \in Nat
        /\ End(list[i - 1]) <= list[i - 1].start + list[i - 1].length
    BY <2>1, EndIsNoLater
  <2>5. CASE p < End(list[i - 1])
    <3> DEFINE x == list[i - 1]
    <3>1. /\ x.start \in Nat /\ x.length \in Nat /\ p \in Int
          /\ x.start <= p /\ p < x.start + x.length
      BY <1>1, <2>3, <2>4, <2>5
    <3> HIDE DEF x
    <3>2. p \in Span(x)
      BY <3>1 DEF Span
    <3> QED  BY <2>1, <3>2 DEF x
  <2>6. CASE p >= End(list[i - 1])
    <3>1. GapStart(list, i) = End(list[i - 1])
      BY <1>9 DEF GapStart
    <3> QED  BY <1>5, <1>6, <1>7, <2>4, <2>6, <3>1
  <2> QED  BY <1>1, <2>4, <2>5, <2>6
<1> QED  BY <1>8, <1>9

\* A free list that is not full after a close has taken all gaps.
LEMMA AllGapsReclaimed ==
    ASSUME TypeOK, NEW list \in Seq(Extents),
           freeCount + Cardinality(ReclaimedGaps(list)) < MaxFreeExtents,
           NEW i \in 1 .. Len(list) + 1, IsGap(list, i)
    PROVE  i \in ReclaimedGaps(list)
<1> DEFINE S == {j \in 1 .. Len(list) + 1 : IsGap(list, j)}
           b == MaxFreeExtents - freeCount
           R == {j \in S : Rank(S, j) <= b}
<1>1. /\ Len(list) + 1 \in Nat /\ b \in Nat
      /\ S \in SUBSET (1 .. Len(list) + 1)
      /\ MaxFreeExtents \in Nat /\ freeCount \in Nat
  BY SizesAssumption DEF TypeOK
<1>2. ReclaimedGaps(list) = R
  <2>1. ASSUME NEW j \in S
        PROVE  /\ Rank(S, j) = Cardinality({m \in 1 .. j : IsGap(list, m)})
               /\ Rank(S, j) \in Nat
    <3>1. j \in 1 .. Len(list) + 1 /\ 1 .. j \subseteq 1 .. Len(list) + 1
      BY <1>1
    <3>2. {m \in 1 .. j : m \in S} = {m \in 1 .. j : IsGap(list, m)}
      BY <3>1
    <3> QED  BY <3>1, <3>2, <1>1, RankType DEF Rank
  <2>2. \A j \in S : Rank(S, j) <= b <=>
          freeCount + Cardinality({m \in 1 .. j : IsGap(list, m)}) <= MaxFreeExtents
    BY <2>1, <1>1
  <2> QED  BY <2>2 DEF ReclaimedGaps
<1>3. R = S
  <2>1. ASSUME R # S PROVE FALSE
    <3> DEFINE N == Len(list) + 1
    <3>1. N \in Nat /\ b \in Nat /\ S \in SUBSET (1 .. N)
      BY <1>1
    <3>2. R = RankedUpTo(S, b)
      BY DEF RankedUpTo
    <3> HIDE DEF N, S, R, b
    <3>3. Cardinality(R) = b
      BY <2>1, <3>1, <3>2, RankFills
    <3> QED  BY <1>1, <1>2, <3>3 DEF b
  <2> QED  BY <2>1
<1> QED  BY <1>2, <1>3

LostInv == TypeOK /\ LostOnlyWhenFull

LEMMA LostAddResponse ==
    ASSUME LostInv,
           NEW list \in Lists, NEW more \in BOOLEAN, AddResponse(list, more)
    PROVE  LostInv'
<1>1. list \in Seq(Extents) /\ Len(list) \in Nat /\ TypeOK /\ TypeOK'
  BY HostAssumption, TypeAddResponse DEF LostInv
<1>2. expected \in DOMAIN Offers /\ freeCount \in Nat /\ freeCount' \in Nat /\ MaxFreeExtents \in Nat
  BY <1>1, SizesAssumption DEF AddResponse, AwaitingResponse, TypeOK
<1>3. AcceptedSpace \subseteq AcceptedSpace'
  <2>1. \A x \in Accepted : x \in Accepted'
    <3> SUFFICES ASSUME NEW x \in Accepted PROVE x \in Accepted'
      OBVIOUS
    <3>1. x \in Extents /\ accepted[x] > 0
      BY DEF Accepted
    <3>2. accepted[x] \in Nat /\ accepted'[x] \in Nat /\ accepted'[x] >= accepted[x]
      BY <1>1, <3>1, ResponseAdds
    <3> QED  BY <3>1, <3>2 DEF Accepted
  <2> QED  BY <2>1 DEF AcceptedSpace, Span
<1>4. PICK k \in 0 .. Len(list) :
        /\ accepted' = [x \in Extents |-> accepted[x] + CopiesIn(list, k, x)]
        /\ IF k = Len(list) /\ ~more
           THEN /\ ReclaimUnusedCapacity(list)
                /\ processed' = [processed EXCEPT ![expected] = TRUE]
                /\ expected' = expected + 1
           ELSE UNCHANGED <<expected, processed, free, freeCount>>
  BY DEF AddResponse
<1>5. CASE ~(k = Len(list) /\ ~more)
  <2>1. UNCHANGED <<processed, free, freeCount>>
    BY <1>4, <1>5
  <2>2. FreeSpace' = FreeSpace
    BY <2>1 DEF FreeSpace, Span
  <2> QED  BY <1>1, <1>3, <2>1, <2>2 DEF LostInv, LostOnlyWhenFull, Span
<1>6. CASE k = Len(list) /\ ~more
  <2>1. /\ free' = free \cup {Gap(list, i) : i \in ReclaimedGaps(list)}
        /\ freeCount' = freeCount + Cardinality(ReclaimedGaps(list))
        /\ processed' = [processed EXCEPT ![expected] = TRUE]
    BY <1>4, <1>6 DEF ReclaimUnusedCapacity
  <2>2. FreeSpace \subseteq FreeSpace'
    BY <2>1 DEF FreeSpace, Span
  <2>3. Cardinality(ReclaimedGaps(list)) \in Nat
    BY <1>1, ReclaimBound
  <2>4. SUFFICES ASSUME freeCount' < MaxFreeExtents, NEW i \in DOMAIN Offers, processed'[i]
                 PROVE  Span(Offers[i]) \subseteq AcceptedSpace' \cup FreeSpace'
    BY <1>1 DEF LostInv, LostOnlyWhenFull, Span
  <2>5. CASE i # expected
    <3>1. processed[i] /\ freeCount < MaxFreeExtents
      BY <1>1, <1>2, <2>1, <2>3, <2>4, <2>5 DEF TypeOK
    <3> QED  BY <1>3, <2>2, <3>1 DEF LostInv, LostOnlyWhenFull
  <2>6. CASE i = expected
    <3> SUFFICES ASSUME NEW p \in Span(Offers[expected])
                 PROVE  p \in AcceptedSpace' \cup FreeSpace'
      BY <2>6
    <3>1. ASSUME NEW j \in 1 .. Len(list), p \in Span(list[j])
          PROVE  p \in AcceptedSpace'
      <4>1. list[j] \in Extents /\ accepted[list[j]] \in Nat
        <5>1. list[j] \in Extents
          BY <1>1
        <5>2. accepted \in [Extents -> Nat]
          BY <1>1 DEF TypeOK
        <5> QED  BY <5>1, <5>2
      <4>2. CopiesIn(list, k, list[j]) \in Nat /\ CopiesIn(list, k, list[j]) # 0
        <5> DEFINE T == {m \in 1 .. k : list[m] = list[j]}
        <5>1. IsFiniteSet(T) /\ CopiesIn(list, k, list[j]) = Cardinality(T)
              /\ CopiesIn(list, k, list[j]) \in Nat
          BY <1>1, <1>6, CopiesType DEF CopiesIn
        <5>2. j \in T
          BY <1>6
        <5> HIDE DEF T
        <5> QED  BY <5>1, <5>2, FS_EmptySet
      <4>3. accepted'[list[j]] > 0
        BY <1>4, <4>1, <4>2
      <4> QED  BY <3>1, <4>1, <4>3 DEF AcceptedSpace, Accepted, Span
    <3>2. ASSUME NEW j \in 1 .. Len(list) + 1, IsGap(list, j), p \in Span(Gap(list, j))
          PROVE  p \in FreeSpace'
      <4>1. j \in ReclaimedGaps(list)
        BY <1>1, <2>1, <2>4, <3>2, AllGapsReclaimed
      <4> QED  BY <2>1, <3>2, <4>1 DEF FreeSpace, Span
    <3> QED  BY <1>1, <1>2, <3>1, <3>2, ListCovers
  <2> QED  BY <2>5, <2>6
<1> QED  BY <1>5, <1>6

LEMMA LostRelease ==
    ASSUME LostInv, NEW list \in Lists, Release(list)
    PROVE  LostInv'
<1> DEFINE room  == MaxFreeExtents - freeCount
           freed == IF Len(list) <= room THEN Len(list) ELSE room
           last  == IF Len(list) <= room THEN Len(list) ELSE room + 1
<1>1. list \in Seq(Extents) /\ Len(list) \in Nat /\ TypeOK /\ TypeOK'
  BY HostAssumption, TypeRelease DEF LostInv
<1>2. /\ MaxFreeExtents \in Nat /\ freeCount \in Nat /\ room \in Nat
      /\ last \in 0 .. Len(list)
  BY <1>1, SizesAssumption DEF TypeOK
<1>3. /\ accepted' = [x \in Extents |->
             accepted[x] - Cardinality({i \in Found(list, last) : list[i] = x})]
      /\ free' = free \cup {list[i] : i \in 1 .. freed}
      /\ freeCount' = freeCount + freed
      /\ processed' = processed
  BY DEF Release, RemoveEntries
<1>4. SUFFICES ASSUME freeCount' < MaxFreeExtents
               PROVE  AcceptedSpace \cup FreeSpace \subseteq AcceptedSpace' \cup FreeSpace'
                      /\ freeCount < MaxFreeExtents
  BY <1>1, <1>3 DEF LostInv, LostOnlyWhenFull, Span
<1>5. freed = Len(list) /\ last = Len(list) /\ freeCount < MaxFreeExtents
  BY <1>1, <1>2, <1>3, <1>4
<1>6. FreeSpace \subseteq FreeSpace'
  BY <1>3 DEF FreeSpace, Span
<1>7. ASSUME NEW x \in Accepted
      PROVE  Span(x) \subseteq AcceptedSpace' \cup FreeSpace'
  <2> HIDE DEF last, freed, room
  <2>1. x \in Extents /\ accepted[x] > 0 /\ accepted[x] \in Nat
    BY <1>1 DEF Accepted, TypeOK
  <2> DEFINE G == {i \in Found(list, last) : list[i] = x}
  <2>2. CASE G = {}
    <3>1. Cardinality(G) = 0
      BY <2>2, FS_EmptySet
    <3>2. accepted'[x] = accepted[x]
      BY <1>3, <2>1, <3>1
    <3> QED  BY <2>1, <3>2 DEF AcceptedSpace, Accepted, Span
  <2>3. CASE G # {}
    <3>1. PICK i \in Found(list, last) : list[i] = x
      BY <2>3
    <3>2. i \in 1 .. freed
      BY <1>5, <3>1 DEF Found
    <3>3. x \in free'
      BY <1>3, <3>1, <3>2
    <3> QED  BY <3>3 DEF FreeSpace, Span
  <2> QED  BY <2>2, <2>3
<1>8. AcceptedSpace \subseteq AcceptedSpace' \cup FreeSpace'
  BY <1>7 DEF AcceptedSpace
<1> QED  BY <1>5, <1>6, <1>8

\* As long as the free list is not full, what was offered and answered is
\* accepted or free: reclaiming and releasing lose nothing, whatever lists the
\* host sends and in whatever order their extents come, also if one wraps
\* around.
THEOREM CapacityLostOnlyWhenFull == Spec => []LostOnlyWhenFull
<1>1. Init => LostInv
  BY TypeInit DEF Init, LostInv, LostOnlyWhenFull
<1>2. LostInv /\ [Next]_vars => LostInv'
  <2> SUFFICES ASSUME LostInv, [Next]_vars PROVE LostInv'
    OBVIOUS
  <2>1. CASE UNCHANGED vars
    BY <2>1 DEF vars, LostInv, TypeOK, LostOnlyWhenFull, AcceptedSpace, Accepted, FreeSpace, Span
  <2> QED  BY <2>1, LostAddResponse, LostRelease DEF Next
<1>3. LostInv => LostOnlyWhenFull
  BY DEF LostInv
<1> QED  BY <1>1, <1>2, <1>3, PTL DEF Spec

-----------------------------------------------------------------------------
(* The counter of accepted extents.                                        *)

LEMMA ExtentsFinite == IsFiniteSet(Extents)
<1> DEFINE S == 0 .. DpaSpace - 1
           f == [p \in S \X S |-> [start |-> p[1], length |-> p[2]]]
<1>1. IsFiniteSet(S)
  BY SizesAssumption, FS_Interval
<1>2. IsFiniteSet(S \X S)
  BY <1>1, FS_Product
<1>3. f \in Surjection(S \X S, Extent)
  <2>1. f \in [S \X S -> Extent]
    BY DEF Extent
  <2>2. ASSUME NEW x \in Extent PROVE \E p \in S \X S : f[p] = x
    <3>1. <<x.start, x.length>> \in S \X S
      BY DEF Extent
    <3>2. f[<<x.start, x.length>>] = x
      BY <3>1 DEF Extent
    <3> QED  BY <3>1, <3>2
  <2> HIDE DEF f
  <2> QED  BY <2>1, <2>2 DEF Surjection
<1>4. IsFiniteSet(Extent)
  <2> HIDE DEF f, S
  <2> QED  BY <1>2, <1>3, FS_Surjection
<1> QED  BY <1>4, HostAssumption, FS_Subset

CountInv == TypeOK /\ CountMatchesEntries

LEMMA CountAddResponse ==
    ASSUME CountInv, NEW list \in Lists, NEW more \in BOOLEAN, AddResponse(list, more)
    PROVE  CountMatchesEntries'
<1>1. PICK k \in 0 .. Len(list) :
        /\ accepted' = [x \in Extents |-> accepted[x] + CopiesIn(list, k, x)]
        /\ acceptedCount' = acceptedCount + k
  BY DEF AddResponse
<1> DEFINE new == CountsOf(list, 1 .. k, Extents)
<1>2. k \in Nat /\ IsFiniteSet(1 .. k) /\ Cardinality(1 .. k) = k
      /\ \A i \in 1 .. k : list[i] \in Extents
  <2>1. list \in Seq(Extents) /\ k \in Nat
    BY HostAssumption
  <2>2. Cardinality(1 .. k) = k
    BY <2>1, FS_Interval
  <2> QED  BY <2>1, <2>2, FS_Interval
<1>3. /\ SumFunctionOnSet(new, Extents) = k
      /\ \A x \in Extents : CopiesIn(list, k, x) \in Nat /\ new[x] = CopiesIn(list, k, x)
  <2>1. Placed(list, 1 .. k, Extents)
    BY <1>2, ExtentsFinite DEF Placed
  <2>2. SumFunctionOnSet(new, Extents) = k /\ \A x \in Extents : new[x] \in Nat
    BY <1>2, <2>1, SumOfCounts
  <2>3. \A x \in Extents : new[x] = CopiesIn(list, k, x)
    BY DEF CountsOf, CopiesIn
  <2> QED  BY <2>2, <2>3
<1> HIDE DEF new
<1>4. DOMAIN accepted = Extents /\ DOMAIN accepted' = Extents
      /\ \A x \in Extents : accepted[x] \in Nat /\ accepted'[x] = accepted[x] + new[x]
  BY <1>1, <1>3 DEF CountInv, TypeOK
<1>5. Added(accepted, new, accepted', Extents)
  BY <1>3, <1>4, ExtentsFinite DEF Added
<1>6. SumFunctionOnSet(accepted', Extents) =
          SumFunctionOnSet(accepted, Extents) + SumFunctionOnSet(new, Extents)
  BY <1>5, SumAdded
<1> QED  BY <1>1, <1>3, <1>4, <1>6 DEF CountInv, CountMatchesEntries, SumFunction

LEMMA CountRelease ==
    ASSUME CountInv, NEW list \in Lists, Release(list)
    PROVE  CountMatchesEntries'
<1> DEFINE last == IF Len(list) <= MaxFreeExtents - freeCount
                   THEN Len(list) ELSE MaxFreeExtents - freeCount + 1
           gone == CountsOf(list, Found(list, last), Extents)
<1>1. list \in Seq(Extents) /\ last \in 0 .. Len(list)
  BY HostAssumption, SizesAssumption DEF CountInv, TypeOK
<1>2. /\ accepted' = [x \in Extents |->
             accepted[x] - Cardinality({i \in Found(list, last) : list[i] = x})]
      /\ acceptedCount' = acceptedCount - Cardinality(Found(list, last))
  BY DEF Release, RemoveEntries
<1> HIDE DEF last
<1>3. /\ IsFiniteSet(Found(list, last)) /\ Cardinality(Found(list, last)) \in Nat
      /\ \A i \in Found(list, last) : list[i] \in Extents
  <2>1. IsFiniteSet(1 .. last) /\ Found(list, last) \in SUBSET (1 .. last)
    BY <1>1, FS_Interval DEF Found
  <2>2. \A i \in 1 .. last : list[i] \in Extents
    BY <1>1
  <2> QED  BY <2>1, <2>2, FS_Subset, FS_CardinalityType
<1>4. /\ SumFunctionOnSet(gone, Extents) = Cardinality(Found(list, last))
      /\ \A x \in Extents :
            gone[x] = Cardinality({i \in Found(list, last) : list[i] = x}) /\ gone[x] \in Nat
  <2>1. Placed(list, Found(list, last), Extents)
    BY <1>3, ExtentsFinite DEF Placed
  <2>2. /\ SumFunctionOnSet(gone, Extents) = Cardinality(Found(list, last))
        /\ \A x \in Extents : gone[x] \in Nat
    BY <2>1, SumOfCounts
  <2>3. \A x \in Extents : gone[x] = Cardinality({i \in Found(list, last) : list[i] = x})
    BY DEF CountsOf
  <2> QED  BY <2>2, <2>3
<1> HIDE DEF gone
<1>5. /\ DOMAIN accepted = Extents /\ DOMAIN accepted' = Extents
      /\ \A x \in Extents : accepted[x] \in Nat /\ accepted'[x] = accepted[x] - gone[x]
  <2>1. accepted \in [Extents -> Nat]
    BY DEF CountInv, TypeOK
  <2>2. \A x \in Extents : accepted'[x] = accepted[x] - gone[x]
    BY <1>2, <1>4
  <2>3. DOMAIN accepted' = Extents
    BY <1>2
  <2> QED  BY <2>1, <2>2, <2>3
<1>6. \A x \in Extents : accepted'[x] \in Int /\ gone[x] \in Int /\ accepted[x] = accepted'[x] + gone[x]
  <2> SUFFICES ASSUME NEW x \in Extents
               PROVE  /\ accepted'[x] \in Int /\ gone[x] \in Int
                      /\ accepted[x] = accepted'[x] + gone[x]
    OBVIOUS
  <2>1. gone[x] \in Nat
    BY <1>4
  <2>2. accepted[x] \in Nat /\ accepted'[x] = accepted[x] - gone[x]
    BY <1>5
  <2> QED  BY <2>1, <2>2
<1>7. Added(accepted', gone, accepted, Extents)
  BY <1>6, ExtentsFinite DEF Added
<1>8. /\ SumFunctionOnSet(accepted', Extents) \in Int
      /\ SumFunctionOnSet(accepted, Extents) =
             SumFunctionOnSet(accepted', Extents) + SumFunctionOnSet(gone, Extents)
  BY <1>7, SumAdded
<1> QED  BY <1>2, <1>3, <1>4, <1>5, <1>8 DEF CountInv, CountMatchesEntries, SumFunction

\* The counter up to which the checks and the release search the array counts
\* the extents recorded in it, whatever the host sends (g_accepted_extent_count
\* in mailbox_add_dynamic_capacity_response and in the release).
THEOREM CounterIsRight == Spec => []CountMatchesEntries
<1>1. Init => CountInv
  <2> SUFFICES ASSUME Init PROVE CountInv
    OBVIOUS
  <2>1. TypeOK
    BY TypeInit
  <2>2. DOMAIN accepted = Extents /\ (\A x \in Extents : accepted[x] = 0) /\ acceptedCount = 0
    BY DEF Init
  <2>3. SumFunctionOnSet(accepted, Extents) = 0
    BY <2>2, ExtentsFinite, SumNone
  <2> QED  BY <2>1, <2>2, <2>3 DEF CountInv, CountMatchesEntries, SumFunction
<1>2. CountInv /\ [Next]_vars => CountInv'
  <2> SUFFICES ASSUME CountInv, [Next]_vars PROVE CountInv'
    OBVIOUS
  <2>1. ASSUME NEW list \in Lists, NEW more \in BOOLEAN, AddResponse(list, more)
        PROVE  CountInv'
    BY <2>1, TypeAddResponse, CountAddResponse DEF CountInv
  <2>2. ASSUME NEW list \in Lists, Release(list) PROVE CountInv'
    BY <2>2, TypeRelease, CountRelease DEF CountInv
  <2>3. CASE UNCHANGED vars
    BY <2>3 DEF vars, CountInv, TypeOK, CountMatchesEntries
  <2> QED  BY <2>1, <2>2, <2>3 DEF Next
<1>3. CountInv => CountMatchesEntries
  BY DEF CountInv
<1> QED  BY <1>1, <1>2, <1>3, PTL DEF Spec

-----------------------------------------------------------------------------
(* The capacity ledger.  The host is orderly: it answers an offer once,    *)
(* with a list in address order that the device accepts as a whole.  Each  *)
(* command is then a step of CapacityLedger, as long as the free list has  *)
(* room: capacity that does not fit into it is in no record.               *)

OrderlyHost == Liberties = {}

RoomLeft == freeCount < MaxFreeExtents

LEMMA OrderlyResponse ==
    ASSUME OrderlyHost, NEW list \in Lists, NEW more \in BOOLEAN, AddResponse(list, more)
    PROVE  /\ list \in Seq(Extents) /\ Len(list) \in Nat
           /\ expected \in DOMAIN Offers /\ expected' = expected + 1
           /\ \A i \in 1 .. Len(list) : Acceptable(list, i)
           /\ \A i \in 1 .. Len(list) - 1 : End(list[i]) <= list[i + 1].start
           /\ accepted' = [x \in Extents |-> accepted[x] + CopiesIn(list, Len(list), x)]
           /\ ReclaimUnusedCapacity(list)
<1>1. list \in Seq(Extents) /\ Len(list) \in Nat
  BY HostAssumption
<1>2. /\ ~more /\ RecordsFirst(list, Len(list))
      /\ \A i \in 1 .. Len(list) - 1 : End(list[i]) <= list[i + 1].start
  BY DEF AddResponse, HostMaySend, OrderlyHost
<1>3. PICK k \in 0 .. Len(list) :
        /\ RecordsFirst(list, k)
        /\ accepted' = [x \in Extents |-> accepted[x] + CopiesIn(list, k, x)]
        /\ IF k = Len(list) /\ ~more
           THEN ReclaimUnusedCapacity(list) /\ expected' = expected + 1
           ELSE TRUE
  BY DEF AddResponse
<1>4. k = Len(list)
  <2>1. ASSUME k < Len(list) PROVE FALSE
    <3>1. ~Acceptable(list, k + 1)
      BY <1>3, <2>1 DEF RecordsFirst
    <3>2. k + 1 \in 1 .. Len(list)
      BY <1>1, <2>1
    <3> QED  BY <1>2, <3>1, <3>2 DEF RecordsFirst
  <2> QED  BY <1>1, <2>1
<1> QED  BY <1>1, <1>2, <1>3, <1>4 DEF AddResponse, AwaitingResponse, RecordsFirst

\* The entries of an answer lie in the offer, apart from each other.
LEMMA EntryBounds ==
    ASSUME ExtentsDoNotWrap, expected \in DOMAIN Offers,
           NEW list \in Seq(Extents), NEW i \in 1 .. Len(list), Acceptable(list, i)
    PROVE  /\ list[i].start \in Nat /\ End(list[i]) \in Nat
           /\ Offers[expected].start <= list[i].start
           /\ list[i].start < End(list[i])
           /\ End(list[i]) <= End(Offers[expected])
           /\ Span(list[i]) = list[i].start .. End(list[i]) - 1
<1> DEFINE x == list[i]
           o == Offers[expected]
<1>1. /\ x.start \in Nat /\ x.length \in Nat /\ End(x) = x.start + x.length
      /\ o.start \in Nat /\ o.length \in Nat \ {0} /\ End(o) = o.start + o.length
  BY EndOfExtent, EndOfOffer DEF ExtentsDoNotWrap
<1>2. Span(x) \subseteq Span(o) /\ Span(x) # {}
  BY AcceptableIsInside DEF ExtentsDoNotWrap
<1> HIDE DEF x, o
<1>3. Span(x) = x.start .. End(x) - 1 /\ Span(o) = o.start .. End(o) - 1
  <2>1. Span(x) = x.start .. x.start + x.length - 1 /\ Span(o) = o.start .. o.start + o.length - 1
    BY DEF Span
  <2>2. \A p, q, r \in Int : r = p + q => r - 1 = p + q - 1
    OBVIOUS
  <2>3. End(x) - 1 = x.start + x.length - 1
    <3>1. x.start \in Int /\ x.length \in Int /\ End(x) \in Int
      BY ONLY <1>1
    <3> QED  BY <1>1, <2>2, <3>1, Zenon
  <2>4. End(o) - 1 = o.start + o.length - 1
    <3>1. o.start \in Int /\ o.length \in Int /\ End(o) \in Int
      BY ONLY <1>1
    <3> QED  BY <1>1, <2>2, <3>1, Zenon
  <2> QED  BY <2>1, <2>3, <2>4, Zenon
<1>4. x.start < End(x)
  BY <1>1, <1>2, <1>3
<1>5. x.start \in Span(x) /\ End(x) - 1 \in Span(x)
  BY <1>1, <1>3, <1>4
<1>6. x.start \in Span(o) /\ End(x) - 1 \in Span(o)
  BY <1>2, <1>5
<1>7. End(x) \in Nat /\ o.start <= x.start /\ End(x) <= End(o)
  BY <1>1, <1>3, <1>6
<1> QED  BY <1>1, <1>3, <1>4, <1>7 DEF x, o

LEMMA EntriesApart ==
    ASSUME ExtentsDoNotWrap, NEW list \in Seq(Extents),
           \A i \in 1 .. Len(list) : Acceptable(list, i),
           NEW i \in 1 .. Len(list), NEW j \in 1 .. Len(list), i # j
    PROVE  Span(list[i]) \cap Span(list[j]) = {}
<1>0. Len(list) \in Nat
  OBVIOUS
<1>1. ASSUME NEW m \in 1 .. Len(list), NEW n \in 1 .. Len(list), m < n
      PROVE  Span(list[m]) \cap Span(list[n]) = {}
  <2>0. Acceptable(list, n)
    OBVIOUS
  <2>1. m \in 1 .. n - 1 /\ Len(list) # 1
    <3>1. m \in Nat /\ n \in Nat /\ 1 <= m /\ n <= Len(list)
      BY <1>0
    <3>2. m \in 1 .. n - 1
      BY <1>1, <3>1
    <3>3. ASSUME Len(list) = 1 PROVE FALSE
      <4>1. 1 <= m /\ m < n /\ n <= 1 /\ m \in Nat /\ n \in Nat
        BY <1>1, <3>1, <3>3
      <4> QED  BY <4>1
    <3> QED  BY <3>2, <3>3
  <2>2. ~Overlaps(list[n], list[m])
    BY <2>0, <2>1 DEF Acceptable
  <2>3. list[m] \in Extents /\ list[n] \in Extents
    OBVIOUS
  <2>4. Span(list[n]) \cap Span(list[m]) = {}
    BY <2>2, <2>3, OverlapsFindsIntersection DEF ExtentsDoNotWrap
  <2> QED  BY <2>4
<1>2. CASE i < j
  BY <1>1, <1>2
<1>3. CASE j < i
  <2>1. Span(list[j]) \cap Span(list[i]) = {}
    BY <1>1, <1>3
  <2> QED  BY <2>1
<1>4. i < j \/ j < i
  BY <1>0
<1> QED  BY <1>2, <1>3, <1>4

\* What a list of extents covers.
Kept(list) == UNION {Span(list[i]) : i \in 1 .. Len(list)}

\* In an answer in address order later entries lie behind earlier ones.
LEMMA EntriesInOrder ==
    ASSUME ExtentsDoNotWrap, expected \in DOMAIN Offers, NEW list \in Seq(Extents),
           \A i \in 1 .. Len(list) : Acceptable(list, i),
           \A i \in 1 .. Len(list) - 1 : End(list[i]) <= list[i + 1].start,
           NEW m \in 1 .. Len(list), NEW j \in 1 .. m
    PROVE  list[j].start <= list[m].start /\ End(list[j]) <= End(list[m])
<1> DEFINE Before(a, b) == list[a].start <= list[b].start /\ End(list[a]) <= End(list[b])
           Bad == {b \in 1 .. Len(list) : ~ \A a \in 1 .. b : Before(a, b)}
<1>0. \A a \in 1 .. Len(list) : list[a].start \in Nat /\ End(list[a]) \in Nat
                                /\ list[a].start < End(list[a])
  BY EntryBounds
<1>1. ASSUME Bad # {} PROVE FALSE
  <2>1. Bad \in SUBSET Nat
    OBVIOUS
  <2>2. PICK b \in Bad : \A c \in Bad : b <= c
    <3> HIDE DEF Bad
    <3> QED  BY <1>1, <2>1, LeastMember
  <2>3. PICK a \in 1 .. b : ~Before(a, b)
    OBVIOUS
  <2>4. b \in 1 .. Len(list) /\ Len(list) \in Nat
    OBVIOUS
  <2>5. a # b
    BY <1>0, <2>3, <2>4
  <2>6. b - 1 \in 1 .. Len(list) - 1 /\ b - 1 \in 1 .. Len(list) /\ (b - 1) + 1 = b
        /\ b - 1 \notin Bad /\ a \in 1 .. b - 1 /\ a \in 1 .. Len(list)
    <3> HIDE DEF Bad
    <3>1. b \in Nat /\ a \in Nat /\ a <= b /\ b # 1 /\ b <= Len(list)
      BY <2>3, <2>4, <2>5
    <3>2. b - 1 \notin Bad
      BY <2>2, <3>1
    <3> QED  BY <2>4, <2>5, <3>1, <3>2
  <2>7. Before(a, b - 1) /\ End(list[b - 1]) <= list[b].start
    BY <2>6
  <2>8. /\ list[a].start \in Nat /\ End(list[a]) \in Nat
        /\ list[b].start \in Nat /\ End(list[b]) \in Nat /\ list[b].start < End(list[b])
        /\ list[b - 1].start \in Nat /\ End(list[b - 1]) \in Nat
        /\ list[b - 1].start < End(list[b - 1])
    BY <1>0, <2>4, <2>6
  <2>9. \A p, q, r \in Int : p <= q /\ (q <= r \/ q < r) => p <= r
    OBVIOUS
  <2>10. End(list[a]) <= End(list[b]) /\ list[a].start <= list[b].start
    <3>1. End(list[a]) <= End(list[b - 1]) /\ list[a].start <= list[b - 1].start
      BY <2>7
    <3>2. End(list[b - 1]) <= list[b].start
      BY <2>7
    <3>3. /\ list[a].start \in Int /\ list[b].start \in Int /\ list[b - 1].start \in Int
          /\ End(list[a]) \in Int /\ End(list[b]) \in Int /\ End(list[b - 1]) \in Int
      BY ONLY <2>8
    <3>4. End(list[a]) <= list[b].start
      BY <2>9, <3>1, <3>2, <3>3, Zenon
    <3>5. list[a].start <= End(list[b - 1])
      BY <2>8, <2>9, <3>1, <3>3, Zenon
    <3>6. list[a].start <= list[b].start
      BY <2>9, <3>2, <3>3, <3>5, Zenon
    <3>7. End(list[a]) <= End(list[b])
      BY <2>8, <2>9, <3>3, <3>4, Zenon
    <3> QED  BY <3>6, <3>7
  <2>11. Before(a, b)
    BY <2>10
  <2> HIDE DEF Before, Bad
  <2> QED  BY <2>3, <2>11
<1>2. \A b \in 1 .. Len(list) : \A a \in 1 .. b : Before(a, b)
  BY <1>1
<1> QED  BY <1>2

\* The gaps of an answer are what it leaves of the offer.
LEMMA GapsAreTheRest ==
    ASSUME ExtentsDoNotWrap, expected \in DOMAIN Offers, NEW list \in Seq(Extents),
           \A i \in 1 .. Len(list) : Acceptable(list, i),
           \A i \in 1 .. Len(list) - 1 : End(list[i]) <= list[i + 1].start
    PROVE  /\ Kept(list) \subseteq Span(Offers[expected])
           /\ UNION {Span(Gap(list, i)) : i \in {j \in 1 .. Len(list) + 1 : IsGap(list, j)}}
                  = Span(Offers[expected]) \ Kept(list)
<1> DEFINE n == Len(list)
           o == Offers[expected]
           Gaps == {j \in 1 .. n + 1 : IsGap(list, j)}
<1>0. /\ n \in Nat /\ o.start \in Nat /\ End(o) \in Nat /\ o.start < End(o)
      /\ Span(o) = o.start .. End(o) - 1
  <2>1. o.start \in Nat /\ o.length \in Nat \ {0} /\ End(o) = o.start + o.length
    BY EndOfOffer
  <2> QED  BY <2>1 DEF Span
<1>1. \A i \in 1 .. n :
          /\ list[i].start \in Nat /\ End(list[i]) \in Nat
          /\ o.start <= list[i].start /\ list[i].start < End(list[i]) /\ End(list[i]) <= End(o)
          /\ Span(list[i]) = list[i].start .. End(list[i]) - 1
  BY EntryBounds
<1>2. Kept(list) \subseteq Span(o)
  <2> SUFFICES ASSUME NEW i \in 1 .. n, NEW p \in Span(list[i]) PROVE p \in Span(o)
    BY DEF Kept
  <2> HIDE DEF n, o
  <2>1. /\ p \in Int /\ list[i].start <= p /\ p < End(list[i])
        /\ o.start <= list[i].start /\ End(list[i]) <= End(o)
        /\ list[i].start \in Nat /\ End(list[i]) \in Nat
    BY <1>1
  <2>2. o.start <= p /\ p <= End(o) - 1 /\ o.start \in Nat /\ End(o) \in Nat
    BY ONLY <1>0, <2>1
  <2> QED  BY <1>0, <2>1, <2>2
<1>3. ASSUME NEW p \in Span(o), p \notin Kept(list)
      PROVE  \E i \in Gaps : p \in Span(Gap(list, i))
  <2>1. \A i \in 1 .. n : p \notin Span(list[i])
    BY <1>3 DEF Kept
  <2> QED  BY <2>1, ListCovers
<1>4. ASSUME NEW i \in Gaps, NEW p \in Span(Gap(list, i))
      PROVE  p \in Span(o) /\ p \notin Kept(list)
  <2>1. i \in 1 .. n + 1 /\ IsGap(list, i)
    OBVIOUS
  <2>2. GapStart(list, i) = IF i = 1 THEN o.start ELSE End(list[i - 1])
    BY DEF GapStart
  <2>3. GapEnd(list, i) = IF i > n THEN End(o) ELSE list[i].start
    BY DEF GapEnd
  <2> HIDE DEF n, o
  <2>4. i # 1 => i - 1 \in 1 .. n
    BY <1>0, <2>1
  <2>5. GapStart(list, i) \in Nat /\ o.start <= GapStart(list, i)
    <3>1. CASE i = 1
      BY <1>0, <2>2, <3>1
    <3>2. CASE i # 1
      <4>1. /\ list[i - 1].start \in Nat /\ End(list[i - 1]) \in Nat
            /\ o.start <= list[i - 1].start /\ list[i - 1].start < End(list[i - 1])
        BY <1>1, <2>4, <3>2
      <4>2. GapStart(list, i) = End(list[i - 1])
        BY <2>2, <3>2
      <4> QED  BY <1>0, <4>1, <4>2
    <3> QED  BY <3>1, <3>2
  <2>6. i <= n => i \in 1 .. n
    BY <1>0, <2>1
  <2>7. GapEnd(list, i) \in Nat /\ GapEnd(list, i) <= End(o)
    BY <1>0, <1>1, <2>1, <2>3, <2>6
  <2>8. p \in Int /\ GapStart(list, i) <= p /\ p < GapEnd(list, i)
    BY <2>5, <2>7 DEF Gap, Span
  <2>9. p \in Span(o)
    BY <1>0, <2>5, <2>7, <2>8
  <2>10. ASSUME NEW j \in 1 .. n, p \in Span(list[j]) PROVE FALSE
    <3>1. list[j].start <= p /\ p < End(list[j])
      BY <1>1, <2>8, <2>10
    <3>2. CASE j < i
      <4>1. i - 1 \in 1 .. n /\ j \in 1 .. i - 1 /\ i # 1
        BY <1>0, <2>1, <3>2
      <4>2. End(list[j]) <= End(list[i - 1])
        BY <4>1, EntriesInOrder DEF n
      <4> QED  BY <1>1, <2>2, <2>8, <3>1, <4>1, <4>2
    <3>3. CASE i <= j
      <4>1. i \in 1 .. j /\ i \in 1 .. n /\ ~(i > n)
        BY <1>0, <2>1, <3>3
      <4>2. list[i].start <= list[j].start
        BY <4>1, EntriesInOrder DEF n
      <4>3. /\ list[i].start \in Nat /\ list[j].start \in Nat /\ p \in Int
            /\ p < GapEnd(list, i) /\ GapEnd(list, i) = list[i].start
        BY <1>1, <2>3, <2>8, <4>1
      <4> QED  BY ONLY <3>1, <4>2, <4>3
    <3> QED  BY <2>1, <3>2, <3>3
  <2> QED  BY <2>9, <2>10 DEF Kept, n
<1> QED  BY <1>2, <1>3, <1>4

LEMMA CopiesFound ==
    ASSUME NEW list \in Seq(Extents), NEW k \in Nat, NEW i \in 1 .. k
    PROVE  CopiesIn(list, k, list[i]) # 0
<1> DEFINE T == {m \in 1 .. k : list[m] = list[i]}
<1>1. IsFiniteSet(T) /\ CopiesIn(list, k, list[i]) = Cardinality(T)
  BY CopiesType DEF CopiesIn
<1>2. i \in T
  OBVIOUS
<1> HIDE DEF T
<1> QED  BY <1>1, <1>2, FS_EmptySet

\* What is accepted lies in offers that have been closed, in one piece each.
SettledInv ==
    /\ TypeOK
    /\ \A x \in Extents : accepted[x] <= 1
    /\ \A x, y \in Accepted : x # y => Span(x) \cap Span(y) = {}
    /\ \A x \in Accepted : \E i \in 1 .. expected - 1 :
          i \in DOMAIN Offers /\ Span(x) \subseteq Span(Offers[i])

\* A response adds its entries, none of which was accepted before.
LEMMA OrderlyAccepts ==
    ASSUME OrderlyHost, ExtentsDoNotWrap, OffersApart, SettledInv,
           NEW list \in Lists, NEW more \in BOOLEAN, AddResponse(list, more)
    PROVE  /\ Accepted' = Accepted \cup {list[i] : i \in 1 .. Len(list)}
           /\ \A i \in 1 .. Len(list) : list[i] \notin Accepted
           /\ \A x \in Extents : accepted'[x] <= 1
<1>1. /\ list \in Seq(Extents) /\ Len(list) \in Nat /\ expected \in DOMAIN Offers
      /\ \A i \in 1 .. Len(list) : Acceptable(list, i)
  BY OrderlyResponse
<1>2. accepted' = [x \in Extents |-> accepted[x] + CopiesIn(list, Len(list), x)]
  BY OrderlyResponse
<1>3. \A x \in Extents : accepted[x] \in Nat /\ CopiesIn(list, Len(list), x) \in Nat
                         /\ accepted[x] <= 1
  BY <1>1, CopiesType DEF SettledInv, TypeOK
<1>4. ASSUME NEW i \in 1 .. Len(list)
      PROVE  /\ list[i] \in Extents /\ list[i] \notin Accepted /\ accepted[list[i]] = 0
             /\ Span(list[i]) # {}
  <2>1. /\ list[i] \in Extents /\ Span(list[i]) # {}
        /\ Span(list[i]) \subseteq Span(Offers[expected])
    BY <1>1, AcceptableIsInside DEF ExtentsDoNotWrap
  <2>2. ASSUME list[i] \in Accepted PROVE FALSE
    <3>1. PICK j \in 1 .. expected - 1 :
              j \in DOMAIN Offers /\ Span(list[i]) \subseteq Span(Offers[j])
      BY <2>2 DEF SettledInv
    <3>2. j # expected
      BY <1>1 DEF SettledInv, TypeOK
    <3> QED  BY <1>1, <2>1, <3>1, <3>2 DEF OffersApart
  <2>3. accepted[list[i]] \in Nat
    BY <1>3, <2>1
  <2> QED  BY <2>1, <2>2, <2>3 DEF Accepted
<1>5. ASSUME NEW x \in Extents, \E i \in 1 .. Len(list) : list[i] = x
      PROVE  accepted[x] = 0 /\ CopiesIn(list, Len(list), x) = 1
  <2>1. PICK i \in 1 .. Len(list) : list[i] = x
    BY <1>5
  <2>2. accepted[x] = 0 /\ Span(x) # {}
    BY <1>4, <2>1
  <2>3. ASSUME NEW m \in 1 .. Len(list), NEW n \in 1 .. Len(list),
               list[m] = x, list[n] = x, m # n
        PROVE  FALSE
    <3>1. Span(list[m]) \cap Span(list[n]) = {}
      BY <1>1, <2>3, EntriesApart
    <3> QED  BY <2>2, <2>3, <3>1
  <2>4. CopiesIn(list, Len(list), x) <= 1
    BY <1>1, <2>3, CopiesCount
  <2>5. CopiesIn(list, Len(list), x) # 0
    BY <1>1, <2>1, CopiesFound
  <2> QED  BY <1>3, <2>2, <2>4, <2>5
<1>6. ASSUME NEW x \in Extents, ~ \E i \in 1 .. Len(list) : list[i] = x
      PROVE  CopiesIn(list, Len(list), x) = 0
  BY <1>1, <1>6, CopiesCount
<1>7. \A x \in Extents : accepted'[x] <= 1
  <2> SUFFICES ASSUME NEW x \in Extents PROVE accepted'[x] <= 1
    OBVIOUS
  <2>1. accepted'[x] = accepted[x] + CopiesIn(list, Len(list), x)
    BY <1>2
  <2> QED  BY <1>3, <1>5, <1>6, <2>1
<1>8. \A x \in Extents : accepted'[x] > 0 <=>
          accepted[x] > 0 \/ \E i \in 1 .. Len(list) : list[i] = x
  <2> SUFFICES ASSUME NEW x \in Extents
               PROVE  accepted'[x] > 0 <=>
                          accepted[x] > 0 \/ \E i \in 1 .. Len(list) : list[i] = x
    OBVIOUS
  <2>1. accepted'[x] = accepted[x] + CopiesIn(list, Len(list), x)
    BY <1>2
  <2> QED  BY <1>3, <1>5, <1>6, <2>1
<1>9. Accepted' = Accepted \cup {list[i] : i \in 1 .. Len(list)}
  BY <1>4, <1>8 DEF Accepted
<1> QED  BY <1>4, <1>7, <1>9

LEMMA SettledAddResponse ==
    ASSUME OrderlyHost, ExtentsDoNotWrap, OffersApart, SettledInv,
           NEW list \in Lists, NEW more \in BOOLEAN, AddResponse(list, more)
    PROVE  SettledInv'
<1>1. /\ list \in Seq(Extents) /\ Len(list) \in Nat
      /\ expected \in DOMAIN Offers /\ expected' = expected + 1
      /\ \A i \in 1 .. Len(list) : Acceptable(list, i)
  BY OrderlyResponse
<1>2. /\ Accepted' = Accepted \cup {list[i] : i \in 1 .. Len(list)}
      /\ \A x \in Extents : accepted'[x] <= 1
  BY OrderlyAccepts
<1>3. TypeOK'
  BY TypeAddResponse DEF SettledInv
<1>4. expected \in Nat \ {0} /\ 1 .. expected' - 1 = 1 .. expected
  BY <1>1 DEF SettledInv, TypeOK
<1>5. ASSUME NEW i \in 1 .. Len(list)
      PROVE  Span(list[i]) \subseteq Span(Offers[expected])
  BY <1>1, AcceptableIsInside DEF ExtentsDoNotWrap
<1>6. ASSUME NEW x \in Accepted
      PROVE  \E i \in 1 .. expected : i \in DOMAIN Offers /\ i # expected
                                      /\ Span(x) \subseteq Span(Offers[i])
  <2>1. PICK i \in 1 .. expected - 1 : i \in DOMAIN Offers /\ Span(x) \subseteq Span(Offers[i])
    BY DEF SettledInv
  <2>2. i \in 1 .. expected /\ i # expected
    BY <1>4
  <2> QED  BY <2>1, <2>2
<1>7. \A x \in Accepted' : \E i \in 1 .. expected' - 1 :
          i \in DOMAIN Offers /\ Span(x) \subseteq Span(Offers[i])
  <2>1. expected \in 1 .. expected
    BY <1>4
  <2> QED  BY <1>1, <1>2, <1>4, <1>5, <1>6, <2>1
<1>8. ASSUME NEW x \in Accepted', NEW y \in Accepted', x # y
      PROVE  Span(x) \cap Span(y) = {}
  <2>1. ASSUME NEW a \in Accepted, NEW i \in 1 .. Len(list)
        PROVE  Span(a) \cap Span(list[i]) = {}
    <3>1. PICK j \in 1 .. expected : j \in DOMAIN Offers /\ j # expected
                                     /\ Span(a) \subseteq Span(Offers[j])
      BY <1>6
    <3> QED  BY <1>1, <1>5, <3>1 DEF OffersApart
  <2>2. CASE x \in Accepted /\ y \in Accepted
    BY <1>8, <2>2 DEF SettledInv
  <2>3. CASE x \in Accepted /\ \E i \in 1 .. Len(list) : list[i] = y
    BY <2>1, <2>3
  <2>4. CASE y \in Accepted /\ \E i \in 1 .. Len(list) : list[i] = x
    BY <2>1, <2>4
  <2>5. CASE /\ \E i \in 1 .. Len(list) : list[i] = x
             /\ \E i \in 1 .. Len(list) : list[i] = y
    <3>1. PICK i \in 1 .. Len(list) : list[i] = x
      BY <2>5
    <3>2. PICK j \in 1 .. Len(list) : list[j] = y
      BY <2>5
    <3>3. i # j
      BY <1>8, <3>1, <3>2
    <3>4. Span(list[i]) \cap Span(list[j]) = {}
      BY <1>1, <3>3, EntriesApart
    <3> QED  BY <3>1, <3>2, <3>4
  <2> QED  BY <1>2, <2>2, <2>3, <2>4, <2>5
<1> QED  BY <1>2, <1>3, <1>7, <1>8 DEF SettledInv, Span

LEMMA SettledRelease ==
    ASSUME SettledInv, NEW list \in Lists, Release(list)
    PROVE  SettledInv'
<1>1. TypeOK' /\ expected' = expected
  BY TypeRelease DEF SettledInv, Release
<1>2. ASSUME NEW x \in Extents
      PROVE  accepted'[x] <= 1 /\ (accepted'[x] > 0 => accepted[x] > 0)
  <2>1. accepted[x] \in Nat /\ accepted'[x] \in Int /\ accepted'[x] <= accepted[x]
    BY ReleaseTakes DEF SettledInv
  <2>2. accepted[x] <= 1
    BY DEF SettledInv
  <2> QED  BY <2>1, <2>2
<1>3. Accepted' \subseteq Accepted
  BY <1>2 DEF Accepted
<1> QED  BY <1>1, <1>2, <1>3 DEF SettledInv, Span

LEMMA SettledInductive ==
    ASSUME OrderlyHost, ExtentsDoNotWrap, OffersApart
    PROVE  Spec => []SettledInv
<1>1. Init => SettledInv
  <2> SUFFICES ASSUME Init PROVE SettledInv
    OBVIOUS
  <2>1. TypeOK
    BY TypeInit
  <2>2. Accepted = {} /\ \A x \in Extents : accepted[x] = 0
    BY DEF Init, Accepted
  <2> QED  BY <2>1, <2>2 DEF SettledInv
<1>2. SettledInv /\ [Next]_vars => SettledInv'
  <2> SUFFICES ASSUME SettledInv, [Next]_vars PROVE SettledInv'
    OBVIOUS
  <2>1. ASSUME NEW list \in Lists, NEW more \in BOOLEAN, AddResponse(list, more)
        PROVE  SettledInv'
    BY <2>1, SettledAddResponse
  <2>2. ASSUME NEW list \in Lists, Release(list) PROVE SettledInv'
    BY <2>2, SettledRelease
  <2>3. CASE UNCHANGED vars
    BY <2>3 DEF vars, SettledInv, TypeOK, Accepted, Span
  <2> QED  BY <2>1, <2>2, <2>3 DEF Next
<1> QED  BY <1>1, <1>2, PTL DEF Spec

\* The answer of an orderly host splits the offer between host and device.
LEMMA ResponseSettles ==
    ASSUME OrderlyHost, ExtentsDoNotWrap, OffersApart, SettledInv, RoomLeft',
           NEW list \in Lists, NEW more \in BOOLEAN, AddResponse(list, more)
    PROVE  Ledger!Settle
<1>1. /\ list \in Seq(Extents) /\ Len(list) \in Nat
      /\ expected \in DOMAIN Offers /\ expected' = expected + 1
      /\ \A i \in 1 .. Len(list) : Acceptable(list, i)
      /\ \A i \in 1 .. Len(list) - 1 : End(list[i]) <= list[i + 1].start
      /\ ReclaimUnusedCapacity(list)
  BY OrderlyResponse
<1>2. /\ expected \in Nat /\ expected - 1 + 1 = expected
      /\ expected' - 1 = expected - 1 + 1
  BY <1>1 DEF SettledInv, TypeOK
<1>3. Accepted' = Accepted \cup {list[i] : i \in 1 .. Len(list)}
  BY OrderlyAccepts
<1>4. AcceptedSpace' = AcceptedSpace \cup Kept(list)
  BY <1>3 DEF AcceptedSpace, Kept, Span
<1>5. /\ Kept(list) \subseteq Span(Offers[expected])
      /\ UNION {Span(Gap(list, i)) : i \in {j \in 1 .. Len(list) + 1 : IsGap(list, j)}}
             = Span(Offers[expected]) \ Kept(list)
  BY <1>1, GapsAreTheRest
<1>6. ReclaimedGaps(list) = {j \in 1 .. Len(list) + 1 : IsGap(list, j)}
  <2>1. freeCount + Cardinality(ReclaimedGaps(list)) < MaxFreeExtents
    BY <1>1 DEF ReclaimUnusedCapacity, RoomLeft
  <2>2. TypeOK
    BY DEF SettledInv
  <2>3. \A j \in 1 .. Len(list) + 1 : IsGap(list, j) => j \in ReclaimedGaps(list)
    BY <1>1, <2>1, <2>2, AllGapsReclaimed
  <2>4. ReclaimedGaps(list) \subseteq {j \in 1 .. Len(list) + 1 : IsGap(list, j)}
    BY DEF ReclaimedGaps
  <2> QED  BY <2>3, <2>4
<1>7. FreeSpace' = FreeSpace \cup (Span(Offers[expected]) \ Kept(list))
  <2>1. free' = free \cup {Gap(list, i) : i \in ReclaimedGaps(list)}
    BY <1>1 DEF ReclaimUnusedCapacity
  <2>2. FreeSpace' = FreeSpace \cup UNION {Span(Gap(list, i)) : i \in ReclaimedGaps(list)}
    BY <2>1 DEF FreeSpace, Span
  <2> QED  BY <1>5, <1>6, <2>2
<1> DEFINE Spaces == [i \in DOMAIN Offers |-> Span(Offers[i])]
<1>8. /\ expected - 1 + 1 \in DOMAIN Spaces
      /\ Spaces[expected - 1 + 1] = Span(Offers[expected])
  BY <1>1, <1>2
<1> QED  BY <1>2, <1>4, <1>5, <1>7, <1>8 DEF Ledger!Settle

\* A release moves what it names from the host to the device.
LEMMA ReleaseGivesBack ==
    ASSUME ExtentsDoNotWrap, SettledInv, RoomLeft', NEW list \in Lists, Release(list)
    PROVE  Ledger!GiveBack
<1> DEFINE room  == MaxFreeExtents - freeCount
           freed == IF Len(list) <= room THEN Len(list) ELSE room
           last  == IF Len(list) <= room THEN Len(list) ELSE room + 1
<1>1. list \in Seq(Extents) /\ Len(list) \in Nat /\ TypeOK /\ DOMAIN list = 1 .. Len(list)
  BY HostAssumption DEF SettledInv
<1>2. /\ MaxFreeExtents \in Nat /\ freeCount \in Nat /\ room \in Nat
      /\ last \in 0 .. Len(list)
  BY <1>1, SizesAssumption DEF TypeOK
<1>3. /\ \A i \in 1 .. Len(list) : Releasable(list, i)
      /\ accepted' = [x \in Extents |->
             accepted[x] - Cardinality({i \in Found(list, last) : list[i] = x})]
      /\ free' = free \cup {list[i] : i \in 1 .. freed}
      /\ freeCount' = freeCount + freed
      /\ expected' = expected
  BY <1>1 DEF Release, RemoveEntries
<1>4. freed = Len(list) /\ last = Len(list)
  BY <1>1, <1>2, <1>3 DEF RoomLeft
<1> HIDE DEF room, freed, last
<1> DEFINE Named == {list[i] : i \in 1 .. Len(list)}
<1>5. ASSUME NEW i \in 1 .. Len(list)
      PROVE  /\ list[i] \in Extents /\ list[i] \in Accepted /\ Overlaps(list[i], list[i])
             /\ \A j \in 1 .. i - 1 : ~Overlaps(list[i], list[j])
  <2>1. list[i] \in Extents /\ list[i].length # 0
    BY <1>1, <1>3 DEF Releasable
  <2>2. Overlaps(list[i], list[i])
    BY <2>1, OverlapsSelf DEF ExtentsDoNotWrap
  <2> QED  BY <1>3, <2>1, <2>2 DEF Releasable, Accepted
<1>6. \A x \in Extents : accepted[x] \in Nat /\ accepted[x] <= 1
  BY <1>1 DEF SettledInv, TypeOK
<1>7. ASSUME NEW i \in 1 .. Len(list) PROVE i \in Found(list, last)
  <2>1. i \in Nat /\ 1 .. i \subseteq 1 .. Len(list)
    BY <1>1
  <2>2. ASSUME NEW m \in 1 .. i, NEW n \in 1 .. i, list[m] = list[i], list[n] = list[i], m < n
        PROVE  FALSE
    <3>1. m \in 1 .. n - 1 /\ n \in 1 .. Len(list) /\ list[m] = list[n]
      BY <2>1, <2>2
    <3> QED  BY <1>5, <3>1
  <2>3. \A m, n \in 1 .. i : list[m] = list[i] /\ list[n] = list[i] => m = n
    BY <2>1, <2>2
  <2>4. CopiesIn(list, i, list[i]) <= 1 /\ CopiesIn(list, i, list[i]) \in Nat
    BY <1>1, <2>1, <2>3, CopiesCount, CopiesType
  <2>5. accepted[list[i]] > 0 /\ accepted[list[i]] \in Nat
    BY <1>5, <1>6 DEF Accepted
  <2>6. CopiesIn(list, i, list[i]) <= accepted[list[i]]
    BY <2>4, <2>5
  <2> QED  BY <1>4, <2>6 DEF Found
<1>8. ASSUME NEW x \in Named PROVE x \notin Accepted'
  <2>1. PICK i \in 1 .. Len(list) : list[i] = x
    OBVIOUS
  <2> DEFINE G == {j \in Found(list, last) : list[j] = x}
  <2>2. i \in G /\ x \in Extents
    BY <1>5, <1>7, <2>1
  <2>3. IsFiniteSet(G)
    <3>1. IsFiniteSet(1 .. last) /\ G \in SUBSET (1 .. last)
      BY <1>2, FS_Interval DEF Found
    <3> QED  BY <3>1, FS_Subset
  <2>4. accepted'[x] = accepted[x] - Cardinality(G)
    BY <1>3, <2>2
  <2> HIDE DEF G
  <2>5. Cardinality(G) \in Nat /\ Cardinality(G) # 0
    BY <2>2, <2>3, FS_CardinalityType, FS_EmptySet
  <2>6. ~(accepted'[x] > 0)
    BY <1>6, <2>2, <2>4, <2>5
  <2> QED  BY <2>6 DEF Accepted
<1>9. ASSUME NEW x \in Accepted, x \notin Named PROVE x \in Accepted'
  <2>1. {j \in Found(list, last) : list[j] = x} = {}
    BY <1>4, <1>9 DEF Found
  <2>2. Cardinality({j \in Found(list, last) : list[j] = x}) = 0
    BY <2>1, FS_EmptySet
  <2>3. x \in Extents /\ accepted[x] > 0
    BY DEF Accepted
  <2>4. accepted'[x] = accepted[x]
    BY <1>3, <1>6, <2>2, <2>3
  <2> QED  BY <2>3, <2>4 DEF Accepted
<1>10. Accepted' \subseteq Accepted
  <2> SUFFICES ASSUME NEW x \in Accepted' PROVE x \in Accepted
    OBVIOUS
  <2>1. x \in Extents /\ accepted'[x] > 0
    BY DEF Accepted
  <2>2. accepted[x] \in Nat /\ accepted'[x] \in Int /\ accepted'[x] <= accepted[x]
    BY <1>1, <2>1, ReleaseTakes
  <2> QED  BY <2>1, <2>2 DEF Accepted
<1>11. Accepted' = Accepted \ Named /\ Named \subseteq Accepted
  BY <1>5, <1>8, <1>9, <1>10
<1> HIDE DEF Named
<1>12. AcceptedSpace' = UNION {Span(x) : x \in Accepted \ Named}
  BY <1>11 DEF AcceptedSpace, Span
<1>13. AcceptedSpace \ AcceptedSpace' = UNION {Span(x) : x \in Named}
  <2>1. \A x \in Accepted \ Named, y \in Named : Span(x) \cap Span(y) = {}
    BY <1>11 DEF SettledInv
  <2> QED  BY <1>11, <1>12, <2>1 DEF AcceptedSpace
<1>14. AcceptedSpace' \subseteq AcceptedSpace
  BY <1>12 DEF AcceptedSpace
<1>15. FreeSpace' = FreeSpace \cup UNION {Span(x) : x \in Named}
  <2>1. free' = free \cup Named
    BY <1>3, <1>4 DEF Named
  <2> QED  BY <2>1 DEF FreeSpace, Span
<1> QED  BY <1>3, <1>13, <1>14, <1>15 DEF Ledger!GiveBack

LEMMA LedgerStep ==
    ASSUME OrderlyHost, ExtentsDoNotWrap, OffersApart
    PROVE  SettledInv /\ RoomLeft' /\ [Next]_vars => [Ledger!LedgerNext]_(Ledger!ledgerVars)
<1> SUFFICES ASSUME SettledInv, RoomLeft', [Next]_vars
             PROVE  [Ledger!LedgerNext]_(Ledger!ledgerVars)
  OBVIOUS
<1>1. ASSUME NEW list \in Lists, NEW more \in BOOLEAN, AddResponse(list, more)
      PROVE  Ledger!LedgerNext
  BY <1>1, ResponseSettles DEF Ledger!LedgerNext
<1>2. ASSUME NEW list \in Lists, Release(list) PROVE Ledger!LedgerNext
  BY <1>2, ReleaseGivesBack DEF Ledger!LedgerNext
<1>3. CASE UNCHANGED vars
  BY <1>3 DEF vars, Ledger!ledgerVars, AcceptedSpace, Accepted, FreeSpace, Span
<1> QED  BY <1>1, <1>2, <1>3 DEF Next

LEMMA LedgerStarts == Init => Ledger!LedgerInit
<1> SUFFICES ASSUME Init PROVE Ledger!LedgerInit
  OBVIOUS
<1>1. Accepted = {} /\ free = {} /\ expected = 1
  BY DEF Init, Accepted
<1>2. AcceptedSpace = {} /\ FreeSpace = {} /\ expected - 1 = 0
  BY <1>1 DEF AcceptedSpace, FreeSpace
<1> QED  BY <1>2 DEF Ledger!LedgerInit

\* The commands of an orderly host implement the capacity ledger for offers of
\* any shape, shared ones included, while the free list has room: an answer
\* splits the next offer between host and device and a release moves what it
\* names from one to the other (the property LedgerImplemented).
THEOREM LedgerIsImplemented ==
    ASSUME OrderlyHost, ExtentsDoNotWrap, OffersApart
    PROVE  Spec /\ []RoomLeft => LedgerImplemented
<1>1. Init => Ledger!LedgerInit
  BY LedgerStarts
<1>2. SettledInv /\ RoomLeft' /\ [Next]_vars => [Ledger!LedgerNext]_(Ledger!ledgerVars)
  BY LedgerStep
<1> QED  BY <1>1, <1>2, SettledInductive, PTL DEF Spec, LedgerImplemented, Ledger!LedgerSpec

\* What has been offered and answered.
Answered == UNION {Span(Offers[i]) : i \in 1 .. expected - 1}

LEMMA ConservedSays ==
    ASSUME TypeOK
    PROVE  /\ 1 .. expected - 1 \subseteq DOMAIN Offers
           /\ Ledger!Conserved <=> /\ AcceptedSpace \cap FreeSpace = {}
                                   /\ AcceptedSpace \cup FreeSpace = Answered
<1> DEFINE Spaces == [i \in DOMAIN Offers |-> Span(Offers[i])]
<1>1. 1 .. expected - 1 \subseteq DOMAIN Offers
  <2>1. DOMAIN Offers = 1 .. Len(Offers) /\ Len(Offers) \in Nat
    BY OffersAssumption
  <2> QED  BY <2>1 DEF TypeOK
<1>2. \A i \in 1 .. expected - 1 : Spaces[i] = Span(Offers[i])
  BY <1>1
<1> HIDE DEF Spaces
<1>3. UNION {Spaces[i] : i \in 1 .. expected - 1} = Answered
  BY <1>2 DEF Answered
<1> QED  BY <1>1, <1>3 DEF Ledger!Conserved, Spaces

LEMMA LedgerConserves ==
    ASSUME OffersApart, SettledInv, TypeOK', Ledger!Conserved,
           [Ledger!LedgerNext]_(Ledger!ledgerVars)
    PROVE  (Ledger!Conserved)'
<1>1. /\ AcceptedSpace \cap FreeSpace = {} /\ AcceptedSpace \cup FreeSpace = Answered
      /\ 1 .. expected - 1 \subseteq DOMAIN Offers
  BY ConservedSays DEF SettledInv
<1>2. SUFFICES /\ AcceptedSpace' \cap FreeSpace' = {}
               /\ AcceptedSpace' \cup FreeSpace' = Answered'
  <2>1. (TypeOK => (Ledger!Conserved <=> /\ AcceptedSpace \cap FreeSpace = {}
                                         /\ AcceptedSpace \cup FreeSpace = Answered))'
    BY ConservedSays, PTL
  <2> QED  BY <2>1, <1>2
<1>3. CASE Ledger!Settle
  <2> DEFINE o == Span(Offers[expected])
             Spaces == [i \in DOMAIN Offers |-> Span(Offers[i])]
  <2>1. expected \in Nat /\ expected - 1 + 1 = expected
    BY DEF SettledInv, TypeOK
  <2>2. expected \in DOMAIN Offers /\ Spaces[expected] = o /\ expected' - 1 = expected
    <3>1. expected - 1 + 1 \in DOMAIN Spaces /\ expected' - 1 = expected - 1 + 1
      BY <1>3 DEF Ledger!Settle
    <3> QED  BY <2>1, <3>1
  <2>3. PICK kept \in SUBSET o :
            AcceptedSpace' = AcceptedSpace \cup kept
            /\ FreeSpace' = FreeSpace \cup (o \ kept)
    BY <1>3, <2>1, <2>2 DEF Ledger!Settle
  <2>4. Answered' = Answered \cup o
    <3>1. 1 .. expected = (1 .. expected - 1) \cup {expected}
      <4>1. expected \in Nat \ {0}
        BY DEF SettledInv, TypeOK
      <4> QED  BY <4>1
    <3>2. Answered' = UNION {Span(Offers[i]) : i \in 1 .. expected}
      BY <2>2 DEF Answered, Span
    <3> QED  BY <3>1, <3>2 DEF Answered
  <2>5. Answered \cap o = {}
    <3>1. \A i \in 1 .. expected - 1 : i # expected
      BY <2>1
    <3> QED  BY <1>1, <2>2, <3>1 DEF OffersApart, Answered
  <2> HIDE DEF o, Spaces
  <2> QED  BY <1>1, <2>3, <2>4, <2>5
<1>4. CASE Ledger!GiveBack
  <2>1. /\ AcceptedSpace' \subseteq AcceptedSpace
        /\ FreeSpace' = FreeSpace \cup (AcceptedSpace \ AcceptedSpace')
        /\ expected' - 1 = expected - 1
    BY <1>4 DEF Ledger!GiveBack
  <2>2. Answered' = Answered
    BY <2>1 DEF Answered, Span
  <2> QED  BY <1>1, <2>1, <2>2
<1>5. CASE UNCHANGED Ledger!ledgerVars
  <2>1. /\ AcceptedSpace' = AcceptedSpace /\ FreeSpace' = FreeSpace
        /\ expected' - 1 = expected - 1
    BY <1>5 DEF Ledger!ledgerVars
  <2>2. Answered' = Answered
    BY <2>1 DEF Answered, Span
  <2> QED  BY <1>1, <2>1, <2>2
<1> QED  BY <1>3, <1>4, <1>5 DEF Ledger!LedgerNext

\* With an orderly host and room in the free list, every address of an offer
\* that has been answered is accepted or free, and never both (the property
\* CapacityConserved): no response and no release loses or doubles capacity.
THEOREM CapacityIsConserved ==
    ASSUME OrderlyHost, ExtentsDoNotWrap, OffersApart
    PROVE  Spec /\ []RoomLeft => []CapacityConserved
<1>1. Init => Ledger!Conserved
  <2> SUFFICES ASSUME Init PROVE Ledger!Conserved
    OBVIOUS
  <2>1. AcceptedSpace = {} /\ FreeSpace = {} /\ expected = 1 /\ TypeOK
    BY LedgerStarts, TypeInit DEF Init, Ledger!LedgerInit
  <2>2. Answered = {}
    BY <2>1 DEF Answered
  <2> QED  BY <2>1, <2>2, ConservedSays
<1>2. SettledInv /\ SettledInv' /\ RoomLeft' /\ Ledger!Conserved /\ [Next]_vars
          => (Ledger!Conserved)'
  <2> SUFFICES ASSUME SettledInv, SettledInv', RoomLeft', Ledger!Conserved, [Next]_vars
               PROVE  (Ledger!Conserved)'
    OBVIOUS
  <2>1. [Ledger!LedgerNext]_(Ledger!ledgerVars)
    BY LedgerStep
  <2>2. TypeOK'
    BY DEF SettledInv
  <2> QED  BY <2>1, <2>2, LedgerConserves
<1> QED  BY <1>1, <1>2, SettledInductive, PTL DEF Spec, CapacityConserved

=============================================================================
