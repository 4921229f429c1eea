----------------------------- MODULE DcdExtents -----------------------------
(***************************************************************************)
(* Dynamic capacity extents (cxl_dcd.c): the offers the device has made,   *)
(* the extents the host accepted out of them (mailbox command 4802h), the  *)
(* extents it gave back (4803h) and the free list the device reclaims      *)
(* into.  The mailbox loop runs one command at a time, so a command is one *)
(* action.  A command that is rejected without having changed anything is  *)
(* a stuttering step.                                                      *)
(*                                                                         *)
(* The arrays g_accepted_extents and g_free_extents are modelled by their  *)
(* contents: no decision of the code depends on the order of the entries.  *)
(* How the device comes to make an offer is not in the code                *)
(* (init_pending_events is called a placeholder), so offers are a constant.*)
(*                                                                         *)
(* A definition marked "mutant" is a faulty variant of the one after it;   *)
(* it is there to show that a property would notice the fault.             *)
(***************************************************************************)
EXTENDS Integers, Sequences, FiniteSets, Functions

CONSTANTS DpaSpace,        \* device physical addresses are 0..DpaSpace-1 (2^64)
          BlockSize,       \* BLOCK_SIZE = REGION_BLOCK_SIZE
          MaxExtents,      \* MAX_EXTENTS, the size of g_accepted_extents
          MaxFreeExtents,  \* MAX_FREE_EXTENTS, the size of g_free_extents
          Offers,          \* g_pending_events, in the order of the offers
          Extents,         \* the extents a host may name in a command
          Lists,           \* the extent lists a host may send
          Liberties        \* what the host may do beyond an orderly answer

Extent == [start : 0 .. DpaSpace - 1, length : 0 .. DpaSpace - 1]
Offer  == [start : 0 .. DpaSpace - 1, length : 1 .. DpaSpace - 1, shared : BOOLEAN]

ASSUME SizesAssumption ==
    /\ DpaSpace \in Nat \ {0}
    /\ BlockSize \in Nat \ {0}
    /\ MaxExtents \in Nat
    /\ MaxFreeExtents \in Nat
    /\ Liberties \subseteq {"more", "refused", "unsorted"}

\* The end of an extent is computed on uint64_t and may wrap around.  No check
\* of the code finds out that it does.
Wraps(x) == x.start + x.length >= DpaSpace

\* Offers come from the device's own capacity and do not wrap around.
ASSUME OffersAssumption ==
    /\ Offers \in Seq(Offer)
    /\ \A i \in DOMAIN Offers : ~Wraps(Offers[i])

ASSUME HostAssumption ==
    /\ Extents \subseteq Extent
    /\ Lists \subseteq Seq(Extents)

VARIABLES expected,       \* g_expected_response_index, from 1
          processed,      \* g_pending_events[i].processed
          accepted,       \* how many entries of g_accepted_extents hold an extent
          acceptedCount,  \* g_accepted_extent_count
          free,           \* the extents in g_free_extents
          freeCount       \* g_free_extent_count

vars == <<expected, processed, accepted, acceptedCount, free, freeCount>>

-----------------------------------------------------------------------------
End(x) == (x.start + x.length) % DpaSpace

Overlaps(x, y) == x.start < End(y) /\ End(x) > y.start

Aligned(x) == x.start % BlockSize = 0 /\ x.length % BlockSize = 0

FitsOfferNoStart(x, o) == End(x) <= End(o) /\ x.length # 0  \* mutant

FitsOfferNoEnd(x, o) == x.start >= o.start /\ x.length # 0  \* mutant

FitsOffer(x, o) == x.start >= o.start /\ End(x) <= End(o) /\ x.length # 0

CopiesIn(list, k, x) == Cardinality({i \in 1 .. k : list[i] = x})

Init ==
    /\ expected = 1
    /\ processed = [i \in DOMAIN Offers |-> FALSE]
    /\ accepted = [x \in Extents |-> 0]
    /\ acceptedCount = 0
    /\ free = {}
    /\ freeCount = 0

-----------------------------------------------------------------------------
(* Add Dynamic Capacity Response.                                          *)

AwaitingResponse == expected \in DOMAIN Offers /\ ~processed[expected]

TakesWholeNoLength(x, o) == x.start = o.start  \* mutant

\* Shared capacity is taken whole.
TakesWhole(x, o) == x.start = o.start /\ x.length = o.length

\* Mutant: the entries recorded by the same response are not looked at.
AcceptableNoOverlap(list, i) ==
    LET o == Offers[expected] IN
    /\ acceptedCount + i <= MaxExtents
    /\ IF o.shared
       THEN Len(list) = 1 /\ TakesWhole(list[i], o)
       ELSE /\ FitsOffer(list[i], o)
            /\ Aligned(list[i])
            /\ \A x \in Extents : accepted[x] > 0 => ~Overlaps(list[i], x)

\* The checks entry i of a response has to pass, once entries 1..i-1 have
\* passed theirs and have been recorded.
Acceptable(list, i) ==
    LET o == Offers[expected] IN
    /\ acceptedCount + i <= MaxExtents
    /\ IF o.shared
       THEN Len(list) = 1 /\ TakesWhole(list[i], o)
       ELSE /\ FitsOffer(list[i], o)
            /\ Aligned(list[i])
            /\ \A x \in Extents : accepted[x] > 0 => ~Overlaps(list[i], x)
            /\ \A j \in 1 .. i - 1 : ~Overlaps(list[i], list[j])

\* The entries before the first one refused stay recorded even though the
\* command then returns an error.
RecordsFirst(list, k) ==
    /\ \A i \in 1 .. k : Acceptable(list, i)
    /\ k < Len(list) => ~Acceptable(list, k + 1)

GapStartStuck(list, i) == Offers[expected].start  \* mutant

\* The gap reclaim_unused_capacity looks at before entry i of the closing
\* response; the last one runs to the end of the offer.
GapStart(list, i) == IF i = 1 THEN Offers[expected].start ELSE End(list[i - 1])

GapEnd(list, i)   == IF i > Len(list) THEN End(Offers[expected]) ELSE list[i].start

Gap(list, i)      == [start  |-> GapStart(list, i),
                      length |-> GapEnd(list, i) - GapStart(list, i)]

IsGapNoTail(list, i) ==  \* mutant
    i <= Len(list) /\ GapStart(list, i) < GapEnd(list, i)

IsGap(list, i) == GapStart(list, i) < GapEnd(list, i)

ReclaimedGapsUnbounded(list) ==  \* mutant
    {i \in 1 .. Len(list) + 1 : IsGap(list, i)}

\* The gaps that still find room in g_free_extents.
ReclaimedGaps(list) ==
    {i \in 1 .. Len(list) + 1 :
        /\ IsGap(list, i)
        /\ freeCount + Cardinality({j \in 1 .. i : IsGap(list, j)}) <= MaxFreeExtents}

ReclaimUnusedCapacity(list) ==
    /\ free' = free \cup {Gap(list, i) : i \in ReclaimedGaps(list)}
    /\ freeCount' = freeCount + Cardinality(ReclaimedGaps(list))

\* An orderly host answers every offer with one list, all of it acceptable
\* and in address order.  The liberties are to spread the answer over several
\* responses, to name extents the device refuses, and to use any order.
HostMaySend(list, more) ==
    /\ more => "more" \in Liberties
    /\ "refused" \notin Liberties => RecordsFirst(list, Len(list))
    /\ "unsorted" \notin Liberties =>
          \A i \in 1 .. Len(list) - 1 : End(list[i]) <= list[i + 1].start

AddResponse(list, more) ==
    /\ AwaitingResponse
    /\ HostMaySend(list, more)
    /\ \E k \in 0 .. Len(list) :
        /\ RecordsFirst(list, k)
        /\ accepted' = [x \in Extents |-> accepted[x] + CopiesIn(list, k, x)]
        /\ acceptedCount' = acceptedCount + k
        /\ IF k = Len(list) /\ ~more
           THEN /\ ReclaimUnusedCapacity(list)
                /\ processed' = [processed EXCEPT ![expected] = TRUE]
                /\ expected' = expected + 1
           ELSE UNCHANGED <<expected, processed, free, freeCount>>

-----------------------------------------------------------------------------
(* Release Dynamic Capacity.  The whole list is validated before anything  *)
(* is changed; then each extent leaves the accepted list and enters the    *)
(* free list, until the free list is full: the extent at which that shows  *)
(* has already left the accepted list.                                     *)

Releasable(list, i) ==
    /\ Aligned(list[i]) /\ list[i].length # 0
    /\ \A j \in 1 .. i - 1 : ~Overlaps(list[i], list[j])
    /\ accepted[list[i]] > 0
    /\ list[i] \notin free

FoundOneShort(list, k) ==  \* mutant
    {i \in 1 .. k - 1 : CopiesIn(list, i, list[i]) <= accepted[list[i]]}

\* Entries of the release list that find a copy of their extent to remove.
Found(list, k) == {i \in 1 .. k : CopiesIn(list, i, list[i]) <= accepted[list[i]]}

RemoveEntriesNoCount(list, k) ==  \* mutant
    /\ accepted' = [x \in Extents |->
            accepted[x] - Cardinality({i \in Found(list, k) : list[i] = x})]
    /\ acceptedCount' = acceptedCount

RemoveEntries(list, k) ==
    /\ accepted' = [x \in Extents |->
            accepted[x] - Cardinality({i \in Found(list, k) : list[i] = x})]
    /\ acceptedCount' = acceptedCount - Cardinality(Found(list, k))

Release(list) ==
    LET room  == MaxFreeExtents - freeCount
        freed == IF Len(list) <= room THEN Len(list) ELSE room
        last  == IF Len(list) <= room THEN Len(list) ELSE room + 1
    IN
    /\ list # << >>
    /\ \A i \in DOMAIN list : Releasable(list, i)
    /\ RemoveEntries(list, last)
    /\ free' = free \cup {list[i] : i \in 1 .. freed}
    /\ freeCount' = freeCount + freed
    /\ UNCHANGED <<expected, processed>>

Next ==
    \/ \E list \in Lists, more \in BOOLEAN : AddResponse(list, more)
    \/ \E list \in Lists : Release(list)

Spec == Init /\ [][Next]_vars

-----------------------------------------------------------------------------
(* Correctness properties.                                                 *)

\* The device addresses an extent really stands for.
Span(x) == x.start .. x.start + x.length - 1

Accepted      == {x \in Extents : accepted[x] > 0}
AcceptedSpace == UNION {Span(x) : x \in Accepted}
FreeSpace     == UNION {Span(x) : x \in free}

\* Type invariant of the extent records, with the capacity of both lists:
\* no command writes past MAX_EXTENTS or MAX_FREE_EXTENTS entries.
TypeOK ==
    /\ expected \in 1 .. Len(Offers) + 1
    /\ processed \in [DOMAIN Offers -> BOOLEAN]
    /\ accepted \in [Extents -> Nat]
    /\ acceptedCount \in Int /\ acceptedCount <= MaxExtents
    /\ free \subseteq [start : Int, length : Int]
    /\ freeCount \in 0 .. MaxFreeExtents

\* No address is accepted twice, neither through two extents nor through two
\* copies of one ("No overlapping allowed", cxl_dcd.c:309), by extents whose
\* end does not wrap.  One that wraps overlaps nothing, not even itself.
AcceptedDisjoint ==
    \A x, y \in Accepted : ~Wraps(x) /\ ~Wraps(y) =>
        accepted[x] <= 1 /\ (x # y => Span(x) \cap Span(y) = {})

\* The host only ever holds capacity of offers the device has made and has
\* come to: every accepted extent lies inside one of them, unless its end
\* wraps.  One that wraps passes the check against the end of the offer
\* (cxl_dcd.c:294-297) and is accepted with addresses outside of it, whatever
\* else the device has recorded; the others stay inside even then.
AcceptedWithinOffer ==
    \A x \in Accepted : ~Wraps(x) => \E i \in 1 .. expected :
        i \in DOMAIN Offers /\ Span(x) \subseteq Span(Offers[i])

\* The counter the overlap checks and the release search run up to counts
\* exactly the entries recorded, whatever mix of partial and complete
\* responses and releases came before.
CountMatchesEntries == acceptedCount = SumFunction(accepted)

\* Capacity of a closed offer disappears from the records of the device only
\* when the free list is full: the gaps reclaimed at the close and the
\* extents released since cover all that is not accepted.
LostOnlyWhenFull ==
    freeCount < MaxFreeExtents =>
        \A i \in DOMAIN Offers : processed[i] =>
            Span(Offers[i]) \subseteq AcceptedSpace \cup FreeSpace

\* The device reclaims only "capacity that the host does not utilize"
\* (cxl_dcd.c:230): nothing is in the free list and accepted at once.
ReclaimOnlyUnused == AcceptedSpace \cap FreeSpace = {}

\* Shared capacity is taken whole or not at all (cxl_dcd.c:269), also beside
\* exclusive offers whose extents border on it.
SharedAllOrNothing ==
    \A x \in Accepted, i \in DOMAIN Offers :
        Offers[i].shared /\ Span(x) \cap Span(Offers[i]) # {} =>
            Span(x) = Span(Offers[i])

\* Once an offer has been answered for good, no later command makes the host
\* hold more of it.
ClosedOfferGainsNothing ==
    [][\A i \in DOMAIN Offers : processed[i] =>
        \A x \in Extents : Span(x) \subseteq Span(Offers[i]) =>
            accepted'[x] <= accepted[x]]_vars

\* An orderly host with room in both lists: the commands implement the
\* capacity ledger.
Ledger == INSTANCE CapacityLedger WITH
    OfferSpaces <- [i \in DOMAIN Offers |-> Span(Offers[i])],
    settled     <- expected - 1,
    held        <- AcceptedSpace,
    pool        <- FreeSpace

\* Refinement: every command settles the next offer, gives capacity back, or
\* leaves the ledger alone.
LedgerImplemented == Ledger!LedgerSpec

\* The ledger's conservation law, seen from the device's records.
CapacityConserved == Ledger!Conserved
=============================================================================
