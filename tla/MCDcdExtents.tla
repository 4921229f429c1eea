---------------------------- MODULE MCDcdExtents ----------------------------
(* Instances of DcdExtents for TLC.  Addresses count half blocks.          *)
EXTENDS DcdExtents

\* Two neighbouring offers of three and two blocks, as init_pending_events
\* makes neighbouring ones.
MCOffers == << [start |-> 4, length |-> 6, shared |-> FALSE],
               [start |-> 10, length |-> 4, shared |-> FALSE] >>

\* Beside them a shared offer, taken whole or not at all.
MCMixedOffers == MCOffers \o << [start |-> 14, length |-> 4, shared |-> TRUE] >>

AnyHost == {"more", "refused", "unsorted"}

Ext(s, l) == [start |-> s, length |-> l]

\* Aligned extents in and across the offers, one misaligned, one empty.
MCExtents == {Ext(4, 2), Ext(4, 4), Ext(6, 2), Ext(6, 4), Ext(8, 2), Ext(8, 4),
              Ext(10, 2), Ext(12, 2), Ext(5, 2), Ext(4, 0)}

\* Also the one of which the end wraps: from the start of the first offer round
\* to the addresses before it.
MCAnyExtents == MCExtents \cup {Ext(4, 30)}

MCOrderlyExtents == {Ext(s, l) : s \in {4, 6, 8, 10, 12, 14}, l \in {2, 4, 6}}

MCLists == UNION {[1 .. n -> Extents] : n \in 0 .. 2}

\* Also lists of three, in address order.
MCLongLists ==
    MCLists \cup {list \in [1 .. 3 -> Extents] :
                    \A i \in 1 .. 2 : list[i].start + list[i].length <= list[i + 1].start}
=============================================================================
