------------------------------- MODULE DcdTags -------------------------------
(***************************************************************************)
(* Capacity that carries a tag (cxl_dcd.c, mailbox commands 5604h, 5606h   *)
(* and 5607h): the fabric manager (FM) initiates its addition to hosts,    *)
(* hosts give it back, and the FM may keep it alive by references, which   *)
(* the device counts in g_referenced_tags.  The mailbox loop runs one      *)
(* command at a time, so a command is one action; a command that is        *)
(* refused without having changed anything is a stuttering step.           *)
(*                                                                         *)
(* The lists of extents by host, the regions and the procedures that fill  *)
(* and empty them are only used in the code and not part of it: they are   *)
(* the actions Accept, Refuse and GiveBack of the hosts.  A definition     *)
(* marked "mutant" is a faulty variant of the one after it.                *)
(***************************************************************************)
EXTENDS Integers, Sequences, FiniteSets, Functions

CONSTANTS Hosts,        \* 0 .. MAX_HOSTS - 1, some of them
          Tags,
          SharedHosts,  \* hosts whose region 0 is sharable (flags1, bit 3)
          MaxTags,      \* MAX_TAGS, the size of g_referenced_tags
          MaxRefs,      \* bound on ref_count
          Total,        \* total_capacity of the region, in blocks
          Lengths,      \* lengths of additions, in blocks
          MaxPending,   \* bound on the additions that wait for an answer
          FmLiberties   \* how the FM departs from an orderly one

ASSUME TagsAssumption ==
    /\ Hosts \subseteq Nat /\ SharedHosts \subseteq Hosts
    /\ MaxTags \in Nat /\ MaxRefs \in Nat /\ Total \in Nat /\ MaxPending \in Nat
    /\ Lengths \subseteq Nat \ {0}
    /\ FmLiberties \subseteq {"stale"}

Fm == -1  \* the FM among the users of a tag

Addition == [host : Hosts, tag : Tags, length : Nat]
Reference == [tag : Tags, refs : Nat, sharable : BOOLEAN]

VARIABLES held,   \* the tags in g_host_extent_lists, by host
          size,   \* the capacity behind a tag; 0 if there is none
          adds,   \* additions that were initiated and that no host has answered
          table,  \* g_referenced_tags, up to g_referenced_tag_count
          owed    \* references the FM has added and not removed

tagVars == <<held, size, adds, table, owed>>

TagsInit ==
    /\ held = [h \in Hosts |-> {}]
    /\ size = [t \in Tags |-> 0]
    /\ adds = {}
    /\ table = << >>
    /\ owed = [t \in Tags |-> 0]

Holders(t) == {h \in Hosts : t \in held[h]}

\* The hosts are searched in order.
FirstHolder(t) == CHOOSE h \in Holders(t) : \A g \in Holders(t) : h <= g

\* The entries of the table have different tags (TagsTypeOK), so that the
\* first one found is the only one.
Known(t) == \E i \in DOMAIN table : table[i].tag = t
EntryOf(t) == CHOOSE i \in DOMAIN table : table[i].tag = t

Referenced(t) == \E i \in DOMAIN table : table[i].tag = t /\ table[i].refs > 0

-----------------------------------------------------------------------------
(* Initiate Dynamic Capacity Add.                                          *)

Ask(h, t, n) ==
    /\ Cardinality(adds) < MaxPending
    /\ adds' = adds \cup {[host |-> h, tag |-> t, length |-> n]}
    /\ UNCHANGED <<held, size, table, owed>>

\* The policies FREE and CONTIGUOUS.  Nothing is reserved for the addition,
\* and the tag may be in use already.  (The refusal while the log of events is
\* nearly full leaves everything as it is.)
InitiateAdd(h, t, n) == SumFunction(size) + n <= Total /\ Ask(h, t, n)

\* The policy ENABLE_SHARED_ACCESS: the branch for it is empty, so that any
\* tag may be shared with any host.
InitiateShare(h, t) == Ask(h, t, 0)

-----------------------------------------------------------------------------
(* The hosts.                                                              *)

\* Capacity to share that is not there, or not any more, cannot be accepted.
Accept(a) ==
    /\ a.length > 0 \/ size[a.tag] > 0
    /\ held' = [held EXCEPT ![a.host] = @ \cup {a.tag}]
    /\ size' = [size EXCEPT ![a.tag] = @ + a.length]
    /\ adds' = adds \ {a}
    /\ UNCHANGED <<table, owed>>

Refuse(a) == adds' = adds \ {a} /\ UNCHANGED <<held, size, table, owed>>

Free(t) == size' = [size EXCEPT ![t] = 0]

\* The capacity is free when nobody else holds it and no reference is left.
GiveBack(h, t) ==
    /\ t \in held[h]
    /\ held' = [held EXCEPT ![h] = @ \ {t}]
    /\ IF Holders(t) = {h} /\ ~Referenced(t) THEN Free(t) ELSE UNCHANGED size
    /\ UNCHANGED <<adds, table, owed>>

-----------------------------------------------------------------------------
(* References.  An orderly FM adds one to capacity that exists, and removes *)
(* the ones it has added.                                                  *)

NewEntry(t) == [tag |-> t, refs |-> 0, sharable |-> FirstHolder(t) \in SharedHosts]

CountUp(entries, i) == [entries EXCEPT ![i].refs = @ + 1]

MayAddReference(t) ==
    "stale" \notin FmLiberties => Holders(t) # {} \/ owed[t] > 0

\* mutant: the table is not checked for room
AddReferenceNoRoom(t) ==
    LET entries == IF Known(t) THEN table ELSE Append(table, NewEntry(t))
        i == IF Known(t) THEN EntryOf(t) ELSE Len(entries)
    IN /\ MayAddReference(t)
       /\ owed[t] < MaxRefs
       /\ Known(t) \/ Holders(t) # {}
       /\ IF entries[i].sharable
          THEN /\ table' = CountUp(entries, i)
               /\ owed' = [owed EXCEPT ![t] = @ + 1]
          ELSE table' = entries /\ UNCHANGED owed
       /\ UNCHANGED <<held, size, adds>>

\* A tag of a host that does not share is refused, but it is in the table then
\* and stays there.
AddReference(t) ==
    LET entries == IF Known(t) THEN table ELSE Append(table, NewEntry(t))
        i == IF Known(t) THEN EntryOf(t) ELSE Len(entries)
    IN /\ MayAddReference(t)
       /\ owed[t] < MaxRefs
       /\ Known(t) \/ (Holders(t) # {} /\ Len(table) < MaxTags)
       /\ IF entries[i].sharable
          THEN /\ table' = CountUp(entries, i)
               /\ owed' = [owed EXCEPT ![t] = @ + 1]
          ELSE table' = entries /\ UNCHANGED owed
       /\ UNCHANGED <<held, size, adds>>

WithoutEntryNoShift(i) == SubSeq(table, 1, Len(table) - 1)  \* mutant

\* The entries behind the removed one move up.
WithoutEntry(i) ==
    [j \in 1 .. Len(table) - 1 |-> IF j < i THEN table[j] ELSE table[j + 1]]

MayRemoveReference(t) == "stale" \notin FmLiberties => owed[t] > 0

\* The references that are left when one is removed.
RefsLeft(t) == LET n == table[EntryOf(t)].refs IN IF n > 0 THEN n - 1 ELSE 0

\* mutant: the lists of the hosts are not looked at
FreeWithReferenceHeld(t) == RefsLeft(t) = 0

\* mutant: the count is not looked at
FreeWithReferenceCounted(t) == Holders(t) = {}

FreeWithReference(t) == RefsLeft(t) = 0 /\ Holders(t) = {}

RemoveReference(t) ==
    /\ MayRemoveReference(t)
    /\ Known(t) /\ table[EntryOf(t)].sharable
    /\ owed' = [owed EXCEPT ![t] = IF @ > 0 THEN @ - 1 ELSE 0]
    /\ IF FreeWithReference(t)
       THEN table' = WithoutEntry(EntryOf(t)) /\ Free(t)
       ELSE table' = [table EXCEPT ![EntryOf(t)].refs = RefsLeft(t)] /\ UNCHANGED size
    /\ UNCHANGED <<held, adds>>

TagsNext ==
    \/ \E t \in Tags : AddReference(t) \/ RemoveReference(t)
    \/ \E h \in Hosts, t \in Tags :
          \/ \E n \in Lengths : InitiateAdd(h, t, n)
          \/ InitiateShare(h, t)
          \/ GiveBack(h, t)
    \/ \E a \in adds : Accept(a) \/ Refuse(a)

TagsSpec == TagsInit /\ [][TagsNext]_tagVars

-----------------------------------------------------------------------------
(* Correctness properties.                                                 *)

\* Every variable has its type; no entry is written behind MAX_TAGS, and no
\* tag has two entries, of which only the first would be found.
TagsTypeOK ==
    /\ held \in [Hosts -> SUBSET Tags] /\ size \in [Tags -> Nat]
    /\ adds \subseteq Addition /\ owed \in [Tags -> Nat]
    /\ table \in Seq(Reference) /\ Len(table) <= MaxTags
    /\ \A i, j \in DOMAIN table : table[i].tag = table[j].tag => i = j

\* Whatever entries came and went in between and moved the others, the count
\* of every tag is the number of references the FM has added and not removed:
\* a second reference to a tag counts.  The comment of the code at the
\* increment, "no effect if already referenced", says that it does not.
CountsMatchReferences ==
    /\ \A i \in DOMAIN table : table[i].refs = owed[table[i].tag]
    /\ \A t \in Tags : owed[t] > 0 => Known(t)

Users(t) == Holders(t) \cup IF owed[t] > 0 THEN {Fm} ELSE {}

\* "If no references remain and not in use, free": capacity is there exactly
\* as long as a host holds it or the FM has a reference to it.  Whoever leaves
\* last frees it, and nobody frees what another one uses.
KeptWhileUsed == \A t \in Tags : size[t] > 0 <=> Users(t) # {}

\* Refinement: with an orderly FM, tables, counts and searches amount to a set
\* of users for each tag.
Sharing == INSTANCE SharedCapacity WITH
    Manager <- Fm,
    users   <- [t \in Tags |-> Users(t)],
    length  <- size

SharingImplemented == Sharing!SharedSpec
=============================================================================
