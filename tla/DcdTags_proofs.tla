--------------------------- MODULE DcdTags_proofs ---------------------------
(***************************************************************************)
(* The table of references agrees with what the fabric manager (FM) was    *)
(* told, and tagged capacity exists as long as somebody uses it, for any   *)
(* number of hosts, tags and table entries.                                *)
(***************************************************************************)
EXTENDS DcdTags, FiniteSetTheorems, SequenceTheorems, TLAPS

\* What TagsTypeOK and CountsMatchReferences say of the table, for any table
\* and any count of references.
TableOK(entries, count) ==
    /\ entries \in Seq(Reference) /\ Len(entries) <= MaxTags
    /\ \A i, j \in 1 .. Len(entries) : entries[i].tag = entries[j].tag => i = j
    /\ \A i \in 1 .. Len(entries) : entries[i].refs = count[entries[i].tag]
    /\ \A t \in Tags : count[t] > 0 => \E i \in 1 .. Len(entries) : entries[i].tag = t

LEMMA TableIsOK ==
    TagsTypeOK /\ CountsMatchReferences <=>
        /\ held \in [Hosts -> SUBSET Tags] /\ size \in [Tags -> Nat]
        /\ adds \subseteq Addition /\ owed \in [Tags -> Nat]
        /\ TableOK(table, owed)
<1> ASSUME table \in Seq(Reference) PROVE DOMAIN table = 1 .. Len(table)
  OBVIOUS
<1> QED BY DEF TagsTypeOK, CountsMatchReferences, TableOK, Known

LEMMA ReferenceOf ==
    ASSUME NEW entries \in Seq(Reference), NEW i \in 1 .. Len(entries)
    PROVE  /\ entries[i] \in Reference
           /\ entries[i].tag \in Tags /\ entries[i].refs \in Nat
           /\ entries[i].sharable \in BOOLEAN
<1>1. entries[i] \in Reference
  BY ElementOfSeq
<1> QED BY <1>1 DEF Reference

\* A new entry has no reference.
LEMMA AppendKeepsTable ==
    ASSUME NEW entries, NEW count \in [Tags -> Nat], TableOK(entries, count),
           NEW e \in Reference, e.refs = 0, Len(entries) < MaxTags,
           \A i \in 1 .. Len(entries) : entries[i].tag # e.tag
    PROVE  TableOK(Append(entries, e), count)
<1> DEFINE more == Append(entries, e)
<1>0. entries \in Seq(Reference) /\ MaxTags \in Nat /\ Len(entries) \in Nat
  BY TagsAssumption, LenProperties DEF TableOK
<1>1. /\ more \in Seq(Reference) /\ Len(more) = Len(entries) + 1
      /\ \A i \in 1 .. Len(entries) : more[i] = entries[i]
      /\ more[Len(entries) + 1] = e
  BY <1>0
<1>2. e.tag \in Tags /\ count[e.tag] = 0
  <2>1. e.tag \in Tags
    BY DEF Reference
  <2>2. count[e.tag] \in Nat /\ ~(count[e.tag] > 0)
    BY <2>1 DEF TableOK
  <2> QED BY <2>1, <2>2
<1> HIDE DEF more
<1>3. Len(more) <= MaxTags
  BY <1>0, <1>1
<1>4. \A i, j \in 1 .. Len(more) : more[i].tag = more[j].tag => i = j
  BY <1>0, <1>1 DEF TableOK
<1>5. \A i \in 1 .. Len(more) : more[i].refs = count[more[i].tag]
  BY <1>0, <1>1, <1>2 DEF TableOK
<1>6. \A t \in Tags : count[t] > 0 => \E i \in 1 .. Len(more) : more[i].tag = t
  <2> SUFFICES ASSUME NEW t \in Tags, count[t] > 0
               PROVE  \E i \in 1 .. Len(more) : more[i].tag = t
    OBVIOUS
  <2>1. PICK i \in 1 .. Len(entries) : entries[i].tag = t
    BY DEF TableOK
  <2> QED BY <2>1, <1>0, <1>1
<1>7. TableOK(more, count)
  BY <1>1, <1>3, <1>4, <1>5, <1>6 DEF TableOK
<1> QED BY <1>7 DEF more

\* The count of an entry and the number of references change together.
LEMMA RecountKeepsTable ==
    ASSUME NEW entries, NEW count \in [Tags -> Nat], TableOK(entries, count),
           NEW i \in 1 .. Len(entries), NEW n \in Nat
    PROVE  TableOK([entries EXCEPT ![i].refs = n], [count EXCEPT ![entries[i].tag] = n])
<1> DEFINE new == [entries EXCEPT ![i].refs = n]
           e == [entries[i] EXCEPT !.refs = n]
           recount == [count EXCEPT ![entries[i].tag] = n]
<1>0. entries \in Seq(Reference) /\ Len(entries) \in Nat
  BY LenProperties DEF TableOK
<1>1. e \in Reference /\ e.tag = entries[i].tag /\ e.refs = n /\ e.tag \in Tags
  BY <1>0, ReferenceOf DEF Reference
<1>2. new = [entries EXCEPT ![i] = e]
  OBVIOUS
<1> HIDE DEF e
<1>3. /\ new \in Seq(Reference) /\ Len(new) = Len(entries)
      /\ \A j \in 1 .. Len(entries) : new[j] = IF j = i THEN e ELSE entries[j]
  <2> HIDE DEF new
  <2> QED BY <1>0, <1>1, <1>2, ExceptSeq
<1>4. \A j \in 1 .. Len(entries) : new[j].tag = entries[j].tag
  <2> HIDE DEF new
  <2> QED BY <1>1, <1>3
<1>5. \A t \in Tags : recount[t] = IF t = entries[i].tag THEN n ELSE count[t]
  BY <1>1
<1> HIDE DEF new, recount
<1>6. \A j \in 1 .. Len(new) : new[j].refs = recount[new[j].tag]
  <2> SUFFICES ASSUME NEW j \in 1 .. Len(entries) PROVE new[j].refs = recount[entries[j].tag]
    BY <1>3, <1>4
  <2>1. entries[j].tag \in Tags
    BY <1>0, ReferenceOf
  <2>2. CASE j = i
    BY <2>1, <2>2, <1>1, <1>3, <1>5
  <2>3. CASE j # i
    BY <2>1, <2>3, <1>3, <1>5 DEF TableOK
  <2> QED BY <2>2, <2>3
<1>7. \A j, k \in 1 .. Len(new) : new[j].tag = new[k].tag => j = k
  BY <1>3, <1>4 DEF TableOK
<1>8. \A t \in Tags : recount[t] > 0 => \E j \in 1 .. Len(new) : new[j].tag = t
  BY <1>3, <1>4, <1>5 DEF TableOK
<1>9. TableOK(new, recount)
  BY <1>3, <1>6, <1>7, <1>8 DEF TableOK
<1> QED BY <1>9 DEF new, recount

\* The other entries stay, with their tags and counts.
LEMMA RemoveKeepsTable ==
    ASSUME NEW count \in [Tags -> Nat], TableOK(table, count),
           NEW i \in 1 .. Len(table)
    PROVE  TableOK(WithoutEntry(i), [count EXCEPT ![table[i].tag] = 0])
<1> DEFINE new == WithoutEntry(i)
           recount == [count EXCEPT ![table[i].tag] = 0]
           Was(j) == IF j < i THEN j ELSE j + 1
<1>0. table \in Seq(Reference) /\ Len(table) \in Nat /\ MaxTags \in Nat
  BY TagsAssumption, LenProperties DEF TableOK
<1>1. new = [j \in 1 .. Len(table) - 1 |-> table[Was(j)]]
  BY DEF WithoutEntry
<1>2. \A j \in 1 .. Len(table) - 1 : Was(j) \in 1 .. Len(table) /\ Was(j) # i
  BY <1>0
<1>3. \A j \in 1 .. Len(table) - 1 : table[Was(j)] \in Reference
  BY <1>0, <1>2, ElementOfSeq
<1>4. Len(table) - 1 \in Nat
  BY <1>0
<1>5. new \in Seq(Reference) /\ Len(new) = Len(table) - 1
  <2> HIDE DEF Was
  <2>1. new \in [1 .. Len(table) - 1 -> Reference]
    BY <1>1, <1>3
  <2> HIDE DEF new
  <2> QED BY <1>4, <2>1
<1>6. \A j \in 1 .. Len(new) : new[j] = table[Was(j)]
  BY <1>1, <1>5
<1>7. \A j, k \in 1 .. Len(new) : Was(j) = Was(k) => j = k
  BY <1>0, <1>5
<1>8. \A j \in 1 .. Len(table) : j # i => \E k \in 1 .. Len(new) : Was(k) = j
  <2> SUFFICES ASSUME NEW j \in 1 .. Len(table), j # i
               PROVE  \E k \in 1 .. Len(new) : Was(k) = j
    OBVIOUS
  <2> DEFINE k == IF j < i THEN j ELSE j - 1
  <2>1. k \in 1 .. Len(new) /\ Was(k) = j
    BY <1>0, <1>5
  <2> QED BY <2>1
<1>9. table[i].tag \in Tags /\ \A t \in Tags : recount[t] = IF t = table[i].tag THEN 0 ELSE count[t]
  BY <1>0, ReferenceOf
<1> HIDE DEF new, Was, recount
<1>10. \A j, k \in 1 .. Len(new) : new[j].tag = new[k].tag => j = k
  BY <1>2, <1>5, <1>6, <1>7 DEF TableOK
<1>11. \A j \in 1 .. Len(new) : new[j].refs = recount[new[j].tag]
  <2> SUFFICES ASSUME NEW j \in 1 .. Len(new) PROVE new[j].refs = recount[new[j].tag]
    OBVIOUS
  <2>1. Was(j) \in 1 .. Len(table) /\ Was(j) # i /\ new[j] = table[Was(j)]
    BY <1>2, <1>5, <1>6
  <2>2. table[Was(j)].tag \in Tags /\ table[Was(j)].tag # table[i].tag
    BY <1>0, <2>1, ReferenceOf DEF TableOK
  <2> QED BY <2>1, <2>2, <1>9 DEF TableOK
<1>12. \A t \in Tags : recount[t] > 0 => \E j \in 1 .. Len(new) : new[j].tag = t
  <2> SUFFICES ASSUME NEW t \in Tags, recount[t] > 0
               PROVE  \E j \in 1 .. Len(new) : new[j].tag = t
    OBVIOUS
  <2>1. t # table[i].tag /\ count[t] > 0
    BY <1>9
  <2>2. PICK j \in 1 .. Len(table) : table[j].tag = t
    BY <2>1 DEF TableOK
  <2>3. PICK k \in 1 .. Len(new) : Was(k) = j
    BY <1>8, <2>1, <2>2
  <2> QED BY <1>6, <2>2, <2>3
<1>13. Len(new) <= MaxTags
  BY <1>0, <1>5 DEF TableOK
<1>14. TableOK(new, recount)
  BY <1>5, <1>10, <1>11, <1>12, <1>13 DEF TableOK
<1> QED BY <1>14 DEF new, recount

-----------------------------------------------------------------------------
(* The commands.                                                           *)

LEMMA EntryFound ==
    ASSUME NEW t, Known(t), TagsTypeOK
    PROVE  /\ EntryOf(t) \in 1 .. Len(table) /\ table[EntryOf(t)].tag = t
           /\ table[EntryOf(t)] \in Reference
<1>1. DOMAIN table = 1 .. Len(table) /\ table \in Seq(Reference)
  BY DEF TagsTypeOK
<1>2. EntryOf(t) \in DOMAIN table /\ table[EntryOf(t)].tag = t
  BY DEF EntryOf, Known
<1> QED BY <1>1, <1>2, ElementOfSeq

\* The capacity that a host has not answered for has a length the FM asks for,
\* or none of its own.
AddsOK == \A a \in adds : a.length \in Lengths \cup {0}

TagsInv == TagsTypeOK /\ CountsMatchReferences /\ AddsOK

LEMMA TagsInvInit == TagsInit => TagsInv
<1> SUFFICES ASSUME TagsInit PROVE TagsInv
  OBVIOUS
<1>1. << >> \in Seq(Reference) /\ Len(<< >>) = 0
  BY EmptySeq
<1>2. TableOK(table, owed)
  BY <1>1, TagsAssumption DEF TagsInit, TableOK
<1>3. /\ held \in [Hosts -> SUBSET Tags] /\ size \in [Tags -> Nat]
      /\ adds \subseteq Addition /\ owed \in [Tags -> Nat] /\ AddsOK
  BY DEF TagsInit, AddsOK
<1> QED BY <1>2, <1>3, TableIsOK DEF TagsInv

\* What Add Reference does: nothing that matters, or one reference more.
LEMMA AddReferenceStep ==
    ASSUME TagsInv, NEW t \in Tags, AddReference(t)
    PROVE  /\ TableOK(table', owed') /\ owed' \in [Tags -> Nat]
           /\ UNCHANGED <<held, size, adds>>
           /\ UNCHANGED owed \/ owed' = [owed EXCEPT ![t] = @ + 1]
           /\ "stale" \notin FmLiberties => Holders(t) # {} \/ owed[t] > 0
<1> DEFINE entries == IF Known(t) THEN table ELSE Append(table, NewEntry(t))
           i == IF Known(t) THEN EntryOf(t) ELSE Len(entries)
<1>1. /\ TableOK(table, owed) /\ table \in Seq(Reference) /\ Len(table) \in Nat
      /\ owed \in [Tags -> Nat] /\ DOMAIN table = 1 .. Len(table)
  BY TableIsOK, LenProperties DEF TagsInv, TableOK
<1>2. TableOK(entries, owed) /\ i \in 1 .. Len(entries) /\ entries[i].tag = t
  <2>1. CASE Known(t)
    BY <2>1, <1>1, EntryFound DEF TagsInv
  <2>2. CASE ~Known(t)
    <3>1. NewEntry(t) \in Reference /\ NewEntry(t).refs = 0 /\ NewEntry(t).tag = t
      BY DEF NewEntry, Reference
    <3>2. \A j \in 1 .. Len(table) : table[j].tag # t
      BY <2>2, <1>1 DEF Known
    <3>3. Len(table) < MaxTags
      BY <2>2 DEF AddReference
    <3> HIDE DEF Known, NewEntry
    <3>4. TableOK(Append(table, NewEntry(t)), owed)
      BY <3>1, <3>2, <3>3, <1>1, AppendKeepsTable
    <3>5. /\ Len(Append(table, NewEntry(t))) = Len(table) + 1
          /\ Append(table, NewEntry(t))[Len(table) + 1] = NewEntry(t)
      BY <1>1, <3>1
    <3> QED BY <2>2, <3>1, <3>4, <3>5, <1>1
  <2> QED BY <2>1, <2>2
<1>3. /\ \/ /\ table' = CountUp(entries, i)
            /\ owed' = [owed EXCEPT ![t] = @ + 1]
         \/ table' = entries /\ UNCHANGED owed
      /\ UNCHANGED <<held, size, adds>>
      /\ MayAddReference(t)
  BY DEF AddReference
<1> HIDE DEF entries, i
<1>4. CASE table' = CountUp(entries, i) /\ owed' = [owed EXCEPT ![t] = @ + 1]
  <2>1. entries[i].refs = owed[t] /\ owed[t] \in Nat
    BY <1>1, <1>2 DEF TableOK
  <2>2. table' = [entries EXCEPT ![i].refs = owed[t] + 1]
    BY <1>4, <2>1 DEF CountUp
  <2>3. owed' = [owed EXCEPT ![t] = owed[t] + 1]
    BY <1>4
  <2>4. TableOK(table', owed')
    <3> DEFINE n == owed[t] + 1
    <3>0. n \in Nat
      BY <2>1
    <3> HIDE DEF n
    <3>1. TableOK([entries EXCEPT ![i].refs = n], [owed EXCEPT ![entries[i].tag] = n])
      BY <1>1, <1>2, <3>0, RecountKeepsTable
    <3> USE DEF n
    <3> QED BY <3>1, <1>2, <2>2, <2>3
  <2>5. owed' \in [Tags -> Nat]
    BY <1>1, <2>1, <2>3
  <2> QED BY <1>3, <1>4, <2>4, <2>5 DEF MayAddReference
<1>5. CASE table' = entries /\ UNCHANGED owed
  BY <1>1, <1>2, <1>3, <1>5 DEF MayAddReference
<1> QED BY <1>3, <1>4, <1>5

\* What Remove Reference does: one reference less, if there is one, and the
\* capacity is free if that was the last use of it.
LEMMA RemoveReferenceStep ==
    ASSUME TagsInv, NEW t \in Tags, RemoveReference(t)
    PROVE  /\ TableOK(table', owed') /\ owed' \in [Tags -> Nat]
           /\ UNCHANGED <<held, adds>>
           /\ owed' = [owed EXCEPT ![t] = IF owed[t] > 0 THEN owed[t] - 1 ELSE 0]
           /\ IF owed'[t] = 0 /\ Holders(t) = {} THEN Free(t) ELSE UNCHANGED size
           /\ "stale" \notin FmLiberties => owed[t] > 0
<1> DEFINE i == EntryOf(t)
           n == IF owed[t] > 0 THEN owed[t] - 1 ELSE 0
<1>1. /\ TableOK(table, owed) /\ table \in Seq(Reference) /\ Len(table) \in Nat
      /\ owed \in [Tags -> Nat]
  BY TableIsOK, LenProperties DEF TagsInv, TableOK
<1>2. Known(t)
  BY DEF RemoveReference
<1>3. i \in 1 .. Len(table) /\ table[i].tag = t /\ table[i].refs = owed[t]
  BY <1>1, <1>2, EntryFound DEF TagsInv, TableOK
<1>4. n \in Nat /\ RefsLeft(t) = n
  BY <1>1, <1>3 DEF RefsLeft
<1>5. owed' = [owed EXCEPT ![t] = n] /\ owed'[t] = n /\ owed' \in [Tags -> Nat]
  BY <1>1, <1>4 DEF RemoveReference
<1>6. /\ UNCHANGED <<held, adds>>
      /\ IF n = 0 /\ Holders(t) = {}
         THEN table' = WithoutEntry(i) /\ Free(t)
         ELSE table' = [table EXCEPT ![i].refs = n] /\ UNCHANGED size
      /\ MayRemoveReference(t)
  BY <1>4 DEF RemoveReference, FreeWithReference
<1> HIDE DEF i
<1>7. CASE n = 0 /\ Holders(t) = {}
  <2>1. TableOK(table', owed')
    <3>1. TableOK(WithoutEntry(i), [owed EXCEPT ![table[i].tag] = 0])
      BY <1>1, <1>3, RemoveKeepsTable
    <3> QED BY <3>1, <1>3, <1>5, <1>6, <1>7
  <2> QED BY <2>1, <1>5, <1>6, <1>7 DEF MayRemoveReference
<1>8. CASE ~(n = 0 /\ Holders(t) = {})
  <2>1. TableOK(table', owed')
    <3>1. TableOK([table EXCEPT ![i].refs = n], [owed EXCEPT ![table[i].tag] = n])
      BY <1>1, <1>3, <1>4, RecountKeepsTable
    <3> QED BY <3>1, <1>3, <1>5, <1>6, <1>8
  <2> QED BY <2>1, <1>5, <1>6, <1>8 DEF MayRemoveReference
<1> QED BY <1>7, <1>8

LEMMA AcceptedAddition ==
    ASSUME TagsInv, NEW a \in adds
    PROVE  a.host \in Hosts /\ a.tag \in Tags /\ a.length \in Lengths \cup {0} /\ a.length \in Nat
  BY DEF TagsInv, TagsTypeOK, Addition, AddsOK

LEMMA TagsInvStep == TagsInv /\ [TagsNext]_tagVars => TagsInv'
<1> SUFFICES ASSUME TagsInv, [TagsNext]_tagVars PROVE TagsInv'
  OBVIOUS
<1> DEFINE Typed == /\ held \in [Hosts -> SUBSET Tags] /\ size \in [Tags -> Nat]
                    /\ adds \subseteq Addition /\ owed \in [Tags -> Nat] /\ AddsOK
<1>0. Typed /\ TableOK(table, owed)
  BY TableIsOK DEF TagsInv
<1>1. Typed' /\ TableOK(table', owed') => TagsInv'
  <2>1. table' \in Seq(Reference) => DOMAIN table' = 1 .. Len(table')
    OBVIOUS
  <2> QED BY <2>1 DEF TagsInv, TableOK, TagsTypeOK, CountsMatchReferences, Known
<1>2. ASSUME NEW t \in Tags, AddReference(t) PROVE TagsInv'
  BY <1>0, <1>1, <1>2, AddReferenceStep DEF AddsOK
<1>3. ASSUME NEW t \in Tags, RemoveReference(t) PROVE TagsInv'
  BY <1>0, <1>1, <1>3, RemoveReferenceStep DEF AddsOK, Free
<1>4. ASSUME NEW h \in Hosts, NEW t \in Tags, NEW n \in Lengths, InitiateAdd(h, t, n)
      PROVE  TagsInv'
  <2>1. [host |-> h, tag |-> t, length |-> n] \in Addition
    BY TagsAssumption DEF Addition
  <2>2. adds' = adds \cup {[host |-> h, tag |-> t, length |-> n]}
        /\ UNCHANGED <<held, size, table, owed>>
    BY <1>4 DEF InitiateAdd, Ask
  <2>3. AddsOK'
    BY <1>0, <2>2 DEF AddsOK
  <2> QED BY <1>0, <1>1, <2>1, <2>2, <2>3
<1>5. ASSUME NEW h \in Hosts, NEW t \in Tags, InitiateShare(h, t) PROVE TagsInv'
  <2>1. [host |-> h, tag |-> t, length |-> 0] \in Addition
    BY DEF Addition
  <2>2. adds' = adds \cup {[host |-> h, tag |-> t, length |-> 0]}
        /\ UNCHANGED <<held, size, table, owed>>
    BY <1>5 DEF InitiateShare, Ask
  <2>3. AddsOK'
    BY <1>0, <2>2 DEF AddsOK
  <2> QED BY <1>0, <1>1, <2>1, <2>2, <2>3
<1>6. ASSUME NEW h \in Hosts, NEW t \in Tags, GiveBack(h, t) PROVE TagsInv'
  BY <1>0, <1>1, <1>6 DEF GiveBack, Free, AddsOK
<1>7. ASSUME NEW a \in adds, Accept(a) PROVE TagsInv'
  <2>1. a.tag \in Tags /\ a.length \in Nat /\ a.host \in Hosts
    BY AcceptedAddition
  <2>2. held' \in [Hosts -> SUBSET Tags] /\ size' \in [Tags -> Nat]
    BY <1>0, <1>7, <2>1 DEF Accept
  <2> QED BY <1>0, <1>1, <1>7, <2>2 DEF Accept, AddsOK
<1>8. ASSUME NEW a \in adds, Refuse(a) PROVE TagsInv'
  BY <1>0, <1>1, <1>8 DEF Refuse, AddsOK
<1>9. CASE UNCHANGED tagVars
  BY <1>0, <1>1, <1>9 DEF tagVars, AddsOK
<1> QED BY <1>2, <1>3, <1>4, <1>5, <1>6, <1>7, <1>8, <1>9 DEF TagsNext

\* Every record of tagged capacity keeps its type, no reference is written
\* behind MAX_TAGS, and no tag ever has two entries of which only the first
\* would be found, whatever the FM sends (the property TagsTypeOK).
THEOREM TagsTypesHold == TagsSpec => []TagsTypeOK
<1>1. TagsInv => TagsTypeOK
  BY DEF TagsInv
<1> QED BY <1>1, TagsInvInit, TagsInvStep, PTL DEF TagsSpec

\* No reference is written behind MAX_TAGS and no tag has two entries
\* (TagsTypeOK), and whatever entries came and went, the count of every tag is
\* the number of references the FM has added and not removed
\* (CountsMatchReferences; mailbox_dynamic_capacity_add_reference and
\* mailbox_dynamic_capacity_remove_reference).
THEOREM TableCountsReferences == TagsSpec => [](TagsTypeOK /\ CountsMatchReferences)
<1>1. TagsInv => TagsTypeOK /\ CountsMatchReferences
  BY DEF TagsInv
<1> QED BY <1>1, TagsInvInit, TagsInvStep, PTL DEF TagsSpec

-----------------------------------------------------------------------------
(* The users of a tag.  From here on the FM is orderly with references: it  *)
(* adds them to capacity that exists and removes what it has added.        *)

UsersInv == TagsInv /\ KeptWhileUsed

LEMMA UsersOf ==
    ASSUME NEW t
    PROVE  /\ Users(t) # {} <=> Holders(t) # {} \/ owed[t] > 0
           /\ Fm \notin Holders(t)
           /\ Fm \in Users(t) <=> owed[t] > 0
           /\ Users(t) \ {Fm} = Holders(t)
<1>1. Fm \notin Holders(t)
  BY TagsAssumption DEF Holders, Fm
<1> QED BY <1>1 DEF Users

\* A tag counts as referenced if and only if the FM has a reference to it.
LEMMA ReferencedIfOwed == ASSUME TagsInv, NEW t \in Tags
                          PROVE  Referenced(t) <=> owed[t] > 0
<1>1. \A i \in DOMAIN table : table[i].refs = owed[table[i].tag]
  BY DEF TagsInv, CountsMatchReferences
<1>2. owed[t] > 0 => \E i \in DOMAIN table : table[i].tag = t
  BY DEF TagsInv, CountsMatchReferences, Known
<1> QED BY <1>1, <1>2 DEF Referenced

\* Each command is a step of SharedCapacity, or none.
LEMMA AddReferenceJoins ==
    ASSUME UsersInv, "stale" \notin FmLiberties, NEW t \in Tags, AddReference(t)
    PROVE  UNCHANGED <<held, size>> /\ (UNCHANGED owed \/ Sharing!Join(t, Fm))
<1>1. /\ UNCHANGED <<held, size>> /\ Users(t) # {}
      /\ UNCHANGED owed \/ owed' = [owed EXCEPT ![t] = @ + 1]
  BY AddReferenceStep, UsersOf DEF UsersInv
<1>2. owed \in [Tags -> Nat]
  BY DEF UsersInv, TagsInv, TagsTypeOK
<1>3. CASE owed' = [owed EXCEPT ![t] = @ + 1]
  <2>1. owed'[t] > 0 /\ \A u \in Tags : u # t => owed'[u] = owed[u]
    BY <1>2, <1>3
  <2>2. \A u \in Tags : Users(u)' = IF u = t THEN Users(u) \cup {Fm} ELSE Users(u)
    BY <1>1, <2>1 DEF Users, Holders
  <2> QED BY <1>1, <2>2 DEF Sharing!Join
<1> QED BY <1>1, <1>3

LEMMA RemoveReferenceLeaves ==
    ASSUME UsersInv, "stale" \notin FmLiberties, NEW t \in Tags, RemoveReference(t)
    PROVE  \/ UNCHANGED size /\ UNCHANGED [u \in Tags |-> Users(u)]
           \/ Sharing!Leave(t, Fm)
<1>1. /\ UNCHANGED held /\ owed[t] > 0
      /\ owed' = [owed EXCEPT ![t] = IF owed[t] > 0 THEN owed[t] - 1 ELSE 0]
      /\ IF owed'[t] = 0 /\ Holders(t) = {} THEN Free(t) ELSE UNCHANGED size
  BY RemoveReferenceStep DEF UsersInv
<1>2. owed \in [Tags -> Nat]
  BY DEF UsersInv, TagsInv, TagsTypeOK
<1>3. owed'[t] = owed[t] - 1 /\ \A u \in Tags : u # t => owed'[u] = owed[u]
  BY <1>1, <1>2
<1>4. Holders(t)' = Holders(t) /\ \A u \in Tags : u # t => Users(u)' = Users(u)
  BY <1>1, <1>3 DEF Users, Holders
<1>5. CASE owed[t] > 1
  <2>1. owed'[t] > 0
    BY <1>2, <1>3, <1>5
  <2>2. Users(t)' = Users(t)
    BY <1>1, <1>4, <2>1 DEF Users
  <2>3. UNCHANGED size
    BY <1>1, <2>1
  <2> QED BY <1>4, <2>2, <2>3
<1>6. CASE owed[t] = 1
  <2>1. owed'[t] = 0
    BY <1>3, <1>6
  <2>2. Users(t)' = Holders(t) /\ Users(t) = Holders(t) \cup {Fm}
    BY <1>1, <1>4, <2>1 DEF Users
  <2>3. Users(t)' = Users(t) \ {Fm} /\ (Users(t) = {Fm} <=> Holders(t) = {})
    BY <2>2, UsersOf
  <2>4. [u \in Tags |-> Users(u)'] = [u \in Tags |-> IF u = t THEN Users(t) \ {Fm} ELSE Users(u)]
    BY <1>4, <2>3
  <2>5. size' = IF Users(t) = {Fm} THEN [size EXCEPT ![t] = 0] ELSE size
    BY <1>1, <2>1, <2>3 DEF Free
  <2> QED BY <2>4, <2>5 DEF Sharing!Leave
<1> QED BY <1>1, <1>2, <1>5, <1>6

LEMMA GiveBackLeaves ==
    ASSUME UsersInv, NEW h \in Hosts, NEW t \in Tags, GiveBack(h, t)
    PROVE  Sharing!Leave(t, h)
<1>1. /\ t \in held[h] /\ held' = [held EXCEPT ![h] = @ \ {t}] /\ UNCHANGED owed
      /\ IF Holders(t) = {h} /\ ~Referenced(t) THEN Free(t) ELSE UNCHANGED size
  BY DEF GiveBack
<1>2. held \in [Hosts -> SUBSET Tags] /\ owed \in [Tags -> Nat]
  BY DEF UsersInv, TagsInv, TagsTypeOK
<1>3. \A g \in Hosts : held'[g] = IF g = h THEN held[h] \ {t} ELSE held[g]
  BY <1>1, <1>2
<1>4. Holders(t)' = Holders(t) \ {h} /\ \A u \in Tags : u # t => Holders(u)' = Holders(u)
  BY <1>3 DEF Holders
<1>5. h # Fm /\ h \in Holders(t)
  BY <1>1, TagsAssumption DEF Holders, Fm
<1>6. Users(t)' = Users(t) \ {h} /\ \A u \in Tags : u # t => Users(u)' = Users(u)
  BY <1>1, <1>4, <1>5 DEF Users
<1>7. Users(t) = {h} <=> Holders(t) = {h} /\ ~Referenced(t)
  <2>1. Referenced(t) <=> owed[t] > 0
    BY ReferencedIfOwed DEF UsersInv
  <2>2. CASE owed[t] > 0
    BY <1>5, <2>1, <2>2 DEF Users
  <2>3. CASE ~(owed[t] > 0)
    BY <2>1, <2>3 DEF Users
  <2> QED BY <2>2, <2>3
<1>8. size' = IF Users(t) = {h} THEN [size EXCEPT ![t] = 0] ELSE size
  BY <1>1, <1>7 DEF Free
<1> QED BY <1>6, <1>8 DEF Sharing!Leave

LEMMA AcceptJoins ==
    ASSUME UsersInv, NEW a \in adds, Accept(a)
    PROVE  Sharing!Join(a.tag, a.host) \/ (a.length \in Lengths /\ Sharing!Allocate(a.tag, a.host, a.length))
<1> DEFINE t == a.tag
           h == a.host
<1>1. /\ a.length > 0 \/ size[t] > 0
      /\ held' = [held EXCEPT ![h] = @ \cup {t}]
      /\ size' = [size EXCEPT ![t] = @ + a.length] /\ UNCHANGED owed
  BY DEF Accept
<1>2. h \in Hosts /\ t \in Tags /\ a.length \in Lengths \cup {0} /\ a.length \in Nat
  BY AcceptedAddition DEF UsersInv
<1>3. held \in [Hosts -> SUBSET Tags] /\ size \in [Tags -> Nat]
  BY DEF UsersInv, TagsInv, TagsTypeOK
<1> HIDE DEF t, h
<1>4. \A g \in Hosts : held'[g] = IF g = h THEN held[h] \cup {t} ELSE held[g]
  BY <1>1, <1>2, <1>3
<1>5. Holders(t)' = Holders(t) \cup {h} /\ \A u \in Tags : u # t => Holders(u)' = Holders(u)
  BY <1>2, <1>4 DEF Holders
<1>6. Users(t)' = Users(t) \cup {h} /\ \A u \in Tags : u # t => Users(u)' = Users(u)
  BY <1>1, <1>5 DEF Users
<1>7. size[t] > 0 <=> Users(t) # {}
  BY <1>2 DEF UsersInv, KeptWhileUsed
<1>8. CASE a.length = 0
  <2>1. Users(t) # {}
    BY <1>1, <1>7, <1>8
  <2>2. size' = size
    <3>1. size[t] + a.length = size[t]
      BY <1>2, <1>3, <1>8
    <3> QED BY <1>1, <1>3, <3>1
  <2>3. [u \in Tags |-> Users(u)'] = [u \in Tags |-> IF u = t THEN Users(t) \cup {h} ELSE Users(u)]
    BY <1>6
  <2>4. Sharing!Join(t, h)
    BY <2>1, <2>2, <2>3, <1>2 DEF Sharing!Join
  <2> QED BY <2>4 DEF t, h
<1>9. CASE a.length # 0
  <2>1. [u \in Tags |-> Users(u)'] = [u \in Tags |-> IF u = t THEN Users(t) \cup {h} ELSE Users(u)]
    BY <1>6
  <2>2. Sharing!Allocate(t, h, a.length)
    BY <1>1, <2>1, <1>2 DEF Sharing!Allocate
  <2> QED BY <2>2, <1>2, <1>9 DEF t, h
<1> QED BY <1>8, <1>9

LEMMA StepShares ==
    ASSUME UsersInv, "stale" \notin FmLiberties, [TagsNext]_tagVars
    PROVE  [Sharing!SharedNext]_(Sharing!sharedVars)
<1>1. ASSUME UNCHANGED <<held, size, owed>> PROVE UNCHANGED Sharing!sharedVars
  BY <1>1 DEF Sharing!sharedVars, Users, Holders
<1>2. ASSUME NEW t \in Tags, AddReference(t) PROVE [Sharing!SharedNext]_(Sharing!sharedVars)
  BY <1>1, <1>2, AddReferenceJoins DEF Sharing!SharedNext
<1>3. ASSUME NEW t \in Tags, RemoveReference(t) PROVE [Sharing!SharedNext]_(Sharing!sharedVars)
  BY <1>3, RemoveReferenceLeaves DEF Sharing!SharedNext, Sharing!sharedVars
<1>4. ASSUME NEW h \in Hosts, NEW t \in Tags,
             GiveBack(h, t) \/ InitiateShare(h, t) \/ \E n \in Lengths : InitiateAdd(h, t, n)
      PROVE  [Sharing!SharedNext]_(Sharing!sharedVars)
  <2>1. CASE GiveBack(h, t)
    BY <2>1, GiveBackLeaves DEF Sharing!SharedNext
  <2>2. CASE InitiateShare(h, t) \/ \E n \in Lengths : InitiateAdd(h, t, n)
    BY <1>1, <2>2 DEF InitiateShare, InitiateAdd, Ask
  <2> QED BY <1>4, <2>1, <2>2
<1>5. ASSUME NEW a \in adds, Accept(a) PROVE [Sharing!SharedNext]_(Sharing!sharedVars)
  <2>1. a.tag \in Tags /\ a.host \in Hosts
    BY AcceptedAddition DEF UsersInv
  <2> QED BY <1>5, <2>1, AcceptJoins DEF Sharing!SharedNext
<1>6. ASSUME NEW a \in adds, Refuse(a) PROVE [Sharing!SharedNext]_(Sharing!sharedVars)
  BY <1>1, <1>6 DEF Refuse
<1>7. CASE UNCHANGED tagVars
  BY <1>1, <1>7 DEF tagVars
<1> QED BY <1>2, <1>3, <1>4, <1>5, <1>6, <1>7 DEF TagsNext

\* What a step of SharedCapacity does to users and length it does to both.
LEMMA SharedStepKeeps ==
    ASSUME UsersInv, [Sharing!SharedNext]_(Sharing!sharedVars)
    PROVE  KeptWhileUsed'
<1>0. size \in [Tags -> Nat] /\ \A t \in Tags : size[t] > 0 <=> Users(t) # {}
  BY DEF UsersInv, TagsInv, TagsTypeOK, KeptWhileUsed
<1> SUFFICES ASSUME NEW t \in Tags PROVE size'[t] > 0 <=> Users(t)' # {}
  BY DEF KeptWhileUsed
<1> DEFINE us == [u \in Tags |-> Users(u)]
<1>1. us[t] = Users(t) /\ us'[t] = Users(t)'
  OBVIOUS
<1>2. ASSUME NEW w \in Tags, NEW h \in Hosts, NEW n \in Lengths, Sharing!Allocate(w, h, n)
      PROVE  size'[t] > 0 <=> Users(t)' # {}
  <2>1. us' = [us EXCEPT ![w] = @ \cup {h}] /\ size' = [size EXCEPT ![w] = @ + n]
    BY <1>2 DEF Sharing!Allocate
  <2>2. n > 0 /\ n \in Nat
    BY TagsAssumption
  <2>3. CASE t = w
    <3>1. size'[t] = size[t] + n /\ h \in us'[t]
      BY <1>0, <2>1, <2>3
    <3> QED BY <1>0, <1>1, <2>2, <3>1
  <2>4. CASE t # w
    BY <1>0, <1>1, <2>1, <2>4
  <2> QED BY <2>3, <2>4
<1>3. ASSUME NEW w \in Tags, NEW v, Sharing!Join(w, v)
      PROVE  size'[t] > 0 <=> Users(t)' # {}
  <2>1. us' = [us EXCEPT ![w] = @ \cup {v}] /\ size' = size /\ us[w] # {}
    BY <1>3 DEF Sharing!Join
  <2> QED BY <1>0, <1>1, <2>1
<1>4. ASSUME NEW w \in Tags, NEW v, Sharing!Leave(w, v)
      PROVE  size'[t] > 0 <=> Users(t)' # {}
  <2>1. /\ us' = [us EXCEPT ![w] = @ \ {v}]
        /\ size' = IF us[w] = {v} THEN [size EXCEPT ![w] = 0] ELSE size
    BY <1>4 DEF Sharing!Leave
  <2>2. us[w] \ {v} = {} <=> us[w] = {v} \/ us[w] = {}
    OBVIOUS
  <2> HIDE DEF us
  <2>3. CASE t = w
    BY <1>0, <1>1, <2>1, <2>2, <2>3 DEF us
  <2>4. CASE t # w
    BY <1>0, <1>1, <2>1, <2>4 DEF us
  <2> QED BY <2>3, <2>4
<1>5. CASE UNCHANGED Sharing!sharedVars
  <2>1. us' = us /\ size' = size
    BY <1>5 DEF Sharing!sharedVars
  <2> QED BY <1>0, <1>1, <2>1
<1> QED BY <1>2, <1>3, <1>4, <1>5 DEF Sharing!SharedNext

LEMMA UsersInvInit == TagsInit => UsersInv /\ Sharing!SharedInit
<1> SUFFICES ASSUME TagsInit PROVE UsersInv /\ Sharing!SharedInit
  OBVIOUS
<1>1. \A t \in Tags : Users(t) = {} /\ size[t] = 0
  BY DEF TagsInit, Users, Holders
<1>2. size = [t \in Tags |-> 0] /\ [t \in Tags |-> Users(t)] = [t \in Tags |-> {}]
  BY <1>1 DEF TagsInit
<1> QED BY <1>1, <1>2, TagsInvInit DEF UsersInv, KeptWhileUsed, Sharing!SharedInit

\* With an FM that adds references to capacity that exists and removes what it
\* has added, capacity is there exactly as long as a host or the FM uses it
\* (KeptWhileUsed; the end of mailbox_dynamic_capacity_remove_reference).
THEOREM CapacityKeptWhileUsed ==
    "stale" \notin FmLiberties /\ TagsSpec => []KeptWhileUsed
<1> SUFFICES ASSUME "stale" \notin FmLiberties PROVE TagsSpec => []KeptWhileUsed
  OBVIOUS
<1>1. UsersInv /\ [TagsNext]_tagVars => UsersInv'
  BY TagsInvStep, StepShares, SharedStepKeeps DEF UsersInv
<1>2. UsersInv => KeptWhileUsed
  BY DEF UsersInv
<1> QED BY <1>1, <1>2, UsersInvInit, PTL DEF TagsSpec

\* Tables, counts and searches amount to a set of users for each tag
\* (SharingImplemented; all commands that handle tags).
THEOREM TagsImplementSharing ==
    "stale" \notin FmLiberties /\ TagsSpec => SharingImplemented
<1> SUFFICES ASSUME "stale" \notin FmLiberties PROVE TagsSpec => SharingImplemented
  OBVIOUS
<1>1. UsersInv /\ [TagsNext]_tagVars => UsersInv' /\ [Sharing!SharedNext]_(Sharing!sharedVars)
  BY TagsInvStep, StepShares, SharedStepKeeps DEF UsersInv
<1> QED BY <1>1, UsersInvInit, PTL DEF TagsSpec, SharingImplemented, Sharing!SharedSpec
=============================================================================
